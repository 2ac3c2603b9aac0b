------------------------ MODULE StreamDeliveryProofs ------------------------
(***************************************************************************)
(* For every finite set of streams and every value of the limits: what the *)
(* application gets of a stream, the buffers held for it, the frames owed  *)
(* for it, and the connection's accounts over all of its streams.          *)
(***************************************************************************)
EXTENDS StreamRecvProofs, SetSums

\* The stream will bring the application no more data: reading was stopped, or
\* the peer has reset it; or everything up to the final size was delivered.
Ended(st) == st.flags \cap {"STOP_SENDING", "RESET_STREAM_RECVED"} # {}
Complete(st) == "SHUT_RD" \in st.flags /\ st.cont_offset = st.last_offset

NoHistory == [ got |-> {}, deliv |-> 0, fins |-> 0, credited |-> 0, used |-> 0,
               usedStrm |-> 0, shutAt |-> NoOffset ]

\* All that was delivered, and all that is stored, was received.
PrefixOK(st, a) ==
    /\ \A x \in Offsets : x < a.deliv \/ Covered(st.reorder, x) => x \in a.got
    /\ a.deliv <= st.cont_offset
    /\ "STOP_SENDING" \notin st.flags => a.deliv = st.cont_offset

FinOK(st, a) ==
    /\ a.fins \in {0, 1}
    /\ a.fins = 1 => "SHUT_RD" \in st.flags /\ a.deliv = st.last_offset
    /\ Complete(st) /\ ~Ended(st) => a.fins = 1

StatusOK(s, st, a) ==
    /\ "RESET_STREAM_RECVED" \in st.flags => "SHUT_RD" \in st.flags
    /\ st.state = "none" => st = [InitStream(s) EXCEPT !.state = "none"] /\ a = NoHistory
    /\ st.state = "closed" => st.reorder = {}

OwedOK(st) ==
    /\ st.state = "open"
    /\ \/ "SEND_STOP_SENDING" \in st.flags
       \/ st.flags \cap {"SHUT_RD", "STOP_SENDING"} = {} /\ ShouldSendMax(st)
    => st.queued

\* Nothing can be delivered any more once the application has called
\* ngtcp2_conn_shutdown_stream_read, unless it did so in a callback.
ShutOK(st, a) ==
    a.shutAt # NoOffset => a.deliv <= a.shutAt /\ (Ended(st) \/ Complete(st))

\* What holds of a stream and its history in every state.
HistoryOK(s, st, a) ==
    /\ PrefixOK(st, a)
    /\ FinOK(st, a)
    /\ StatusOK(s, st, a)
    /\ OwedOK(st)
    /\ ~StopInCallback => ShutOK(st, a)

\* A stream is closed by its own doing only when it has ended.
ClosedOK(st) == st.state = "closed" => Ended(st) \/ Complete(st)

SettledOK(st, a) == a.credited = IF Ended(st) THEN st.last_offset - a.deliv ELSE 0

Lasts == [s \in Streams |-> strm[s].last_offset]
Returned == [s \in Streams |-> app[s].used + app[s].credited]

\* The inductive invariant.
DeliveryInv ==
    /\ RecvInv
    /\ \A s \in Streams : HistoryOK(s, strm[s], app[s])
    /\ err # "deleted" => \A s \in Streams : ClosedOK(strm[s])
    /\ Live /\ ~StopInCallback => \A s \in Streams : SettledOK(strm[s], app[s])
    /\ Live \/ MaxVarint < MaxFragments =>
         \A s \in Streams : refs[s] = Cardinality(strm[s].reorder)
    /\ Live => rx.offset = Sum(Lasts, Streams)
    /\ Live => LET sum == rx.window + Sum(Returned, Streams)
               IN  rx.unsent_max_offset = IF sum > MaxVarint THEN MaxVarint ELSE sum

-----------------------------------------------------------------------------
(* What a frame finds *)

\* Between two calls the storage never holds the byte at the delivered offset, so
\* ngtcp2_strm_rx_offset is the delivered offset.
LEMMA RxIsCont ==
    ASSUME NEW st, StrmOK(st), NEW off \in Offsets, IsRxOffset(st, off)
    PROVE  off = st.cont_offset
<1>1. st.cont_offset <= off /\ st.cont_offset \in Nat /\ off \in Nat
  BY RxOffsetBounded, RecvConstants DEF StrmOK, StrmType, Offsets
<1>2. ~Covered(st.reorder, st.cont_offset)
  <2>1. \A ent \in st.reorder : st.cont_offset < ent.begin /\ ent.begin \in Nat
    BY RecvConstants DEF StrmOK, StorageOK, Entries, Offsets
  <2> QED
    BY <2>1, <1>1 DEF Covered
<1>3. \A x \in st.cont_offset .. (off - 1) : Covered(st.reorder, x)
  BY Zenon DEF IsRxOffset, IsFirstGap
<1> QED
  BY <1>1, <1>2, <1>3

\* The stream a frame opens has the history of one that does not exist yet.
LEMMA OpenedHistory ==
    ASSUME DeliveryInv, NEW s \in Streams, strm[s].state # "closed"
    PROVE  /\ Opened(s) = [strm[s] EXCEPT !.state = "open"]
           /\ StrmOK(Opened(s)) /\ HistoryOK(s, Opened(s), app[s])
           /\ app[s] \in AppType
<1>1. StrmOK(Opened(s)) /\ strm[s] \in StrmType /\ app[s] \in AppType
  BY OpenedOK, Zenon DEF DeliveryInv, RecvInv, StrmOK
<1>2. HistoryOK(s, strm[s], app[s])
  BY Zenon DEF DeliveryInv
<1>3. CASE strm[s].state = "open"
  BY <1>1, <1>2, <1>3, Zenon DEF Opened, StrmType
<1>4. CASE strm[s].state = "none"
  <2>1. strm[s] = [InitStream(s) EXCEPT !.state = "none"] /\ Opened(s) = InitStream(s)
    BY <1>2, <1>4, Zenon DEF HistoryOK, StatusOK, Opened
  <2>2. Opened(s) = [strm[s] EXCEPT !.state = "open"]
    <3>1. InitStream(s) \in StrmType /\ InitStream(s).state = "open"
      BY InitStreamOK, Zenon DEF StrmOK, InitStream
    <3> QED
      BY <2>1, <3>1, Zenon DEF StrmType
  <2>3. app[s] = NoHistory
    BY <1>2, <1>4, Zenon DEF HistoryOK, StatusOK
  <2>4. ~Ended(InitStream(s)) /\ ~Complete(InitStream(s))
    BY Zenon DEF Ended, Complete, InitStream
  <2>5. PrefixOK(InitStream(s), NoHistory)
    BY RecvConstants DEF PrefixOK, InitStream, NoHistory, Covered, Offsets
  <2>6. FinOK(InitStream(s), NoHistory) /\ ShutOK(InitStream(s), NoHistory)
    BY <2>4 DEF FinOK, ShutOK, NoHistory
  <2>7. StatusOK(s, InitStream(s), NoHistory) /\ OwedOK(InitStream(s))
    BY RecvConstants DEF StatusOK, OwedOK, InitStream, ShouldSendMax
  <2> QED
    BY <1>1, <2>1, <2>2, <2>3, <2>5, <2>6, <2>7, Zenon DEF HistoryOK
<1> QED
  BY <1>1, <1>3, <1>4, Zenon DEF StrmType

\* Only the final size and the flags differ.
SameButEnd(o, st) ==
    st = [o EXCEPT !.last_offset = st.last_offset, !.flags = st.flags]

\* A STREAM frame that passes the checks of conn_recv_stream, once it is recorded.
LEMMA FrameRecorded ==
    ASSUME DeliveryInv, NEW s \in Streams, NEW end \in Nat, NEW fin \in BOOLEAN,
           Acceptable(s, end, fin)
    PROVE  LET o  == Opened(s)
               st == Recorded(o, end, fin)
           IN  /\ end \in Offsets
               /\ StrmOK(st) /\ st \in StrmType /\ NewBytes(o, end) \in Nat
               /\ SameButEnd(o, st)
               /\ st.flags = IF fin THEN o.flags \cup {"SHUT_RD"} ELSE o.flags
               /\ st.last_offset = o.last_offset + NewBytes(o, end)
               /\ "SHUT_RD" \in o.flags => st.last_offset = o.last_offset
               /\ end <= st.last_offset
               /\ fin => end = st.last_offset
<1> DEFINE o == Opened(s)
           st == Recorded(o, end, fin)
<1>1. /\ ~FlowControlViolated(o, end) /\ ~FinalSizeViolated(o, end, fin)
      /\ RxOK(rx) /\ RecvInv
  BY Zenon DEF Acceptable, DeliveryInv, RecvInv
<1>2. StrmOK(o)
  BY <1>1, OpenedOK, Zenon
<1> HIDE DEF o
<1>3. StrmOK(st) /\ end \in Offsets /\ end <= st.last_offset
  BY <1>1, <1>2, RecordedOK, Zenon
<1>4. o \in StrmType /\ o.last_offset \in Nat
  BY <1>2, RecvConstants DEF StrmOK, StrmType, Offsets
<1>5. /\ st.last_offset = IF fin \/ o.last_offset < end THEN end ELSE o.last_offset
      /\ st.flags = IF fin THEN o.flags \cup {"SHUT_RD"} ELSE o.flags
      /\ SameButEnd(o, st)
  BY <1>4, Zenon DEF Recorded, StrmType, SameButEnd
<1> HIDE DEF st
<1>6. /\ st.last_offset = o.last_offset + NewBytes(o, end) /\ NewBytes(o, end) \in Nat
      /\ "SHUT_RD" \in o.flags => st.last_offset = o.last_offset
      /\ fin => end = st.last_offset
  BY <1>1, <1>4, <1>5 DEF NewBytes, FinalSizeViolated
<1>7. st \in StrmType
  BY <1>3, Zenon DEF StrmOK
<1> QED
  BY <1>3, <1>5, <1>6, <1>7, Zenon DEF o, st

\* A stream on which a frame brings something new has not been reset, is not
\* complete, and no FIN was passed to the application for it.
LEMMA NotFinished ==
    ASSUME DeliveryInv, NEW s \in Streams, NEW end \in Nat, NEW fin \in BOOLEAN,
           Acceptable(s, end, fin),
           ~NothingNew(Opened(s), end, fin, Opened(s).cont_offset)
    PROVE  /\ "RESET_STREAM_RECVED" \notin Opened(s).flags
           /\ ~Complete(Opened(s)) /\ app[s].fins = 0
           /\ Opened(s).cont_offset <= end
           /\ ~StopInCallback /\ ~Ended(Opened(s)) => app[s].shutAt = NoOffset
<1> DEFINE o == Opened(s)
<1>1. StrmOK(o) /\ HistoryOK(s, o, app[s]) /\ app[s] \in AppType
  BY OpenedHistory, Zenon DEF Acceptable
<1>2. ~FinalSizeViolated(o, end, fin) /\ ~NothingNew(o, end, fin, o.cont_offset)
  BY Zenon DEF Acceptable
<1> HIDE DEF o
<1>3. /\ o.cont_offset \in Nat /\ o.last_offset \in Nat /\ o.cont_offset <= o.last_offset
      /\ app[s].deliv \in Nat
  BY <1>1, RecvConstants DEF StrmOK, StrmType, AppType, Offsets
<1>4. "RESET_STREAM_RECVED" \notin o.flags /\ o.cont_offset <= end
  BY <1>2, <1>3 DEF NothingNew, FinalSizeViolated
<1>5. ~Complete(o)
  BY <1>2, <1>3 DEF NothingNew, FinalSizeViolated, Complete
<1>6. app[s].fins = 0
  BY <1>1, <1>3, <1>5 DEF HistoryOK, FinOK, PrefixOK, Complete
<1>7. ~StopInCallback /\ ~Ended(o) => app[s].shutAt = NoOffset
  BY <1>1, <1>5, Zenon DEF HistoryOK, ShutOK
<1> QED
  BY <1>4, <1>5, <1>6, <1>7, Zenon DEF o

-----------------------------------------------------------------------------
(* A step that changes one stream *)

OneStream(s, n, a, r) ==
    /\ strm' = [strm EXCEPT ![s] = n]
    /\ app' = [app EXCEPT ![s] = a]
    /\ refs' = [refs EXCEPT ![s] = r]

\* conn->rx moves by the bytes that are new on s and by the credit given back
\* for s.
Counted(s, n, a) ==
    LET credit == (a.used + a.credited) - (app[s].used + app[s].credited)
    IN  /\ credit \in Nat
        /\ rx'.offset = rx.offset + (n.last_offset - strm[s].last_offset)
        /\ rx'.unsent_max_offset = Extend(rx.unsent_max_offset, credit)
        /\ rx'.window = rx.window

\* Saturating additions of credit add up.
LEMMA ExtendAdds ==
    ASSUME NEW u \in Nat, NEW sum \in Int, NEW c \in Nat,
           u = IF sum > MaxVarint THEN MaxVarint ELSE sum
    PROVE  Extend(u, c) = IF sum + c > MaxVarint THEN MaxVarint ELSE sum + c
<1>1. MaxVarint \in Nat
  BY RecvConstants, Zenon
<1>2. CASE sum > MaxVarint
  <2>1. u = MaxVarint
    BY <1>2, Zenon
  <2> QED
    BY <1>1, <1>2, <2>1 DEF Extend
<1>3. CASE ~(sum > MaxVarint)
  <2>1. u = sum
    BY <1>3, Zenon
  <2> QED
    BY <1>1, <1>3, <2>1 DEF Extend
<1> QED
  BY <1>2, <1>3, Zenon

\* The offsets and the returned credit of the streams can be summed.
LEMMA SumsType ==
    ASSUME RecvInv
    PROVE  /\ Lasts \in [Streams -> Int] /\ Returned \in [Streams -> Int]
           /\ IsFiniteSet(Streams)
<1>1. ASSUME NEW s \in Streams
      PROVE  strm[s].last_offset \in Int /\ app[s].used + app[s].credited \in Int
  BY RecvConstants DEF RecvInv, StrmType, AppType, Offsets
<1> QED
  BY <1>1, RecvConstants, Zenon DEF Lasts, Returned

\* The sums over all streams move with the one stream.
LEMMA SumsStep ==
    ASSUME RecvInv, RecvInv', NEW s \in Streams, NEW n, NEW a, NEW r,
           OneStream(s, n, a, r)
    PROVE  /\ Sum(Lasts', Streams)
                = Sum(Lasts, Streams) - strm[s].last_offset + n.last_offset
           /\ Sum(Returned', Streams)
                = Sum(Returned, Streams) - (app[s].used + app[s].credited)
                                         + (a.used + a.credited)
<1>1. /\ Lasts \in [Streams -> Int] /\ Returned \in [Streams -> Int]
      /\ IsFiniteSet(Streams)
  BY SumsType, Zenon
<1>2. Lasts' \in [Streams -> Int] /\ Returned' \in [Streams -> Int]
  <2>1. ASSUME NEW t \in Streams
        PROVE  strm'[t].last_offset \in Int /\ app'[t].used + app'[t].credited \in Int
    BY RecvConstants DEF RecvInv, StrmType, AppType, Offsets
  <2> QED
    BY <2>1, Zenon DEF Lasts, Returned
<1>3. /\ \A t \in Streams : strm'[t] = IF t = s THEN n ELSE strm[t]
      /\ \A t \in Streams : app'[t] = IF t = s THEN a ELSE app[t]
  BY Zenon DEF RecvInv, OneStream
<1>4. /\ Lasts[s] = strm[s].last_offset /\ Lasts'[s] = n.last_offset
      /\ \A t \in Streams \ {s} : Lasts[t] = Lasts'[t]
  BY <1>3, Zenon DEF Lasts
<1>5. /\ Returned[s] = app[s].used + app[s].credited
      /\ Returned'[s] = a.used + a.credited
      /\ \A t \in Streams \ {s} : Returned[t] = Returned'[t]
  BY <1>3, Zenon DEF Returned
<1>6. Sum(Lasts', Streams) = Sum(Lasts, Streams) - Lasts[s] + Lasts'[s]
  BY <1>1, <1>2, <1>4, SumChange
<1>7. Sum(Returned', Streams) = Sum(Returned, Streams) - Returned[s] + Returned'[s]
  BY <1>1, <1>2, <1>5, SumChange
<1> QED
  BY <1>4, <1>5, <1>6, <1>7, Zenon

\* The parts shown for the one stream make the invariant.
LEMMA Combine ==
    ASSUME DeliveryInv, Live, RecvInv', NEW s \in Streams, NEW n, NEW a, NEW r,
           OneStream(s, n, a, r), HistoryOK(s, n, a), ClosedOK(n), err' # "deleted",
           Live' \/ MaxVarint < MaxFragments => r = Cardinality(n.reorder),
           Live' => /\ ~StopInCallback => SettledOK(n, a)
                    /\ Counted(s, n, a)
    PROVE  DeliveryInv'
<1>1. RecvInv
  BY Zenon DEF DeliveryInv
<1>2. /\ \A t \in Streams : strm'[t] = IF t = s THEN n ELSE strm[t]
      /\ \A t \in Streams : app'[t] = IF t = s THEN a ELSE app[t]
      /\ \A t \in Streams : refs'[t] = IF t = s THEN r ELSE refs[t]
  BY <1>1, Zenon DEF RecvInv, OneStream
<1>3. \A t \in Streams : HistoryOK(t, strm'[t], app'[t]) /\ ClosedOK(strm'[t])
  BY <1>2, Zenon DEF DeliveryInv, Live
<1>4. Live' /\ ~StopInCallback => \A t \in Streams : SettledOK(strm'[t], app'[t])
  BY <1>2, Zenon DEF DeliveryInv
<1>5. Live' \/ MaxVarint < MaxFragments =>
         \A t \in Streams : refs'[t] = Cardinality(strm'[t].reorder)
  BY <1>2, Zenon DEF DeliveryInv
<1>6. ASSUME Live'
      PROVE  /\ rx'.offset = Sum(Lasts', Streams)
             /\ rx'.unsent_max_offset = IF rx'.window + Sum(Returned', Streams) > MaxVarint
                                        THEN MaxVarint
                                        ELSE rx'.window + Sum(Returned', Streams)
  <2> DEFINE k == Sum(Lasts, Streams)
             m == Sum(Returned, Streams)
             was == app[s].used + app[s].credited
             now == a.used + a.credited
             k2 == Sum(Lasts', Streams)
             m2 == Sum(Returned', Streams)
  <2>1. k2 = k - strm[s].last_offset + n.last_offset /\ m2 = m - was + now
    BY <1>1, SumsStep, Zenon
  <2>2. k \in Int /\ m \in Int
    BY <1>1, SumsType, SumType, Zenon
  <2>3. /\ rx.offset = k
        /\ rx.unsent_max_offset = IF rx.window + m > MaxVarint THEN MaxVarint ELSE rx.window + m
    BY Zenon DEF DeliveryInv
  <2>4. /\ now - was \in Nat
        /\ rx'.offset = rx.offset + (n.last_offset - strm[s].last_offset)
        /\ rx'.unsent_max_offset = Extend(rx.unsent_max_offset, now - was)
        /\ rx'.window = rx.window
    BY <1>6, Zenon DEF Counted
  <2>5. /\ rx.window \in Int /\ rx.unsent_max_offset \in Nat
        /\ strm[s].last_offset \in Int /\ n.last_offset \in Int
        /\ was \in Int /\ now \in Int
    <3>1. app'[s] \in AppType /\ app[s] \in AppType /\ strm[s] \in StrmType /\ strm'[s] \in StrmType
      BY <1>1, Zenon DEF RecvInv
    <3>2. n \in StrmType /\ a \in AppType
      BY <3>1, <1>2, Zenon
    <3>3. rx \in RxType
      BY <1>1, Zenon DEF RecvInv, RxOK
    <3> QED
      BY <3>1, <3>2, <3>3, RecvConstants DEF StrmType, AppType, RxType, Offsets
  <2> HIDE DEF k, m, k2, m2, was, now
  <2>6. rx'.offset = k2
    BY <2>1, <2>2, <2>3, <2>4, <2>5
  <2>7. Extend(rx.unsent_max_offset, now - was)
          = IF (rx.window + m) + (now - was) > MaxVarint THEN MaxVarint
            ELSE (rx.window + m) + (now - was)
    <3> DEFINE u == rx.unsent_max_offset
               w == rx.window + m
               c == now - was
    <3>1. u \in Nat /\ w \in Int /\ c \in Nat
      BY <2>2, <2>4, <2>5
    <3>2. u = IF w > MaxVarint THEN MaxVarint ELSE w
      BY <2>3, Zenon
    <3> HIDE DEF u, w, c
    <3>3. Extend(u, c) = IF w + c > MaxVarint THEN MaxVarint ELSE w + c
      BY <3>1, <3>2, ExtendAdds, Zenon
    <3> QED
      BY <3>3, Zenon DEF u, w, c
  <2>8. (rx.window + m) + (now - was) = rx'.window + m2
    BY <2>1, <2>2, <2>4, <2>5
  <2> QED
    BY <2>4, <2>6, <2>7, <2>8, Zenon DEF k2, m2
<1> QED
  BY <1>3, <1>4, <1>5, <1>6, Zenon DEF DeliveryInv

-----------------------------------------------------------------------------
(* What the operations do to the history *)

\* A stream that keeps its values.
LEMMA Unchanged ==
    ASSUME RecvInv, NEW s \in Streams
    PROVE  /\ strm = [strm EXCEPT ![s] = strm[s]]
           /\ app = [app EXCEPT ![s] = app[s]]
           /\ refs = [refs EXCEPT ![s] = refs[s]]
BY Zenon DEF RecvInv

\* ngtcp2_conn_close_stream_if_shut_rdwr closes a stream that has ended.
LEMMA CloseHistory ==
    ASSUME NEW s, NEW st \in StrmType, NEW a, NEW off,
           st.state = "open", off = st.cont_offset, HistoryOK(s, st, a)
    PROVE  LET n == CloseIfShutRdWr(st, off)
           IN  /\ HistoryOK(s, n, a) /\ ClosedOK(n) /\ SettledOK(n, a) = SettledOK(st, a)
               /\ n.last_offset = st.last_offset
<1> DEFINE n == CloseIfShutRdWr(st, off)
<1>1. /\ n.flags = st.flags /\ n.cont_offset = st.cont_offset
      /\ n.last_offset = st.last_offset
      /\ \/ n = st
         \/ /\ n.state = "closed" /\ n.reorder = {}
            /\ "SHUT_RD" \in st.flags
            /\ "RESET_STREAM_RECVED" \in st.flags \/ off = st.last_offset
  BY Zenon DEF CloseIfShutRdWr, StrmType
<1> HIDE DEF n
<1>2. Ended(n) = Ended(st) /\ Complete(n) = Complete(st)
  BY <1>1, Zenon DEF Ended, Complete
<1>3. SettledOK(n, a) = SettledOK(st, a)
  BY <1>1, <1>2, Zenon DEF SettledOK
<1>4. CASE n = st
  BY <1>3, <1>4, Zenon DEF ClosedOK, n
<1>5. CASE n.state = "closed" /\ n.reorder = {} /\ (Ended(st) \/ Complete(st))
  <2>1. PrefixOK(n, a)
    BY <1>1, <1>5, Zenon DEF HistoryOK, PrefixOK, Covered
  <2>2. FinOK(n, a) /\ ShutOK(n, a) = ShutOK(st, a)
    BY <1>1, <1>2, Zenon DEF HistoryOK, FinOK, ShutOK
  <2>3. StatusOK(s, n, a) /\ OwedOK(n)
    BY <1>1, <1>5, Zenon DEF HistoryOK, StatusOK, OwedOK
  <2> QED
    BY <2>1, <2>2, <2>3, <1>1, <1>2, <1>3, <1>5, Zenon DEF HistoryOK, ClosedOK, n
<1> QED
  BY <1>1, <1>4, <1>5, Zenon DEF Ended, Complete

\* More bytes received change nothing else.
LEMMA GotHistory ==
    ASSUME NEW s, NEW st, NEW a \in AppType, NEW X, st.state # "none", HistoryOK(s, st, a)
    PROVE  LET a2 == [a EXCEPT !.got = @ \cup X]
           IN  /\ HistoryOK(s, st, a2)
               /\ SettledOK(st, a2) = SettledOK(st, a)
               /\ a2.used = a.used /\ a2.credited = a.credited
<1> DEFINE a2 == [a EXCEPT !.got = @ \cup X]
<1>1. /\ a2.got = a.got \cup X /\ a2.deliv = a.deliv /\ a2.fins = a.fins
      /\ a2.credited = a.credited /\ a2.used = a.used /\ a2.shutAt = a.shutAt
  BY Zenon DEF AppType
<1> HIDE DEF a2
<1>2. PrefixOK(st, a2)
  BY <1>1, Zenon DEF HistoryOK, PrefixOK
<1>3. FinOK(st, a2) /\ ShutOK(st, a2) = ShutOK(st, a) /\ SettledOK(st, a2) = SettledOK(st, a)
  BY <1>1, Zenon DEF HistoryOK, FinOK, ShutOK, SettledOK
<1>4. StatusOK(s, st, a2) /\ OwedOK(st)
  BY Zenon DEF HistoryOK, StatusOK
<1> QED
  BY <1>1, <1>2, <1>3, <1>4, Zenon DEF HistoryOK, a2

\* The history once a frame with something new is recorded; only its data, or its
\* FIN at the delivered offset, is still to be passed on.
LEMMA RecordedHistory ==
    ASSUME DeliveryInv, NEW s \in Streams, NEW end \in Nat, NEW fin \in BOOLEAN,
           Acceptable(s, end, fin),
           ~NothingNew(Opened(s), end, fin, Opened(s).cont_offset)
    PROVE  LET st == Recorded(Opened(s), end, fin)
           IN  /\ st.state = "open" /\ "RESET_STREAM_RECVED" \notin st.flags
               /\ Ended(st) = Ended(Opened(s))
               /\ PrefixOK(st, app[s]) /\ StatusOK(s, st, app[s]) /\ OwedOK(st)
               /\ ~StopInCallback => ShutOK(st, app[s])
               /\ app[s].fins = 0
               /\ Ended(st) \/ ~Complete(st) => HistoryOK(s, st, app[s])
<1> DEFINE o == Opened(s)
           st == Recorded(o, end, fin)
<1>1. /\ o = [strm[s] EXCEPT !.state = "open"]
      /\ StrmOK(o) /\ HistoryOK(s, o, app[s]) /\ app[s] \in AppType /\ strm[s] \in StrmType
  BY OpenedHistory, Zenon DEF Acceptable, DeliveryInv, RecvInv
<1>2. o.state = "open" /\ o \in StrmType
  BY <1>1, Zenon DEF StrmType, StrmOK
<1>3. /\ "RESET_STREAM_RECVED" \notin o.flags /\ ~Complete(o) /\ app[s].fins = 0
      /\ ~StopInCallback /\ ~Ended(o) => app[s].shutAt = NoOffset
  BY NotFinished, Zenon
<1>4. /\ SameButEnd(o, st)
      /\ st.flags = IF fin THEN o.flags \cup {"SHUT_RD"} ELSE o.flags
  BY FrameRecorded, Zenon
<1> HIDE DEF o, st
<1>5. /\ st.state = "open" /\ st.cont_offset = o.cont_offset /\ st.reorder = o.reorder
      /\ st.queued = o.queued /\ st.window = o.window
      /\ st.max_offset = o.max_offset /\ st.unsent_max_offset = o.unsent_max_offset
  BY <1>2, <1>4, Zenon DEF StrmType, SameButEnd
<1>6. Ended(st) = Ended(o) /\ "RESET_STREAM_RECVED" \notin st.flags
  BY <1>3, <1>4 DEF Ended
<1>7. PrefixOK(st, app[s])
  BY <1>1, <1>4, <1>5, Zenon DEF HistoryOK, PrefixOK
<1>8. StatusOK(s, st, app[s])
  BY <1>5, <1>6, Zenon DEF StatusOK
<1>9. OwedOK(st)
  BY <1>1, <1>2, <1>4, <1>5 DEF HistoryOK, OwedOK, ShouldSendMax
<1>10. ~StopInCallback => ShutOK(st, app[s])
  BY <1>1, <1>3, <1>6, Zenon DEF HistoryOK, ShutOK
<1>11. Ended(st) \/ ~Complete(st) => FinOK(st, app[s])
  BY <1>3 DEF FinOK
<1> QED
  BY <1>3, <1>5, <1>6, <1>7, <1>8, <1>9, <1>10, <1>11, Zenon DEF HistoryOK, o, st

\* Credit given back changes nothing else.
LEMMA CreditHistory ==
    ASSUME NEW s, NEW st, NEW a \in AppType, NEW c, st.state # "none", HistoryOK(s, st, a)
    PROVE  HistoryOK(s, st, [a EXCEPT !.credited = c])
<1> DEFINE a2 == [a EXCEPT !.credited = c]
<1>1. a2.got = a.got /\ a2.deliv = a.deliv /\ a2.fins = a.fins /\ a2.shutAt = a.shutAt
  BY Zenon DEF AppType
<1> HIDE DEF a2
<1>2. PrefixOK(st, a2) /\ FinOK(st, a2) /\ ShutOK(st, a2) = ShutOK(st, a)
  BY <1>1, Zenon DEF HistoryOK, PrefixOK, FinOK, ShutOK
<1>3. StatusOK(s, st, a2) /\ OwedOK(st)
  BY Zenon DEF HistoryOK, StatusOK
<1> QED
  BY <1>2, <1>3, Zenon DEF HistoryOK, a2

\* What the invariant says of a stream that is about to process a frame.
LEMMA Start ==
    ASSUME DeliveryInv, Live, NEW s \in Streams, strm[s].state # "closed"
    PROVE  LET o == Opened(s)
           IN  /\ o \in StrmType /\ StrmOK(o) /\ o.state = "open"
               /\ HistoryOK(s, o, app[s]) /\ app[s] \in AppType
               /\ refs[s] = Cardinality(o.reorder)
               /\ ~StopInCallback => SettledOK(o, app[s])
               /\ o.last_offset = strm[s].last_offset
               /\ RecvInv /\ RxOK(rx)
<1> DEFINE o == Opened(s)
<1>1. /\ o = [strm[s] EXCEPT !.state = "open"] /\ StrmOK(o)
      /\ HistoryOK(s, o, app[s]) /\ app[s] \in AppType
  BY OpenedHistory, Zenon
<1>2. RecvInv /\ RxOK(rx) /\ strm[s] \in StrmType
  BY Zenon DEF DeliveryInv, RecvInv
<1> HIDE DEF o
<1>3. /\ o.state = "open" /\ o.reorder = strm[s].reorder /\ o.flags = strm[s].flags
      /\ o.last_offset = strm[s].last_offset
  BY <1>1, <1>2, Zenon DEF StrmType
<1>4. refs[s] = Cardinality(strm[s].reorder) /\ (~StopInCallback => SettledOK(strm[s], app[s]))
  BY Zenon DEF DeliveryInv
<1>5. SettledOK(o, app[s]) = SettledOK(strm[s], app[s])
  BY <1>3, Zenon DEF SettledOK, Ended
<1> QED
  BY <1>1, <1>2, <1>3, <1>4, <1>5, Zenon DEF o, StrmOK

\* What conn_recv_stream adds to the connection's accounts for a frame.
LEMMA AccountedFields ==
    ASSUME RxOK(rx), NEW st, NEW end, NewBytes(st, end) \in Nat
    PROVE  /\ Accounted(st, end) \in [offset : Nat, max_offset : Offsets,
                                      unsent_max_offset : Offsets, window : Nat]
           /\ Accounted(st, end).offset = rx.offset + NewBytes(st, end)
           /\ Accounted(st, end).window = rx.window
           /\ Accounted(st, end).unsent_max_offset
                = Extend(rx.unsent_max_offset, CreditBack(st, end))
           /\ CreditBack(st, end) \in Nat
<1> DEFINE k == rx.offset + NewBytes(st, end)
           u == IF "STOP_SENDING" \in st.flags
                THEN Extend(rx.unsent_max_offset, NewBytes(st, end)) ELSE rx.unsent_max_offset
<1>1. rx \in RxType /\ MaxVarint \in Nat
  BY RecvConstants, Zenon DEF RxOK
<1>2. CreditBack(st, end) \in Nat
  BY Zenon DEF CreditBack
<1>3. Extend(rx.unsent_max_offset, 0) = rx.unsent_max_offset
  BY <1>1 DEF Extend, RxType, Offsets
<1>4. u = Extend(rx.unsent_max_offset, CreditBack(st, end))
  BY <1>3, Zenon DEF CreditBack
<1>5. u \in Offsets
  BY <1>1, <1>2, <1>4, ExtendOK, Zenon DEF RxType
<1>6. k \in Nat
  BY <1>1 DEF RxType
<1>7. Accounted(st, end) = [rx EXCEPT !.offset = k, !.unsent_max_offset = u]
  BY Zenon DEF Accounted
<1> HIDE DEF k, u
<1>8. /\ Accounted(st, end) \in RxType
      /\ Accounted(st, end).offset = k /\ Accounted(st, end).window = rx.window
      /\ Accounted(st, end).unsent_max_offset = u
  BY <1>1, <1>5, <1>6, <1>7, Zenon DEF RxType
<1> QED
  BY <1>2, <1>4, <1>8, Zenon DEF RxType, k

\* The references a step releases are those of the entries it drops.
LEMMA Releases ==
    ASSUME NEW a, NEW b, StrmOK(a), StrmOK(b), NEW r, r = Cardinality(a.reorder)
    PROVE  r - ReleasedBy(a, b) = Cardinality(b.reorder)
<1>1. Cardinality(a.reorder) \in Nat
  BY StorageFinite, Zenon DEF StrmOK, Entries, StorageOK
<1>2. Cardinality(b.reorder) \in Nat
  BY StorageFinite, Zenon DEF StrmOK, Entries, StorageOK
<1> QED
  BY <1>1, <1>2 DEF ReleasedBy

-----------------------------------------------------------------------------
(* Every step keeps the invariant *)

\* A STREAM frame refused with an error.
LEMMA StreamErrorHistory ==
    ASSUME DeliveryInv, RecvInv', NEW s \in Streams, NEW end \in Nat, NEW fin \in BOOLEAN,
           RecvStreamError(s, end, fin)
    PROVE  DeliveryInv'
<1>1. Live /\ err' # "deleted" /\ ~Live' /\ strm[s].state # "closed"
  BY Zenon DEF RecvStreamError, Live
<1>2. /\ RecvInv /\ HistoryOK(s, strm[s], app[s]) /\ ClosedOK(strm[s])
      /\ refs[s] = Cardinality(strm[s].reorder)
  <2>1. RecvInv /\ HistoryOK(s, strm[s], app[s])
    BY Zenon DEF DeliveryInv
  <2>2. ClosedOK(strm[s])
    BY <1>1, Zenon DEF DeliveryInv, Live
  <2>3. refs[s] = Cardinality(strm[s].reorder)
    BY <1>1, Zenon DEF DeliveryInv
  <2> QED
    BY <2>1, <2>2, <2>3, Zenon
<1>3. CASE strm' = strm
  <2>1. OneStream(s, strm[s], app[s], refs[s])
    BY <1>2, <1>3, Unchanged, Zenon DEF OneStream, RecvStreamError
  <2> QED
    BY <2>1, <1>1, <1>2, Combine, Zenon
<1>4. CASE strm' = [strm EXCEPT ![s] = Opened(s)]
  <2>1. OneStream(s, Opened(s), app[s], refs[s])
    BY <1>2, <1>4, Unchanged, Zenon DEF OneStream, RecvStreamError
  <2>2. /\ HistoryOK(s, Opened(s), app[s]) /\ ClosedOK(Opened(s))
        /\ refs[s] = Cardinality(Opened(s).reorder)
    BY <1>1, Start, Zenon DEF ClosedOK
  <2> QED
    BY <2>1, <2>2, <1>1, Combine, Zenon
<1> QED
  BY <1>3, <1>4, Zenon DEF RecvStreamError

\* A STREAM frame with nothing new.
LEMMA StreamIgnoredHistory ==
    ASSUME DeliveryInv, RecvInv', NEW s \in Streams, NEW b \in Offsets, NEW end \in Nat,
           NEW fin \in BOOLEAN, RecvStreamIgnored(s, b, end, fin)
    PROVE  DeliveryInv'
<1> DEFINE o == Opened(s)
           st == Recorded(o, end, fin)
           a == Got(s, b, end)
<1>1. Acceptable(s, end, fin) /\ Live /\ strm[s].state # "closed" /\ err' # "deleted"
  BY Zenon DEF RecvStreamIgnored, Acceptable
<1>2. /\ o \in StrmType /\ StrmOK(o) /\ o.state = "open"
      /\ HistoryOK(s, o, app[s]) /\ app[s] \in AppType
      /\ refs[s] = Cardinality(o.reorder)
      /\ ~StopInCallback => SettledOK(o, app[s])
      /\ o.last_offset = strm[s].last_offset
      /\ RecvInv /\ RxOK(rx)
  BY <1>1, Start, Zenon
<1>3. NothingNew(o, end, fin, o.cont_offset)
  BY <1>2, RxIsCont, Zenon DEF RecvStreamIgnored
<1>4. /\ NewBytes(o, end) \in Nat
      /\ SameButEnd(o, st)
      /\ st.flags = IF fin THEN o.flags \cup {"SHUT_RD"} ELSE o.flags
      /\ st.last_offset = o.last_offset + NewBytes(o, end)
      /\ "SHUT_RD" \in o.flags => st.last_offset = o.last_offset
  BY <1>1, FrameRecorded, Zenon
<1>5. /\ rx' = Accounted(o, end) /\ strm' = [strm EXCEPT ![s] = st]
      /\ app' = [app EXCEPT ![s] = a] /\ refs' = refs
  BY Zenon DEF RecvStreamIgnored
<1> HIDE DEF o, st
<1>6. o.last_offset \in Nat /\ o.cont_offset \in Nat /\ o.cont_offset <= o.last_offset
  BY <1>2, RecvConstants DEF StrmOK, StrmType, Offsets
<1>7. NewBytes(o, end) = 0 /\ st.flags = o.flags /\ st.last_offset = o.last_offset
  <2>1. CASE "SHUT_RD" \in o.flags
    <3>1. st.last_offset = o.last_offset /\ st.flags = o.flags
      BY <2>1, <1>4, Zenon
    <3>2. NewBytes(o, end) = 0
      BY <3>1, <1>4, <1>6
    <3> QED
      BY <3>1, <3>2, Zenon
  <2>2. CASE "SHUT_RD" \notin o.flags
    <3>1. ~fin /\ end <= o.cont_offset
      BY <2>2, <1>2, <1>3, Zenon DEF NothingNew, HistoryOK, StatusOK
    <3>2. NewBytes(o, end) = 0
      BY <3>1, <1>6 DEF NewBytes
    <3> QED
      BY <3>1, <3>2, <1>4, <1>6
  <2> QED
    BY <2>1, <2>2, Zenon
<1>8. st = o
  <2>1. [o EXCEPT !.last_offset = o.last_offset, !.flags = o.flags] = o
    BY <1>2, Zenon DEF StrmType
  <2> QED
    BY <2>1, <1>4, <1>7, Zenon DEF SameButEnd
<1>9. OneStream(s, o, a, refs[s])
  BY <1>2, <1>5, <1>8, Unchanged, Zenon DEF OneStream
<1>10. /\ HistoryOK(s, o, a) /\ SettledOK(o, a) = SettledOK(o, app[s])
       /\ a.used = app[s].used /\ a.credited = app[s].credited
  BY <1>2, GotHistory DEF Got
<1>11. Counted(s, o, a)
  <2>1. /\ rx'.offset = rx.offset + NewBytes(o, end) /\ rx'.window = rx.window
        /\ rx'.unsent_max_offset = Extend(rx.unsent_max_offset, CreditBack(o, end))
    BY <1>2, <1>4, <1>5, AccountedFields
  <2>2. CreditBack(o, end) = 0
    BY <1>7, Zenon DEF CreditBack
  <2>3. (a.used + a.credited) - (app[s].used + app[s].credited) = 0
    BY <1>2, <1>10 DEF AppType
  <2>4. rx.offset + 0 = rx.offset + (o.last_offset - strm[s].last_offset)
    BY <1>2, <1>6
  <2> QED
    BY <2>1, <2>2, <2>3, <2>4, <1>7 DEF Counted
<1>12. ClosedOK(o)
  BY <1>2, Zenon DEF ClosedOK
<1> QED
  BY <1>1, <1>2, <1>9, <1>10, <1>11, <1>12, Combine, Zenon

\* A STREAM frame for a stream the application has stopped reading.
LEMMA StreamDiscardedHistory ==
    ASSUME DeliveryInv, RecvInv', NEW s \in Streams, NEW b \in Offsets, NEW end \in Nat,
           NEW fin \in BOOLEAN, RecvStreamDiscarded(s, b, end, fin)
    PROVE  DeliveryInv'
<1> DEFINE o == Opened(s)
           st == Recorded(o, end, fin)
           D(off) == IF b <= off /\ b # end THEN end ELSE off
           d == D(o.cont_offset)
           n0 == [st EXCEPT !.cont_offset = d]
           g == Got(s, b, end)
           c == g.credited + CreditBack(o, end)
           a == [g EXCEPT !.credited = c]
<1>1. Acceptable(s, end, fin) /\ Live /\ strm[s].state # "closed" /\ Live' /\ err' # "deleted"
  BY Zenon DEF RecvStreamDiscarded, Acceptable, Live
<1>2. /\ o \in StrmType /\ StrmOK(o) /\ o.state = "open"
      /\ app[s] \in AppType
      /\ refs[s] = Cardinality(o.reorder)
      /\ ~StopInCallback => SettledOK(o, app[s])
      /\ o.last_offset = strm[s].last_offset
      /\ RecvInv /\ RxOK(rx)
  BY <1>1, Start, Zenon
<1>3. PICK off \in Offsets :
        /\ IsRxOffset(o, off) /\ ~NothingNew(o, end, fin, off)
        /\ strm' = [strm EXCEPT ![s] = CloseIfShutRdWr([st EXCEPT !.cont_offset = D(off)], D(off))]
  BY Zenon DEF RecvStreamDiscarded
<1>4. off = o.cont_offset
  BY <1>2, <1>3, RxIsCont, Zenon
<1>5. /\ end \in Offsets /\ StrmOK(st) /\ st \in StrmType /\ NewBytes(o, end) \in Nat
      /\ SameButEnd(o, st)
      /\ st.flags = IF fin THEN o.flags \cup {"SHUT_RD"} ELSE o.flags
      /\ st.last_offset = o.last_offset + NewBytes(o, end)
  BY <1>1, FrameRecorded, Zenon
<1>6. /\ st.state = "open" /\ Ended(st) = Ended(o) /\ app[s].fins = 0
      /\ Ended(st) \/ ~Complete(st) => HistoryOK(s, st, app[s])
      /\ o.cont_offset <= end
  BY <1>1, <1>3, <1>4, RecordedHistory, NotFinished, Zenon
<1>7. "STOP_SENDING" \in o.flags /\ o.reorder = {}
  BY <1>2, Zenon DEF RecvStreamDiscarded, StrmOK
<1>8. rx' = Accounted(o, end) /\ app' = [app EXCEPT ![s] = a] /\ refs' = refs
  BY Zenon DEF RecvStreamDiscarded
<1> HIDE DEF o, st
<1>9. /\ "STOP_SENDING" \in st.flags /\ Ended(st) /\ Ended(o)
      /\ HistoryOK(s, st, app[s])
      /\ st.cont_offset = o.cont_offset /\ st.reorder = {}
  BY <1>2, <1>5, <1>6, <1>7, Zenon DEF Ended, StrmType, SameButEnd
<1>10. d \in Offsets /\ o.cont_offset <= d
  BY <1>2, <1>5, <1>6, RecvConstants DEF StrmType, Offsets
<1> HIDE DEF d
<1>11. /\ n0 \in StrmType /\ n0.state = "open" /\ n0.cont_offset = d /\ n0.flags = st.flags
       /\ n0.last_offset = st.last_offset /\ n0.reorder = {} /\ n0.queued = st.queued
       /\ n0.window = st.window /\ n0.max_offset = st.max_offset
       /\ n0.unsent_max_offset = st.unsent_max_offset
  BY <1>5, <1>6, <1>9, <1>10, Zenon DEF StrmType
<1> HIDE DEF n0
<1>12. Ended(n0) /\ HistoryOK(s, n0, app[s])
  <2>1. Ended(n0)
    BY <1>9, <1>11, Zenon DEF Ended
  <2>2. PrefixOK(n0, app[s])
    <3>1. app[s].deliv <= d
      BY <1>2, <1>9, <1>10, RecvConstants DEF HistoryOK, PrefixOK, AppType, StrmType, Offsets
    <3> QED
      BY <3>1, <1>9, <1>11, Zenon DEF HistoryOK, PrefixOK, Covered
  <2>3. FinOK(n0, app[s])
    BY <2>1, <1>6 DEF FinOK
  <2>4. StatusOK(s, n0, app[s]) /\ OwedOK(n0)
    BY <1>6, <1>9, <1>11, Zenon DEF HistoryOK, StatusOK, OwedOK, ShouldSendMax
  <2>5. ~StopInCallback => ShutOK(n0, app[s])
    BY <2>1, <1>9, Zenon DEF HistoryOK, ShutOK
  <2> QED
    BY <2>1, <2>2, <2>3, <2>4, <2>5, Zenon DEF HistoryOK
<1>13. /\ g \in AppType /\ HistoryOK(s, n0, g)
       /\ g.used = app[s].used /\ g.credited = app[s].credited /\ g.deliv = app[s].deliv
  BY <1>2, <1>5, <1>11, <1>12, GotHistory, GotType DEF Got, AppType
<1> HIDE DEF g
<1>14. HistoryOK(s, n0, a) /\ a.used = app[s].used /\ a.credited = c /\ a.deliv = app[s].deliv
  BY <1>11, <1>13, CreditHistory, Zenon DEF AppType
<1> DEFINE n == CloseIfShutRdWr(n0, d)
<1>15. /\ HistoryOK(s, n, a) /\ ClosedOK(n) /\ SettledOK(n, a) = SettledOK(n0, a)
       /\ n.last_offset = n0.last_offset /\ n.reorder = {}
  <2>1. n.reorder = {}
    BY <1>11, Zenon DEF CloseIfShutRdWr, StrmType
  <2> HIDE DEF a
  <2>2. /\ HistoryOK(s, n, a) /\ ClosedOK(n) /\ SettledOK(n, a) = SettledOK(n0, a)
        /\ n.last_offset = n0.last_offset
    BY <1>11, <1>14, CloseHistory
  <2> QED
    BY <2>1, <2>2, Zenon
<1>16. OneStream(s, n, a, refs[s])
  BY <1>2, <1>3, <1>4, <1>8, Unchanged, Zenon DEF OneStream, n0, d
<1> HIDE DEF n, a
<1>17. CreditBack(o, end) = NewBytes(o, end)
  BY <1>7, Zenon DEF CreditBack
<1>18. /\ app[s].used \in Nat /\ app[s].credited \in Nat /\ o.last_offset \in Nat
       /\ app[s].deliv \in Nat
  BY <1>2, RecvConstants DEF AppType, StrmType, Offsets
<1>19. Counted(s, n, a)
  <2>1. /\ rx'.offset = rx.offset + NewBytes(o, end) /\ rx'.window = rx.window
        /\ rx'.unsent_max_offset = Extend(rx.unsent_max_offset, NewBytes(o, end))
    BY <1>2, <1>5, <1>8, <1>17, AccountedFields
  <2>2. (a.used + a.credited) - (app[s].used + app[s].credited) = NewBytes(o, end)
    BY <1>5, <1>13, <1>14, <1>17, <1>18
  <2>3. n.last_offset - strm[s].last_offset = NewBytes(o, end)
    BY <1>2, <1>5, <1>11, <1>15, <1>18
  <2> QED
    BY <2>1, <2>2, <2>3, <1>5, Zenon DEF Counted
<1>20. ~StopInCallback => SettledOK(n0, a)
  BY <1>2, <1>5, <1>9, <1>11, <1>12, <1>13, <1>14, <1>17, <1>18 DEF SettledOK
<1> QED
  BY <1>1, <1>2, <1>7, <1>15, <1>16, <1>19, <1>20, Combine, Zenon

\* An empty STREAM frame with FIN ahead of the delivered offset.
LEMMA StreamEmptyAheadHistory ==
    ASSUME DeliveryInv, RecvInv', NEW s \in Streams, NEW b \in Offsets, NEW fin \in BOOLEAN,
           RecvStreamEmptyAhead(s, b, fin)
    PROVE  DeliveryInv'
<1> DEFINE o == Opened(s)
           st == Recorded(o, b, fin)
<1>0. b \in Nat
  BY RecvConstants DEF Offsets
<1>1. Acceptable(s, b, fin) /\ Live /\ strm[s].state # "closed" /\ Live' /\ err' # "deleted"
  BY Zenon DEF RecvStreamEmptyAhead, Acceptable, Live
<1>2. /\ o \in StrmType /\ StrmOK(o) /\ o.state = "open"
      /\ app[s] \in AppType
      /\ refs[s] = Cardinality(o.reorder)
      /\ ~StopInCallback => SettledOK(o, app[s])
      /\ o.last_offset = strm[s].last_offset
      /\ RecvInv /\ RxOK(rx)
  BY <1>1, Start, Zenon
<1>3. PICK off \in Offsets :
        /\ IsRxOffset(o, off) /\ ~NothingNew(o, b, fin, off) /\ off < b
        /\ strm' = [strm EXCEPT ![s] = CloseIfShutRdWr(st, off)]
  BY Zenon DEF RecvStreamEmptyAhead
<1>4. off = o.cont_offset
  BY <1>2, <1>3, RxIsCont, Zenon
<1>5. /\ StrmOK(st) /\ st \in StrmType /\ NewBytes(o, b) \in Nat
      /\ SameButEnd(o, st)
      /\ st.last_offset = o.last_offset + NewBytes(o, b)
      /\ b <= st.last_offset
  <2>1. /\ StrmOK(st) /\ NewBytes(o, b) \in Nat /\ SameButEnd(o, st)
        /\ st.last_offset = o.last_offset + NewBytes(o, b) /\ b <= st.last_offset
    BY <1>0, <1>1, FrameRecorded, Zenon
  <2> QED
    BY <2>1, Zenon DEF StrmOK
<1>6. /\ st.state = "open" /\ Ended(st) = Ended(o) /\ "RESET_STREAM_RECVED" \notin st.flags
      /\ Ended(st) \/ ~Complete(st) => HistoryOK(s, st, app[s])
      /\ "RESET_STREAM_RECVED" \notin o.flags
  BY <1>0, <1>1, <1>3, <1>4, RecordedHistory, NotFinished, Zenon
<1>7. "STOP_SENDING" \notin o.flags /\ ~Ended(o)
  BY <1>6, Zenon DEF RecvStreamEmptyAhead, Ended
<1>8. rx' = Accounted(o, b) /\ app' = app /\ refs' = refs
  BY Zenon DEF RecvStreamEmptyAhead
<1> HIDE DEF o, st
<1>9. /\ st.cont_offset = off /\ st.reorder = o.reorder
      /\ st.last_offset \in Nat /\ o.last_offset \in Nat /\ off < st.last_offset
  <2>1. st.cont_offset = off /\ st.reorder = o.reorder
    BY <1>2, <1>4, <1>5, Zenon DEF StrmType, SameButEnd
  <2>2. st.last_offset \in Nat /\ o.last_offset \in Nat /\ off \in Nat
    BY <1>2, <1>5, RecvConstants DEF StrmType, Offsets
  <2> QED
    BY <2>1, <2>2, <1>0, <1>3, <1>5
<1>10. CloseIfShutRdWr(st, off) = st /\ ~Complete(st)
  BY <1>6, <1>9, RecvConstants DEF CloseIfShutRdWr, Complete, Offsets
<1>11. OneStream(s, st, app[s], refs[s])
  BY <1>2, <1>3, <1>8, <1>10, Unchanged, Zenon DEF OneStream
<1>12. ClosedOK(st) /\ HistoryOK(s, st, app[s])
  BY <1>6, <1>10, Zenon DEF ClosedOK
<1>13. ~StopInCallback => SettledOK(st, app[s])
  BY <1>2, <1>6, <1>7, Zenon DEF SettledOK
<1>14. Counted(s, st, app[s])
  <2>1. /\ rx'.offset = rx.offset + NewBytes(o, b) /\ rx'.window = rx.window
        /\ rx'.unsent_max_offset = Extend(rx.unsent_max_offset, CreditBack(o, b))
    BY <1>2, <1>5, <1>8, AccountedFields
  <2>2. CreditBack(o, b) = 0
    BY <1>7, Zenon DEF CreditBack
  <2>3. (app[s].used + app[s].credited) - (app[s].used + app[s].credited) = 0
    BY <1>2 DEF AppType
  <2>4. st.last_offset - strm[s].last_offset = NewBytes(o, b)
    BY <1>2, <1>5, <1>9
  <2> QED
    BY <2>1, <2>2, <2>3, <2>4, SMTT(60) DEF Counted
<1> QED
  BY <1>1, <1>2, <1>9, <1>11, <1>12, <1>13, <1>14, Combine, Zenon

\* The fragments of a stream are never more than its bytes.
LEMMA StorageBounded ==
    ASSUME NEW st, StrmOK(st)
    PROVE  Cardinality(st.reorder) <= MaxVarint
<1> DEFINE R == st.reorder
           f == [ent \in R |-> ent.begin]
<1>0. MaxVarint \in Nat
  BY RecvConstants, Zenon
<1>1. \A ent \in R : /\ ent.begin \in 1 .. MaxVarint /\ ent.end \in Nat
                     /\ ent \in [begin : Offsets, end : Offsets]
                     /\ ent.begin < ent.end
  BY <1>0 DEF StrmOK, StorageOK, Entries, WellFormed, StrmType, Offsets
<1>2. ASSUME NEW x \in R, NEW y \in R, f[x] = f[y] PROVE x = y
  <2>1. x.begin = y.begin
    BY <1>2, Zenon
  <2> QED
    BY <2>1, <1>1 DEF StrmOK, StorageOK, Entries, WellFormed
<1>3. f \in Injection(R, 1 .. MaxVarint)
  BY <1>1, <1>2, Zenon DEF Injection, IsInjective
<1>4. IsFiniteSet(1 .. MaxVarint) /\ Cardinality(1 .. MaxVarint) = MaxVarint
  BY <1>0, FS_Interval
<1> QED
  BY <1>3, <1>4, FS_Injection

\* A STREAM frame that is stored until the gap before it is filled.
LEMMA StreamReorderedHistory ==
    ASSUME DeliveryInv, RecvInv', NEW s \in Streams, NEW b \in Offsets, NEW end \in Nat,
           NEW fin \in BOOLEAN, RecvStreamReordered(s, b, end, fin)
    PROVE  DeliveryInv'
<1> DEFINE o == Opened(s)
           st == Recorded(o, end, fin)
           a == Got(s, b, end)
<1>1. Acceptable(s, end, fin) /\ Live /\ strm[s].state # "closed"
  BY Zenon DEF RecvStreamReordered, Acceptable
<1>2. /\ o \in StrmType /\ StrmOK(o) /\ o.state = "open"
      /\ app[s] \in AppType
      /\ refs[s] = Cardinality(o.reorder)
      /\ ~StopInCallback => SettledOK(o, app[s])
      /\ o.last_offset = strm[s].last_offset
      /\ RecvInv /\ RxOK(rx)
  BY <1>1, Start, Zenon
<1>3. PICK off \in Offsets :
        IsRxOffset(o, off) /\ ~NothingNew(o, end, fin, off) /\ off < b
  BY Zenon DEF RecvStreamReordered
<1>4. off = o.cont_offset
  BY <1>2, <1>3, RxIsCont, Zenon
<1>5. /\ end \in Offsets /\ StrmOK(st) /\ st \in StrmType /\ NewBytes(o, end) \in Nat
      /\ SameButEnd(o, st)
      /\ st.last_offset = o.last_offset + NewBytes(o, end)
      /\ end <= st.last_offset
  <2>1. /\ end \in Offsets /\ StrmOK(st) /\ NewBytes(o, end) \in Nat /\ SameButEnd(o, st)
        /\ st.last_offset = o.last_offset + NewBytes(o, end) /\ end <= st.last_offset
    BY <1>1, FrameRecorded, Zenon
  <2> QED
    BY <2>1, Zenon DEF StrmOK
<1>6. /\ st.state = "open" /\ Ended(st) = Ended(o)
      /\ Ended(st) \/ ~Complete(st) => HistoryOK(s, st, app[s])
      /\ "RESET_STREAM_RECVED" \notin o.flags
  BY <1>1, <1>3, <1>4, RecordedHistory, NotFinished, Zenon
<1>7. "STOP_SENDING" \notin o.flags /\ ~Ended(o) /\ b < end
  BY <1>6, Zenon DEF RecvStreamReordered, Ended
<1>8. rx' = Accounted(o, end) /\ app' = [app EXCEPT ![s] = a]
  BY Zenon DEF RecvStreamReordered
<1>9. \/ /\ strm' = [strm EXCEPT ![s] = st]
         /\ err' \in {"none", "INTERNAL"}
         /\ refs' = refs
      \/ \E nb, ne \in Offsets :
         /\ PushStores(st.reorder, st.cont_offset, b, end, nb, ne)
         /\ LET R == st.reorder \cup {ByteRange(nb, ne)}
            IN /\ strm' = [strm EXCEPT ![s] = [st EXCEPT !.reorder = R]]
               /\ IF Cardinality(R) >= MaxFragments
                  THEN err' = "INTERNAL" /\ refs' = refs
                  ELSE err' = err /\ refs' = [refs EXCEPT ![s] = @ + 1]
  BY Zenon DEF RecvStreamReordered
<1> HIDE DEF o, st
<1>10. /\ st.cont_offset = off /\ st.reorder = o.reorder
       /\ st.last_offset \in Nat /\ o.last_offset \in Nat /\ off < st.last_offset
  <2>1. st.cont_offset = off /\ st.reorder = o.reorder
    BY <1>2, <1>4, <1>5, Zenon DEF StrmType, SameButEnd
  <2>2. st.last_offset \in Nat /\ o.last_offset \in Nat /\ off \in Nat /\ b \in Nat
    BY <1>2, <1>5, RecvConstants, SMTT(60) DEF StrmType, Offsets
  <2> QED
    BY <2>1, <2>2, <1>3, <1>5, <1>7, SMTT(60)
<1>11. ~Complete(st)
  BY <1>10, RecvConstants DEF Complete, Offsets
<1>12. /\ HistoryOK(s, st, a) /\ SettledOK(st, a) = SettledOK(st, app[s])
       /\ a.used = app[s].used /\ a.credited = app[s].credited
       /\ a.got = app[s].got \cup (b .. (end - 1))
  BY <1>2, <1>6, <1>11, GotHistory DEF Got, AppType
<1>13. ~StopInCallback => SettledOK(st, a)
  BY <1>2, <1>6, <1>7, <1>12, Zenon DEF SettledOK
<1> HIDE DEF a
<1>14. ASSUME NEW n, n.last_offset = st.last_offset PROVE Counted(s, n, a)
  <2>1. /\ rx'.offset = rx.offset + NewBytes(o, end) /\ rx'.window = rx.window
        /\ rx'.unsent_max_offset = Extend(rx.unsent_max_offset, CreditBack(o, end))
    BY <1>2, <1>5, <1>8, AccountedFields
  <2>2. CreditBack(o, end) = 0
    BY <1>7, Zenon DEF CreditBack
  <2>3. (a.used + a.credited) - (app[s].used + app[s].credited) = 0
    BY <1>2, <1>12 DEF AppType
  <2>4. n.last_offset - strm[s].last_offset = NewBytes(o, end)
    BY <1>2, <1>5, <1>10, <1>14, SMTT(60)
  <2> QED
    BY <2>1, <2>2, <2>3, <2>4, SMTT(60) DEF Counted
<1>15. CASE /\ strm' = [strm EXCEPT ![s] = st]
            /\ err' \in {"none", "INTERNAL"}
            /\ refs' = refs
  <2>1. OneStream(s, st, a, refs[s])
    BY <1>2, <1>8, <1>15, Unchanged, Zenon DEF OneStream
  <2>2. ClosedOK(st) /\ err' # "deleted" /\ Counted(s, st, a)
    BY <1>6, <1>14, <1>15, Zenon DEF ClosedOK
  <2> QED
    BY <2>1, <2>2, <1>1, <1>2, <1>10, <1>12, <1>13, Combine, Zenon
<1>16. CASE \E nb, ne \in Offsets :
              /\ PushStores(st.reorder, st.cont_offset, b, end, nb, ne)
              /\ LET R == st.reorder \cup {ByteRange(nb, ne)}
                 IN /\ strm' = [strm EXCEPT ![s] = [st EXCEPT !.reorder = R]]
                    /\ IF Cardinality(R) >= MaxFragments
                       THEN err' = "INTERNAL" /\ refs' = refs
                       ELSE err' = err /\ refs' = [refs EXCEPT ![s] = @ + 1]
  <2>1. PICK nb \in Offsets, ne \in Offsets :
              /\ PushStores(st.reorder, st.cont_offset, b, end, nb, ne)
              /\ LET R == st.reorder \cup {ByteRange(nb, ne)}
                 IN /\ strm' = [strm EXCEPT ![s] = [st EXCEPT !.reorder = R]]
                    /\ IF Cardinality(R) >= MaxFragments
                       THEN err' = "INTERNAL" /\ refs' = refs
                       ELSE err' = err /\ refs' = [refs EXCEPT ![s] = @ + 1]
    BY <1>16, Zenon
  <2> DEFINE new == ByteRange(nb, ne)
             R == st.reorder \cup {new}
             n == [st EXCEPT !.reorder = R]
             r == IF Cardinality(R) >= MaxFragments THEN refs[s] ELSE refs[s] + 1
  <2>2. /\ nb < ne /\ ~Covered(st.reorder, nb) /\ b <= nb /\ ne <= end
        /\ nb \in Nat /\ ne \in Nat /\ b \in Nat
    BY <2>1, <1>3, <1>10, RecvConstants DEF PushStores, IsFirstGap, Offsets
  <2>3. new \notin st.reorder /\ new.begin = nb /\ new.end = ne
    BY <2>2 DEF Covered, ByteRange
  <2>4. StrmOK(n)
    <3>1. st.cont_offset < b
      BY <1>3, <1>10, Zenon
    <3>2. "STOP_SENDING" \notin st.flags
      BY <1>6, <1>7, Zenon DEF Ended
    <3> QED
      BY <2>1, <1>5, <3>1, <3>2, PushedOK, Zenon
  <2> HIDE DEF new
  <2>5. /\ n.reorder = R /\ n.state = "open" /\ n.flags = st.flags
        /\ n.cont_offset = st.cont_offset /\ n.last_offset = st.last_offset
        /\ n.queued = st.queued /\ n.window = st.window /\ n.max_offset = st.max_offset
        /\ n.unsent_max_offset = st.unsent_max_offset
    BY <1>5, <1>6, Zenon DEF StrmType, SameButEnd
  <2>6. Cardinality(R) = Cardinality(st.reorder) + 1 /\ Cardinality(R) \in Nat
    <3>1. IsFiniteSet(st.reorder) /\ Cardinality(st.reorder) \in Nat
      BY <1>5, StorageFinite, Zenon DEF StrmOK, StorageOK, Entries
    <3>2. new \notin st.reorder
      BY <2>3, Zenon
    <3>3. Cardinality(R) = Cardinality(st.reorder) + 1
      BY <3>1, <3>2, FS_AddElement, Zenon
    <3> QED
      BY <3>1, <3>3
  <2>7. Cardinality(R) <= MaxVarint
    BY <2>4, <2>5, StorageBounded, Zenon
  <2>8. OneStream(s, n, a, r)
    <3>1. strm' = [strm EXCEPT ![s] = n]
      BY <2>1, Zenon DEF new
    <3>2. refs' = [refs EXCEPT ![s] = r]
      BY <2>1, <1>2, Unchanged, Zenon DEF new
    <3> QED
      BY <3>1, <3>2, <1>8, Zenon DEF OneStream
  <2>9. err' # "deleted" /\ (Live' => Cardinality(R) < MaxFragments)
    BY <2>1, <2>6, <1>1, RecvConstants DEF Live, new
  <2> HIDE DEF n, R
  <2>10. Live' \/ MaxVarint < MaxFragments => r = Cardinality(n.reorder)
    BY <2>5, <2>6, <2>7, <2>9, <1>2, <1>10, RecvConstants
  <2>11. HistoryOK(s, n, a)
    <3>1. PrefixOK(n, a)
      <4>1. ASSUME NEW x \in Offsets, Covered(R, x) PROVE x \in a.got
        <5>1. CASE Covered(st.reorder, x)
          BY <5>1, <1>12, Zenon DEF HistoryOK, PrefixOK
        <5>2. CASE new.begin <= x /\ x < new.end
          BY <5>2, <2>2, <2>3, <1>5, <1>12, RecvConstants DEF Offsets
        <5> QED
          BY <4>1, <5>1, <5>2, Zenon DEF Covered, R
      <4> QED
        BY <4>1, <2>5, <1>12, Zenon DEF HistoryOK, PrefixOK
    <3>2. FinOK(n, a) /\ ShutOK(n, a) = ShutOK(st, a)
      BY <2>5, <1>12, Zenon DEF HistoryOK, FinOK, ShutOK, Ended, Complete
    <3>3. StatusOK(s, n, a) /\ OwedOK(n)
      BY <2>5, <1>6, <1>12, Zenon DEF HistoryOK, StatusOK, OwedOK, ShouldSendMax
    <3> QED
      BY <3>1, <3>2, <3>3, <1>12, Zenon DEF HistoryOK
  <2>12. ClosedOK(n) /\ SettledOK(n, a) = SettledOK(st, a) /\ Counted(s, n, a)
    BY <2>5, <1>14, Zenon DEF ClosedOK, SettledOK, Ended
  <2> HIDE DEF r
  <2> QED
    BY <2>8, <2>9, <2>10, <2>11, <2>12, <1>1, <1>13, Combine, Zenon
<1> QED
  BY <1>9, <1>15, <1>16, Zenon

\* What is left after ngtcp2_reorder_remove_prefix was held before.
LEMMA RemovePrefixCovers ==
    ASSUME NEW R, NEW last, Entries(R, last), NEW o \in Offsets, NEW x \in Offsets,
           Covered(RemovePrefix(R, o), x)
    PROVE  Covered(R, x)
<1>1. PICK ent \in R : /\ o < ent.end
                       /\ (IF ent.begin < o THEN o ELSE ent.begin) <= x /\ x < ent.end
  BY DEF Covered, RemovePrefix, ByteRange
<1>2. ent.begin \in Nat /\ o \in Nat /\ x \in Nat
  BY RecvConstants DEF Entries, Offsets
<1> QED
  BY <1>1, <1>2 DEF Covered

\* The loop of conn_emit_pending_stream_data: its last callback ends at the next gap.
LEMMA LastCallback ==
    ASSUME NEW R, NEW last, Entries(R, last), NEW d \in Offsets, NEW gap \in Offsets,
           IsFirstGap(R, d, gap)
    PROVE  /\ gap \in CallbackEnds(R, d, gap)
           /\ \A x \in CallbackEnds(R, d, gap) : x <= gap
<1>1. /\ d \in Nat /\ gap \in Nat
      /\ \A ent \in R : ent.begin \in Nat /\ ent.end \in Nat
  BY RecvConstants DEF Entries, Offsets
<1>2. d <= gap /\ ~Covered(R, gap)
  BY Zenon DEF IsFirstGap
<1>3. \A x \in CallbackEnds(R, d, gap) : x <= gap
  BY <1>1, <1>2, Zenon DEF CallbackEnds
<1>4. CASE gap = d
  BY <1>3, <1>4, Zenon DEF CallbackEnds
<1>5. CASE d < gap
  <2>1. gap - 1 \in d .. (gap - 1)
    BY <1>1, <1>5
  <2>2. PICK ent \in R : ent.begin <= gap - 1 /\ gap - 1 < ent.end
    BY <2>1, Zenon DEF IsFirstGap, Covered
  <2>3. ent.end = gap
    BY <2>2, <1>1, <1>2 DEF Covered
  <2>4. ent \in {f \in R : f.end <= gap}
    BY <2>3, <1>1
  <2> QED
    BY <2>3, <2>4, <1>3, Zenon DEF CallbackEnds
<1> QED
  BY <1>1, <1>2, <1>4, <1>5

\* A STREAM frame at the delivered offset, and the callbacks it leads to.
LEMMA StreamInOrderHistory ==
    ASSUME DeliveryInv, RecvInv', NEW s \in Streams, NEW b \in Offsets, NEW end \in Nat,
           NEW fin \in BOOLEAN, NEW stop \in Offsets \cup {NoOffset}, b <= end,
           RecvStreamInOrder(s, b, end, fin, stop)
    PROVE  DeliveryInv'
<1> DEFINE o == Opened(s)
           st == Recorded(o, end, fin)
           D(off) == IF b = end THEN off ELSE end
           RR == IF b = end THEN st.reorder ELSE RemovePrefix(st.reorder, end)
           Ends(off, gap) == CallbackEnds(RR, D(off), gap)
           Stopped(gap) == stop # NoOffset /\ ~("SHUT_RD" \in st.flags /\ gap = st.last_offset)
           Kept(gap) == [st EXCEPT !.cont_offset = gap, !.reorder = RemovePrefix(RR, gap)]
           St2(gap) == IF Stopped(gap) THEN StopReading(st, gap)
                       ELSE CloseIfShutRdWr(Kept(gap), gap)
           Back(gap) == IF Stopped(gap) THEN st.last_offset - gap ELSE 0
           Upto(gap) == IF Stopped(gap) THEN stop ELSE gap
<1>1. Acceptable(s, end, fin) /\ Live /\ strm[s].state # "closed" /\ Live' /\ err' # "deleted"
  BY Zenon DEF RecvStreamInOrder, Acceptable, Live
<1>2. /\ o \in StrmType /\ StrmOK(o) /\ o.state = "open"
      /\ HistoryOK(s, o, app[s]) /\ app[s] \in AppType
      /\ refs[s] = Cardinality(o.reorder)
      /\ ~StopInCallback => SettledOK(o, app[s])
      /\ o.last_offset = strm[s].last_offset
      /\ RecvInv /\ RxOK(rx)
  BY <1>1, Start, Zenon
<1>3. PICK off \in Offsets, gap \in Offsets :
         /\ IsRxOffset(o, off) /\ ~NothingNew(o, end, fin, off) /\ b <= off
         /\ IsFirstGap(RR, D(off), gap)
         /\ stop = NoOffset \/ (StopInCallback /\ stop \in Ends(off, gap))
         /\ strm' = [strm EXCEPT ![s] = St2(gap)]
         /\ refs' = [refs EXCEPT ![s] = @ - ReleasedBy(st, St2(gap))]
         /\ rx' = [Accounted(o, end) EXCEPT !.unsent_max_offset = Extend(@, Back(gap))]
         /\ app' = [app EXCEPT ![s] =
                      [Delivered(s, b, end, st, Ends(off, gap), Upto(gap)) EXCEPT
                         !.credited = @ + Back(gap),
                         !.shutAt = IF @ = NoOffset THEN stop ELSE @]]
  BY ZenonT(60) DEF RecvStreamInOrder
<1>4. off = o.cont_offset
  BY <1>2, <1>3, RxIsCont, Zenon
<1>5. /\ end \in Offsets /\ StrmOK(st) /\ st \in StrmType /\ NewBytes(o, end) \in Nat
      /\ SameButEnd(o, st)
      /\ st.flags = IF fin THEN o.flags \cup {"SHUT_RD"} ELSE o.flags
      /\ st.last_offset = o.last_offset + NewBytes(o, end)
      /\ end <= st.last_offset
  BY <1>1, FrameRecorded, Zenon
<1>6. /\ st.state = "open" /\ Ended(st) = Ended(o) /\ app[s].fins = 0
      /\ PrefixOK(st, app[s]) /\ StatusOK(s, st, app[s]) /\ OwedOK(st)
      /\ "RESET_STREAM_RECVED" \notin o.flags /\ off <= end
      /\ ~StopInCallback /\ ~Ended(o) => app[s].shutAt = NoOffset
  BY <1>1, <1>3, <1>4, RecordedHistory, NotFinished, Zenon
<1>7. "STOP_SENDING" \notin o.flags /\ ~Ended(o)
  BY <1>6 DEF RecvStreamInOrder, Ended
<1> HIDE DEF o, st
<1>8. /\ MaxVarint \in Nat /\ st.last_offset \in Offsets /\ o.last_offset \in Nat
      /\ Entries(st.reorder, st.last_offset)
      /\ st.cont_offset = off /\ st.reorder = o.reorder
      /\ "STOP_SENDING" \notin st.flags /\ "RESET_STREAM_RECVED" \notin st.flags /\ ~Ended(st)
  <2>1. st.cont_offset = off /\ st.reorder = o.reorder
    BY <1>2, <1>4, <1>5, Zenon DEF StrmType, SameButEnd
  <2>2. MaxVarint \in Nat /\ st.last_offset \in Offsets /\ o.last_offset \in Nat
    BY <1>2, <1>5, RecvConstants DEF StrmType, Offsets
  <2>3. Entries(st.reorder, st.last_offset)
    BY <1>5, Zenon DEF StrmOK, StorageOK
  <2>4. "STOP_SENDING" \notin st.flags /\ "RESET_STREAM_RECVED" \notin st.flags /\ ~Ended(st)
    BY <1>5, <1>6, <1>7, Zenon DEF Ended
  <2> QED
    BY <2>1, <2>2, <2>3, <2>4, Zenon
<1>9. D(off) \in Offsets /\ off <= D(off) /\ D(off) <= st.last_offset /\ b \in Nat /\ off \in Nat
  BY <1>3, <1>5, <1>6, <1>8, SMTT(60) DEF StrmOK, StrmType, Offsets
<1>10. /\ Entries(RR, st.last_offset)
       /\ \A x \in Offsets : Covered(RR, x) => Covered(st.reorder, x)
  BY <1>5, <1>8, RemovePrefixSound, RemovePrefixCovers, Zenon
<1>11. \A x \in Offsets : Covered(RemovePrefix(RR, gap), x) => Covered(st.reorder, x)
  <2> HIDE DEF RR
  <2> QED
    BY <1>10, RemovePrefixCovers, Zenon
<1>d. D(off) = off \/ D(off) = end
  BY Zenon
<1> HIDE DEF RR, D
<1>12. /\ gap \in Ends(off, gap)
       /\ \A x \in Ends(off, gap) : x <= gap
  BY <1>3, <1>9, <1>10, LastCallback, Zenon
<1>13. off <= gap /\ gap <= st.last_offset /\ gap \in Nat /\ st.last_offset \in Nat
  <2>1. /\ D(off) \in Nat /\ st.last_offset \in Nat /\ gap \in Nat
        /\ \A ent \in RR : ent.begin \in Nat /\ ent.end \in Nat /\ ent.end <= st.last_offset
    BY <1>8, <1>9, <1>10 DEF Entries, Offsets
  <2>2. D(off) <= gap /\ gap <= st.last_offset
    BY <2>1, <1>3, <1>9, GapBounded, Zenon
  <2> QED
    BY <2>1, <2>2, <1>9
<1> DEFINE g == app[s].got \cup (b .. (end - 1))
<1>14. \A x \in Offsets : x < gap \/ Covered(st.reorder, x) => x \in g
  <2>1. ASSUME NEW x \in Offsets, Covered(st.reorder, x) \/ x < off PROVE x \in g
    BY <2>1, <1>2, <1>4, <1>6, <1>8, Zenon DEF PrefixOK
  <2>2. ASSUME NEW x \in Offsets, off <= x, x < D(off) PROVE x \in g
    BY <2>2, <1>3, <1>d, <1>8, <1>9 DEF Offsets
  <2>3. ASSUME NEW x \in Offsets, D(off) <= x, x < gap PROVE x \in g
    <3>1. x \in D(off) .. (gap - 1)
      BY <2>3, <1>8, <1>9, <1>13 DEF Offsets
    <3>2. Covered(RR, x)
      BY <3>1, <1>3, Zenon DEF IsFirstGap
    <3> QED
      BY <3>2, <2>1, <1>10, Zenon
  <2> QED
    BY <2>1, <2>2, <2>3, <1>8, <1>9, <1>13 DEF Offsets
<1> DEFINE F == {x \in Ends(off, gap) : /\ x <= Upto(gap)
                                        /\ "SHUT_RD" \in st.flags
                                        /\ x = st.last_offset}
           a == [Delivered(s, b, end, st, Ends(off, gap), Upto(gap)) EXCEPT
                         !.credited = @ + Back(gap),
                         !.shutAt = IF @ = NoOffset THEN stop ELSE @]
<1>15. /\ a.got = g /\ a.deliv = Upto(gap) /\ a.fins = app[s].fins + Cardinality(F)
       /\ a.used = app[s].used /\ a.credited = app[s].credited + Back(gap)
       /\ a.shutAt = IF app[s].shutAt = NoOffset THEN stop ELSE app[s].shutAt
  BY <1>2, Zenon DEF Delivered, Got, AppType
<1> HIDE DEF a, g
<1>16. Upto(gap) \in Nat /\ Upto(gap) <= gap
  BY <1>3, <1>8, <1>12, <1>13 DEF Offsets
<1>17. Cardinality(F) = IF ~Stopped(gap) /\ "SHUT_RD" \in st.flags /\ gap = st.last_offset
                        THEN 1 ELSE 0
  <2>1. CASE ~Stopped(gap) /\ "SHUT_RD" \in st.flags /\ gap = st.last_offset
    <3>1. F = {gap}
      BY <2>1, <1>12, <1>13, Zenon
    <3> QED
      BY <2>1, <3>1, FS_Singleton, Zenon
  <2>2. CASE ~(~Stopped(gap) /\ "SHUT_RD" \in st.flags /\ gap = st.last_offset)
    <3>1. F = {}
      BY <2>2, <1>13, <1>16
    <3> QED
      BY <2>2, <3>1, FS_EmptySet, Zenon
  <2> QED
    BY <2>1, <2>2, Zenon
<1> HIDE DEF F, Ends
<1>18. app[s].credited \in Nat /\ app[s].used \in Nat /\ Back(gap) \in Nat
  BY <1>2, <1>13 DEF AppType
<1>19. /\ HistoryOK(s, St2(gap), a) /\ ClosedOK(St2(gap))
       /\ ~StopInCallback => SettledOK(St2(gap), a)
       /\ St2(gap).last_offset = st.last_offset
  <2>1. CASE Stopped(gap)
    <3> DEFINE n == StopReading(st, gap)
    <3>1. /\ n.flags = st.flags \cup {"STOP_SENDING", "SEND_STOP_SENDING"} /\ n.queued = TRUE
          /\ n.cont_offset = gap /\ n.reorder = {} /\ n.state = "open"
          /\ n.last_offset = st.last_offset
      BY <1>5, <1>6, Zenon DEF StopReading, StrmType
    <3> HIDE DEF n
    <3>2. Ended(n) /\ a.fins = 0 /\ StopInCallback
      BY <3>1, <2>1, <1>3, <1>6, <1>15, <1>17 DEF Ended
    <3>3. PrefixOK(n, a)
      <4>1. ASSUME NEW x \in Offsets, x < Upto(gap) PROVE x \in g
        BY <4>1, <1>8, <1>13, <1>14, <1>16 DEF Offsets
      <4> QED
        BY <4>1, <3>1, <1>15, <1>16, Zenon DEF PrefixOK, Covered
    <3>4. FinOK(n, a) /\ StatusOK(s, n, a) /\ OwedOK(n)
      BY <3>1, <3>2, <1>6, <1>8 DEF FinOK, StatusOK, OwedOK
    <3>5. HistoryOK(s, n, a) /\ ClosedOK(n)
      BY <3>1, <3>2, <3>3, <3>4, Zenon DEF HistoryOK, ClosedOK
    <3> QED
      BY <2>1, <3>1, <3>2, <3>5, Zenon DEF n
  <2>2. CASE ~Stopped(gap)
    <3> DEFINE k == Kept(gap)
    <3>1. /\ k \in StrmType /\ k.flags = st.flags /\ k.queued = st.queued
          /\ k.cont_offset = gap /\ k.reorder = RemovePrefix(RR, gap) /\ k.state = "open"
          /\ k.last_offset = st.last_offset /\ k.window = st.window
          /\ k.max_offset = st.max_offset /\ k.unsent_max_offset = st.unsent_max_offset
      <4>1. Entries(RemovePrefix(RR, gap), st.last_offset)
        BY <1>8, <1>10, RemovePrefixSound, Zenon
      <4> QED
        BY <4>1, <1>5, <1>6, Zenon DEF StrmType, Entries
    <3> HIDE DEF k
    <3>2. ~Ended(k) /\ (Complete(k) <=> "SHUT_RD" \in st.flags /\ gap = st.last_offset)
      BY <3>1, <1>8, Zenon DEF Ended, Complete
    <3>3. PrefixOK(k, a)
      BY <2>2, <3>1, <1>11, <1>13, <1>14, <1>15 DEF PrefixOK
    <3>4. FinOK(k, a)
      <4>1. a.fins = IF Complete(k) THEN 1 ELSE 0
        <5> HIDE DEF Stopped
        <5>1. CASE Complete(k)
          BY <5>1, <2>2, <3>2, <1>6, <1>15, <1>17
        <5>2. CASE ~Complete(k)
          BY <5>2, <2>2, <3>2, <1>6, <1>15, <1>17, SMTT(60)
        <5> QED
          BY <5>1, <5>2, Zenon
      <4>2. a.deliv = gap
        BY <2>2, <1>15, Zenon
      <4> QED
        BY <4>1, <4>2, <3>1 DEF FinOK, Complete
    <3>5. StatusOK(s, k, a) /\ OwedOK(k)
      BY <3>1, <1>6, <1>8, Zenon DEF StatusOK, OwedOK, ShouldSendMax
    <3>6. ~StopInCallback => ShutOK(k, a)
      BY <1>3, <1>6, <1>7, <1>15, Zenon DEF ShutOK
    <3>7. HistoryOK(s, k, a)
      BY <3>3, <3>4, <3>5, <3>6, Zenon DEF HistoryOK
    <3>8. ~StopInCallback => SettledOK(k, a)
      BY <2>2, <3>2, <1>2, <1>7, <1>15, <1>18, SMTT(60) DEF SettledOK
    <3>9. St2(gap) = CloseIfShutRdWr(k, gap)
      BY <2>2, Zenon DEF k
    <3> QED
      BY <3>1, <3>7, <3>8, <3>9, CloseHistory
  <2> QED
    BY <2>1, <2>2, Zenon
<1>20. StrmOK(St2(gap))
  BY <1>3, <1>2, Zenon DEF RecvInv
<1> HIDE DEF St2
<1>21. refs[s] - ReleasedBy(st, St2(gap)) = Cardinality(St2(gap).reorder)
  BY <1>2, <1>5, <1>8, <1>20, Releases, Zenon
<1>22. OneStream(s, St2(gap), a, refs[s] - ReleasedBy(st, St2(gap)))
  BY <1>3, Zenon DEF OneStream, a
<1>23. Counted(s, St2(gap), a)
  <2> DEFINE r == Accounted(o, end)
  <2>1. /\ r \in [offset : Nat, max_offset : Offsets, unsent_max_offset : Offsets, window : Nat]
        /\ r.offset = rx.offset + NewBytes(o, end) /\ r.window = rx.window
        /\ r.unsent_max_offset = Extend(rx.unsent_max_offset, CreditBack(o, end))
    BY <1>2, <1>5, AccountedFields, ZenonT(40)
  <2>2. CreditBack(o, end) = 0
    BY <1>7, Zenon DEF CreditBack
  <2>3. Extend(rx.unsent_max_offset, 0) = rx.unsent_max_offset
    BY <1>2, <1>8, SMTT(60) DEF Extend, RxOK, RxType, Offsets
  <2> HIDE DEF r, Back
  <2>4. /\ rx'.offset = rx.offset + NewBytes(o, end) /\ rx'.window = rx.window
        /\ rx'.unsent_max_offset = Extend(rx.unsent_max_offset, Back(gap))
    BY <1>3, <2>1, <2>2, <2>3, Zenon DEF r
  <2>5. (a.used + a.credited) - (app[s].used + app[s].credited) = Back(gap)
    BY <1>15, <1>18
  <2>6. St2(gap).last_offset - strm[s].last_offset = NewBytes(o, end)
    BY <1>2, <1>5, <1>8, <1>19, SMTT(60)
  <2> QED
    BY <2>4, <2>5, <2>6, <1>18, Zenon DEF Counted
<1> QED
  BY <1>1, <1>19, <1>21, <1>22, <1>23, Combine, Zenon

\* Two saturating additions are one.
LEMMA ExtendTwice ==
    ASSUME NEW u \in Offsets, NEW c \in Nat, NEW d \in Nat
    PROVE  Extend(Extend(u, c), d) = Extend(u, c + d)
<1>1. MaxVarint \in Nat /\ u \in Nat /\ u <= MaxVarint
  BY RecvConstants DEF Offsets
<1> QED
  BY <1>1 DEF Extend

\* A RESET_STREAM frame.
LEMMA ResetStreamHistory ==
    ASSUME DeliveryInv, RecvInv', NEW s \in Streams, NEW final \in Offsets,
           RecvResetStream(s, final)
    PROVE  DeliveryInv'
<1> DEFINE o == Opened(s)
           m == [o EXCEPT !.last_offset = final,
                          !.flags = @ \cup {"SHUT_RD", "RESET_STREAM_RECVED"}]
           new == final - o.last_offset
           n(off) == CloseIfShutRdWr(m, off)
           back(off) == ResetCredit(o, off)
<1>1. Live /\ strm[s].state # "closed" /\ Live' /\ err' # "deleted"
  BY Zenon DEF RecvResetStream, Live
<1>2. /\ o \in StrmType /\ StrmOK(o) /\ o.state = "open"
      /\ HistoryOK(s, o, app[s]) /\ app[s] \in AppType
      /\ refs[s] = Cardinality(o.reorder)
      /\ ~StopInCallback => SettledOK(o, app[s])
      /\ o.last_offset = strm[s].last_offset
      /\ RecvInv /\ RxOK(rx)
  BY <1>1, Start, Zenon
<1>3. PICK off \in Offsets :
        /\ IsRxOffset(o, off)
        /\ strm' = [strm EXCEPT ![s] = n(off)]
        /\ rx' = [rx EXCEPT !.offset = @ + new,
                            !.unsent_max_offset = Extend(Extend(@, back(off)), new)]
        /\ refs' = [refs EXCEPT ![s] = @ - ReleasedBy(o, n(off))]
        /\ app' = [app EXCEPT ![s].credited = @ + back(off) + new]
  BY Zenon DEF RecvResetStream
<1>4. /\ "RESET_STREAM_RECVED" \notin o.flags
      /\ IF "SHUT_RD" \in o.flags THEN o.last_offset = final ELSE o.last_offset <= final
  BY Zenon DEF RecvResetStream
<1>5. off = o.cont_offset
  BY <1>2, <1>3, RxIsCont, Zenon
<1> HIDE DEF o
<1>6. /\ o.last_offset \in Nat /\ o.cont_offset \in Nat /\ o.cont_offset <= o.last_offset
      /\ final \in Nat /\ app[s].credited \in Nat /\ app[s].used \in Nat /\ app[s].deliv \in Nat
  BY <1>2, RecvConstants DEF StrmOK, StrmType, AppType, Offsets
<1>7. new \in Nat /\ back(off) \in Nat
      /\ back(off) = IF "STOP_SENDING" \in o.flags THEN 0 ELSE o.last_offset - o.cont_offset
  BY <1>4, <1>5, <1>6 DEF ResetCredit
<1>8. /\ m \in StrmType /\ m.state = "open" /\ m.last_offset = final
      /\ m.flags = o.flags \cup {"SHUT_RD", "RESET_STREAM_RECVED"}
      /\ m.cont_offset = o.cont_offset /\ m.reorder = o.reorder /\ m.queued = o.queued
  BY <1>2, Zenon DEF StrmType, Flags
<1> HIDE DEF m, new, back
<1> DEFINE a == [app[s] EXCEPT !.credited = @ + back(off) + new]
<1>9. /\ a.credited = app[s].credited + back(off) + new /\ a.used = app[s].used
      /\ a.deliv = app[s].deliv
  BY <1>2, Zenon DEF AppType
<1>10. Ended(m) /\ (Ended(o) <=> "STOP_SENDING" \in o.flags)
  BY <1>4, <1>8, Zenon DEF Ended
<1>11. HistoryOK(s, m, app[s])
  <2>1. PrefixOK(m, app[s])
    BY <1>2, <1>8, Zenon DEF HistoryOK, PrefixOK
  <2>2. FinOK(m, app[s])
    BY <1>2, <1>4, <1>8, <1>10, Zenon DEF HistoryOK, FinOK
  <2>3. StatusOK(s, m, app[s]) /\ OwedOK(m)
    BY <1>2, <1>8, Zenon DEF HistoryOK, StatusOK, OwedOK
  <2>4. ~StopInCallback => ShutOK(m, app[s])
    BY <1>2, <1>10, Zenon DEF HistoryOK, ShutOK
  <2> QED
    BY <2>1, <2>2, <2>3, <2>4, Zenon DEF HistoryOK
<1>12. HistoryOK(s, m, a)
  BY <1>2, <1>8, <1>11, CreditHistory, Zenon
<1>13. ~StopInCallback => SettledOK(m, a)
  <2> SUFFICES ASSUME ~StopInCallback PROVE a.credited = final - a.deliv
    BY <1>8, <1>10 DEF SettledOK
  <2>0. app[s].credited = IF Ended(o) THEN o.last_offset - app[s].deliv ELSE 0
    BY <1>2, Zenon DEF SettledOK
  <2>1. CASE "STOP_SENDING" \in o.flags
    BY <2>0, <2>1, <1>6, <1>7, <1>9, <1>10 DEF new
  <2>2. CASE "STOP_SENDING" \notin o.flags
    <3>1. app[s].deliv = o.cont_offset
      BY <2>2, <1>2, Zenon DEF HistoryOK, PrefixOK
    <3> QED
      BY <2>0, <2>2, <3>1, <1>6, <1>7, <1>9, <1>10 DEF new
  <2> QED
    BY <2>1, <2>2, Zenon
<1>14. /\ HistoryOK(s, n(off), a) /\ ClosedOK(n(off)) /\ SettledOK(n(off), a) = SettledOK(m, a)
       /\ n(off).last_offset = final
  BY <1>5, <1>8, <1>12, CloseHistory
<1>15. OneStream(s, n(off), a, refs[s] - ReleasedBy(o, n(off)))
  BY <1>3, Zenon DEF OneStream
<1>16. StrmOK(n(off))
  BY <1>3, <1>2, Zenon DEF RecvInv
<1> HIDE DEF n
<1>17. refs[s] - ReleasedBy(o, n(off)) = Cardinality(n(off).reorder)
  BY <1>2, <1>16, Releases, Zenon
<1>18. Counted(s, n(off), a)
  <2>1. /\ rx \in RxType /\ rx.unsent_max_offset \in Offsets
    BY <1>2, Zenon DEF RxOK, RxType
  <2>2. /\ rx'.offset = rx.offset + new /\ rx'.window = rx.window
        /\ rx'.unsent_max_offset = Extend(rx.unsent_max_offset, back(off) + new)
    BY <1>3, <1>7, <2>1, ExtendTwice, Zenon DEF RxType
  <2>3. (a.used + a.credited) - (app[s].used + app[s].credited) = back(off) + new
    BY <1>6, <1>7, <1>9
  <2>4. n(off).last_offset - strm[s].last_offset = new
    BY <1>2, <1>14, Zenon DEF new
  <2> QED
    BY <2>2, <2>3, <2>4, <1>7 DEF Counted
<1> HIDE DEF a
<1> QED
  BY <1>1, <1>13, <1>14, <1>15, <1>17, <1>18, Combine, Zenon

\* ngtcp2_conn_shutdown_stream_read.
LEMMA ShutdownReadHistory ==
    ASSUME DeliveryInv, RecvInv', NEW s \in Streams, ShutdownStreamRead(s)
    PROVE  DeliveryInv'
<1> DEFINE st == strm[s]
           noop(off) == \/ st.flags \cap {"STOP_SENDING", "RESET_STREAM_RECVED"} # {}
                        \/ "SHUT_RD" \in st.flags /\ off = st.last_offset
           back(off) == IF noop(off) THEN 0 ELSE st.last_offset - off
           n(off) == IF noop(off) THEN st ELSE StopReading(st, off)
<1>1. Live /\ st.state = "open" /\ Live' /\ err' # "deleted"
  BY Zenon DEF ShutdownStreamRead, Live
<1>2. /\ st \in StrmType /\ StrmOK(st)
      /\ HistoryOK(s, st, app[s]) /\ app[s] \in AppType
      /\ refs[s] = Cardinality(st.reorder)
      /\ ~StopInCallback => SettledOK(st, app[s])
      /\ RecvInv /\ RxOK(rx)
  BY <1>1, Zenon DEF DeliveryInv, RecvInv, StrmOK, Live
<1>3. PICK off \in Offsets :
        /\ IsRxOffset(st, off)
        /\ strm' = [strm EXCEPT ![s] = n(off)]
        /\ rx' = [rx EXCEPT !.unsent_max_offset = Extend(@, back(off))]
        /\ refs' = [refs EXCEPT ![s] = @ - ReleasedBy(st, n(off))]
        /\ app' = [app EXCEPT ![s].credited = @ + back(off),
                              ![s].shutAt = IF @ = NoOffset THEN app[s].deliv ELSE @]
  BY Zenon DEF ShutdownStreamRead
<1>4. off = st.cont_offset
  BY <1>2, <1>3, RxIsCont, Zenon
<1> HIDE DEF st
<1>5. /\ st.last_offset \in Nat /\ st.cont_offset \in Nat /\ st.cont_offset <= st.last_offset
      /\ app[s].credited \in Nat /\ app[s].used \in Nat /\ app[s].deliv \in Nat
  BY <1>2, RecvConstants DEF StrmOK, StrmType, AppType, Offsets
<1>6. back(off) \in Nat
  BY <1>4, <1>5
<1> DEFINE a == [app[s] EXCEPT !.credited = @ + back(off),
                               !.shutAt = IF @ = NoOffset THEN app[s].deliv ELSE @]
<1>7. /\ a.got = app[s].got /\ a.deliv = app[s].deliv /\ a.fins = app[s].fins
      /\ a.used = app[s].used /\ a.credited = app[s].credited + back(off)
      /\ a.shutAt = IF app[s].shutAt = NoOffset THEN app[s].deliv ELSE app[s].shutAt
  BY <1>2, Zenon DEF AppType
<1>8. app' = [app EXCEPT ![s] = a]
  BY <1>2, <1>3, Zenon DEF RecvInv, AppType
<1> HIDE DEF a
<1>9. /\ HistoryOK(s, n(off), a) /\ n(off).state = "open"
      /\ ~StopInCallback => SettledOK(n(off), a)
      /\ n(off).last_offset = st.last_offset
  <2>1. CASE noop(off)
    <3>1. n(off) = st /\ back(off) = 0 /\ (Ended(st) \/ Complete(st))
      BY <2>1, <1>4, Zenon DEF Ended, Complete
    <3>2. PrefixOK(st, a) /\ FinOK(st, a) /\ StatusOK(s, st, a) /\ OwedOK(st)
      BY <1>1, <1>2, <1>7, Zenon DEF HistoryOK, PrefixOK, FinOK, StatusOK, st
    <3>3. ~StopInCallback => ShutOK(st, a)
      BY <3>1, <1>2, <1>5, <1>7, SMTT(60) DEF HistoryOK, ShutOK
    <3>4. SettledOK(st, a) = SettledOK(st, app[s])
      BY <3>1, <1>5, <1>7 DEF SettledOK
    <3> QED
      BY <3>1, <3>2, <3>3, <3>4, <1>1, <1>2, Zenon DEF HistoryOK
  <2>2. CASE ~noop(off)
    <3> DEFINE k == StopReading(st, off)
    <3>1. /\ k.flags = st.flags \cup {"STOP_SENDING", "SEND_STOP_SENDING"} /\ k.queued = TRUE
          /\ k.cont_offset = off /\ k.reorder = {} /\ k.state = "open"
          /\ k.last_offset = st.last_offset
      BY <1>1, <1>2, Zenon DEF StopReading, StrmType
    <3> HIDE DEF k
    <3>2. /\ Ended(k) /\ ~Ended(st) /\ "STOP_SENDING" \notin st.flags
          /\ "RESET_STREAM_RECVED" \notin st.flags
      BY <3>1, <2>2, Zenon DEF Ended
    <3>3. app[s].deliv = off
      BY <3>2, <1>2, <1>4, Zenon DEF HistoryOK, PrefixOK
    <3>4. PrefixOK(k, a)
      BY <3>1, <3>3, <1>2, <1>5, <1>7, SMTT(60) DEF HistoryOK, PrefixOK, Covered
    <3>5. FinOK(k, a)
      BY <3>1, <3>2, <1>2, <1>7, Zenon DEF HistoryOK, FinOK
    <3>6. StatusOK(s, k, a) /\ OwedOK(k)
      BY <3>1, <3>2, Zenon DEF StatusOK, OwedOK
    <3>7. ~StopInCallback => ShutOK(k, a)
      BY <3>2, <1>2, <1>5, <1>7, SMTT(60) DEF HistoryOK, ShutOK
    <3>8. ~StopInCallback => SettledOK(k, a)
      BY <2>2, <3>1, <3>2, <3>3, <1>2, <1>5, <1>7, SMTT(60) DEF SettledOK
    <3>9. n(off) = k
      BY <2>2, Zenon DEF k
    <3> QED
      BY <3>1, <3>4, <3>5, <3>6, <3>7, <3>8, <3>9, Zenon DEF HistoryOK
  <2> QED
    BY <2>1, <2>2, Zenon
<1>10. StrmOK(n(off))
  BY <1>3, <1>2, Zenon DEF RecvInv
<1> HIDE DEF n
<1>11. refs[s] - ReleasedBy(st, n(off)) = Cardinality(n(off).reorder)
  BY <1>2, <1>10, Releases, Zenon
<1>12. OneStream(s, n(off), a, refs[s] - ReleasedBy(st, n(off)))
  BY <1>3, <1>8, Zenon DEF OneStream
<1> HIDE DEF back
<1>13. Counted(s, n(off), a)
  <2>1. /\ rx'.offset = rx.offset /\ rx'.window = rx.window /\ rx.offset \in Nat
        /\ rx'.unsent_max_offset = Extend(rx.unsent_max_offset, back(off))
    BY <1>2, <1>3, Zenon DEF RxOK, RxType
  <2>2. (a.used + a.credited) - (app[s].used + app[s].credited) = back(off)
    BY <1>5, <1>6, <1>7, SMTT(60)
  <2>3. rx.offset = rx.offset + (n(off).last_offset - strm[s].last_offset)
    BY <1>5, <1>9, <2>1, SMTT(60) DEF st
  <2> QED
    BY <2>1, <2>2, <2>3, <1>6, Zenon DEF Counted
<1>14. ClosedOK(n(off))
  BY <1>9, Zenon DEF ClosedOK
<1> QED
  BY <1>1, <1>9, <1>11, <1>12, <1>13, <1>14, Combine, Zenon

\* ngtcp2_conn_extend_max_offset.
LEMMA ExtendMaxOffsetHistory ==
    ASSUME DeliveryInv, RecvInv', NEW s \in Streams, NEW k \in 1 .. MaxVarint,
           ExtendMaxOffset(s, k)
    PROVE  DeliveryInv'
<1> DEFINE a == [app[s] EXCEPT !.used = @ + k]
<1>1. Live /\ Live' /\ err' # "deleted"
  BY Zenon DEF ExtendMaxOffset, Live
<1>2. /\ strm[s] \in StrmType /\ app[s] \in AppType /\ HistoryOK(s, strm[s], app[s])
      /\ ClosedOK(strm[s]) /\ refs[s] = Cardinality(strm[s].reorder)
      /\ ~StopInCallback => SettledOK(strm[s], app[s])
      /\ RecvInv /\ rx \in RxType /\ k \in Nat
  <2>1. k \in Nat
    BY RecvConstants
  <2> QED
    BY <1>1, <2>1, Zenon DEF DeliveryInv, RecvInv, RxOK, Live
<1>3. /\ a.got = app[s].got /\ a.deliv = app[s].deliv /\ a.fins = app[s].fins
      /\ a.used = app[s].used + k /\ a.credited = app[s].credited /\ a.shutAt = app[s].shutAt
  BY <1>2, Zenon DEF AppType
<1>4. OneStream(s, strm[s], a, refs[s])
  BY <1>2, Unchanged, Zenon DEF OneStream, ExtendMaxOffset
<1>5. strm[s].state # "none"
  <2>1. SUFFICES ASSUME strm[s].state = "none" PROVE FALSE
    BY Zenon
  <2>2. app[s].deliv = 0 /\ app[s].used = 0
    BY <2>1, <1>2 DEF HistoryOK, StatusOK, NoHistory
  <2> QED
    BY <2>2 DEF ExtendMaxOffset
<1> HIDE DEF a
<1>6. PrefixOK(strm[s], a) /\ FinOK(strm[s], a) /\ StatusOK(s, strm[s], a) /\ OwedOK(strm[s])
  BY <1>2, <1>3, <1>5, Zenon DEF HistoryOK, PrefixOK, FinOK, StatusOK
<1>7. /\ ShutOK(strm[s], a) = ShutOK(strm[s], app[s])
      /\ SettledOK(strm[s], a) = SettledOK(strm[s], app[s])
  BY <1>3, Zenon DEF ShutOK, SettledOK
<1>8. HistoryOK(s, strm[s], a)
  BY <1>2, <1>6, <1>7, Zenon DEF HistoryOK
<1>9. Counted(s, strm[s], a)
  <2>1. /\ rx'.offset = rx.offset /\ rx'.window = rx.window /\ rx.offset \in Nat
        /\ rx'.unsent_max_offset = Extend(rx.unsent_max_offset, k)
    BY <1>2, Zenon DEF ExtendMaxOffset, RxType
  <2>2. (a.used + a.credited) - (app[s].used + app[s].credited) = k
    BY <1>2, <1>3, SMTT(60) DEF AppType
  <2>3. rx.offset = rx.offset + (strm[s].last_offset - strm[s].last_offset)
    BY <2>1, <1>2, RecvConstants, SMTT(60) DEF StrmType, Offsets
  <2> QED
    BY <2>1, <2>2, <2>3, <1>2, Zenon DEF Counted
<1> QED
  BY <1>1, <1>2, <1>4, <1>7, <1>8, <1>9, Combine, Zenon

\* The accounts when nothing is received and no credit is given back.
LEMMA NothingCounted ==
    ASSUME RecvInv, rx' = rx, NEW s \in Streams, NEW n, NEW a,
           n.last_offset = strm[s].last_offset,
           a.used = app[s].used, a.credited = app[s].credited
    PROVE  Counted(s, n, a)
<1>1. rx \in RxType /\ strm[s] \in StrmType /\ app[s] \in AppType /\ MaxVarint \in Nat
  BY RecvConstants, Zenon DEF RecvInv, RxOK
<1>2. Extend(rx.unsent_max_offset, 0) = rx.unsent_max_offset
  BY <1>1 DEF Extend, RxType, Offsets
<1>3. (a.used + a.credited) - (app[s].used + app[s].credited) = 0
  BY <1>1 DEF AppType
<1>4. rx.offset = rx.offset + (n.last_offset - strm[s].last_offset)
  BY <1>1 DEF RxType, StrmType, Offsets
<1> QED
  BY <1>2, <1>3, <1>4 DEF Counted

\* ngtcp2_conn_extend_max_stream_offset.
LEMMA ExtendMaxStreamOffsetHistory ==
    ASSUME DeliveryInv, RecvInv', NEW s \in Streams, NEW k \in 1 .. MaxVarint,
           ExtendMaxStreamOffset(s, k)
    PROVE  DeliveryInv'
<1> DEFINE a == [app[s] EXCEPT !.usedStrm = @ + k]
           st == [strm[s] EXCEPT !.unsent_max_offset = Extend(@, k)]
           push == st.flags \cap {"SHUT_RD", "STOP_SENDING"} = {} /\ ShouldSendMax(st)
           n == [st EXCEPT !.queued = @ \/ push]
<1>1. Live /\ Live' /\ err' # "deleted" /\ strm[s].state = "open"
  BY Zenon DEF ExtendMaxStreamOffset, Live
<1>2. /\ strm[s] \in StrmType /\ app[s] \in AppType /\ HistoryOK(s, strm[s], app[s])
      /\ ClosedOK(strm[s]) /\ refs[s] = Cardinality(strm[s].reorder)
      /\ ~StopInCallback => SettledOK(strm[s], app[s])
      /\ RecvInv
  BY <1>1, Zenon DEF DeliveryInv, RecvInv, StrmOK, Live
<1>3. /\ a.got = app[s].got /\ a.deliv = app[s].deliv /\ a.fins = app[s].fins
      /\ a.used = app[s].used /\ a.credited = app[s].credited /\ a.shutAt = app[s].shutAt
  BY <1>2, Zenon DEF AppType
<1>4. /\ n.flags = strm[s].flags /\ n.cont_offset = strm[s].cont_offset
      /\ n.last_offset = strm[s].last_offset /\ n.reorder = strm[s].reorder
      /\ n.state = "open" /\ n.queued = (strm[s].queued \/ push)
      /\ n.window = st.window /\ n.max_offset = st.max_offset
      /\ n.unsent_max_offset = st.unsent_max_offset /\ st.flags = strm[s].flags
  BY <1>1, <1>2, Zenon DEF StrmType
<1>5. OneStream(s, n, a, refs[s])
  BY <1>2, Unchanged, Zenon DEF OneStream, ExtendMaxStreamOffset
<1>6. ShouldSendMax(n) = ShouldSendMax(st)
  BY <1>4, Zenon DEF ShouldSendMax
<1>7. OwedOK(n)
  <2> HIDE DEF n, st
  <2> QED
    BY <1>1, <1>2, <1>4, <1>6, Zenon DEF HistoryOK, OwedOK
<1> HIDE DEF a, n, st
<1>8. PrefixOK(n, a) /\ FinOK(n, a) /\ StatusOK(s, n, a)
  BY <1>2, <1>3, <1>4, Zenon DEF HistoryOK, PrefixOK, FinOK, StatusOK, Ended, Complete
<1>9. /\ ShutOK(n, a) = ShutOK(strm[s], app[s])
      /\ SettledOK(n, a) = SettledOK(strm[s], app[s])
      /\ ClosedOK(n)
  BY <1>3, <1>4, Zenon DEF ShutOK, SettledOK, Ended, Complete, ClosedOK
<1>10. HistoryOK(s, n, a)
  BY <1>2, <1>7, <1>8, <1>9, Zenon DEF HistoryOK
<1>11. Counted(s, n, a)
  BY <1>2, <1>3, <1>4, NothingCounted, Zenon DEF ExtendMaxStreamOffset
<1> QED
  BY <1>1, <1>2, <1>4, <1>5, <1>9, <1>10, <1>11, Combine, Zenon

\* The sending half of a stream is done and acknowledged.
LEMMA SendHalfDoneHistory ==
    ASSUME DeliveryInv, RecvInv', NEW s \in Streams, SendHalfDone(s)
    PROVE  DeliveryInv'
<1> DEFINE st == [strm[s] EXCEPT !.flags = @ \cup {"SHUT_WR", "FIN_ACKED"}]
           n(off) == CloseIfShutRdWr(st, off)
<1>1. Live /\ Live' /\ err' # "deleted" /\ strm[s].state = "open"
  BY Zenon DEF SendHalfDone, Live
<1>2. /\ strm[s] \in StrmType /\ app[s] \in AppType /\ HistoryOK(s, strm[s], app[s])
      /\ refs[s] = Cardinality(strm[s].reorder)
      /\ ~StopInCallback => SettledOK(strm[s], app[s])
      /\ RecvInv /\ StrmOK(strm[s])
  BY <1>1, Zenon DEF DeliveryInv, RecvInv
<1>3. PICK off \in Offsets :
        /\ IsRxOffset(strm[s], off)
        /\ strm' = [strm EXCEPT ![s] = n(off)]
        /\ refs' = [refs EXCEPT ![s] = @ - ReleasedBy(strm[s], n(off))]
  BY Zenon DEF SendHalfDone
<1>4. off = strm[s].cont_offset
  BY <1>2, <1>3, RxIsCont, Zenon
<1>5. /\ st \in StrmType /\ st.flags = strm[s].flags \cup {"SHUT_WR", "FIN_ACKED"}
      /\ st.cont_offset = strm[s].cont_offset /\ st.last_offset = strm[s].last_offset
      /\ st.reorder = strm[s].reorder /\ st.state = "open" /\ st.queued = strm[s].queued
      /\ st.window = strm[s].window /\ st.max_offset = strm[s].max_offset
      /\ st.unsent_max_offset = strm[s].unsent_max_offset
  BY <1>1, <1>2, Zenon DEF StrmType, Flags
<1> HIDE DEF st
<1>6. Ended(st) = Ended(strm[s]) /\ Complete(st) = Complete(strm[s])
  BY <1>5, Zenon DEF Ended, Complete
<1>7. HistoryOK(s, st, app[s])
  <2>1. PrefixOK(st, app[s]) /\ FinOK(st, app[s])
    BY <1>2, <1>5, <1>6, Zenon DEF HistoryOK, PrefixOK, FinOK
  <2>2. StatusOK(s, st, app[s])
    BY <1>2, <1>5, Zenon DEF HistoryOK, StatusOK
  <2>3. OwedOK(st)
    <3>1. ShouldSendMax(st) = ShouldSendMax(strm[s])
      BY <1>5, Zenon DEF ShouldSendMax
    <3> QED
      BY <3>1, <1>1, <1>2, <1>5, Zenon DEF HistoryOK, OwedOK
  <2>4. ShutOK(st, app[s]) = ShutOK(strm[s], app[s])
    BY <1>6, Zenon DEF ShutOK
  <2> QED
    BY <2>1, <2>2, <2>3, <2>4, <1>2, Zenon DEF HistoryOK
<1>8. SettledOK(st, app[s]) = SettledOK(strm[s], app[s])
  BY <1>5, <1>6, Zenon DEF SettledOK
<1>9. /\ HistoryOK(s, n(off), app[s]) /\ ClosedOK(n(off))
      /\ SettledOK(n(off), app[s]) = SettledOK(st, app[s])
      /\ n(off).last_offset = strm[s].last_offset
  BY <1>4, <1>5, <1>7, CloseHistory, SMTT(60)
<1>10. StrmOK(n(off))
  BY <1>3, <1>2, Zenon DEF RecvInv
<1> HIDE DEF n
<1>11. refs[s] - ReleasedBy(strm[s], n(off)) = Cardinality(n(off).reorder)
  BY <1>2, <1>10, Releases, Zenon
<1>12. OneStream(s, n(off), app[s], refs[s] - ReleasedBy(strm[s], n(off)))
  BY <1>2, <1>3, Unchanged, Zenon DEF OneStream, SendHalfDone
<1>13. Counted(s, n(off), app[s])
  BY <1>2, <1>9, NothingCounted, Zenon DEF SendHalfDone
<1> QED
  BY <1>1, <1>2, <1>8, <1>9, <1>11, <1>12, <1>13, Combine, Zenon

\* The frames of a queued stream are written.
LEMMA WriteStreamHistory ==
    ASSUME DeliveryInv, RecvInv', NEW s \in Streams, NEW fast \in BOOLEAN,
           WriteStream(s, fast)
    PROVE  DeliveryInv'
<1> DEFINE st == [strm[s] EXCEPT !.flags = @ \ {"SEND_STOP_SENDING"}, !.queued = FALSE]
           due == st.flags \cap {"SHUT_RD", "STOP_SENDING"} = {} /\ ShouldSendMax(st)
           n == IF due THEN Advertised(st, MaxStreamWindow, fast) ELSE st
<1>1. Live /\ Live' /\ err' # "deleted" /\ strm[s].queued
  BY Zenon DEF WriteStream, Live
<1>2. /\ strm[s] \in StrmType /\ app[s] \in AppType /\ HistoryOK(s, strm[s], app[s])
      /\ ClosedOK(strm[s]) /\ refs[s] = Cardinality(strm[s].reorder)
      /\ ~StopInCallback => SettledOK(strm[s], app[s])
      /\ RecvInv
  BY <1>1, Zenon DEF DeliveryInv, RecvInv, StrmOK, Live
<1>3. /\ st.flags = strm[s].flags \ {"SEND_STOP_SENDING"}
      /\ st.cont_offset = strm[s].cont_offset /\ st.last_offset = strm[s].last_offset
      /\ st.reorder = strm[s].reorder /\ st.state = strm[s].state /\ st \in StrmType
  BY <1>2, Zenon DEF StrmType
<1>4. strm' = [strm EXCEPT ![s] = n]
  BY Zenon DEF WriteStream
<1>5. n \in StrmType
  BY <1>2, <1>4, Zenon DEF RecvInv
<1> HIDE DEF st
<1>6. /\ n.flags = st.flags /\ n.cont_offset = st.cont_offset
      /\ n.last_offset = st.last_offset /\ n.reorder = st.reorder /\ n.state = st.state
      /\ due => n.max_offset = n.unsent_max_offset /\ n.window \in Nat /\ n.max_offset \in Nat
  <2>1. n.window \in Nat /\ n.max_offset \in Nat
    BY <1>5, RecvConstants DEF StrmType, Offsets
  <2>2. CASE due
    <3>1. n = Advertised(st, MaxStreamWindow, fast)
      BY <2>2, Zenon
    <3> QED
      BY <3>1, <2>1, <1>3, Zenon DEF Advertised, StrmType
  <2>3. CASE ~due
    BY <2>3, Zenon
  <2> QED
    BY <2>1, <2>2, <2>3, Zenon
<1>7. strm[s].state # "none"
  <2>1. SUFFICES ASSUME strm[s].state = "none" PROVE FALSE
    BY Zenon
  <2>2. strm[s].queued = FALSE
    BY <2>1, <1>2, Zenon DEF HistoryOK, StatusOK, InitStream
  <2> QED
    BY <2>2, <1>1, Zenon
<1>8. OwedOK(n)
  <2>1. CASE due
    <3>1. ~ShouldSendMax(n)
      BY <2>1, <1>6, SMTT(60) DEF ShouldSendMax
    <3> QED
      BY <3>1, <1>3, <1>6, Zenon DEF OwedOK
  <2>2. CASE ~due
    BY <2>2, <1>3, Zenon DEF OwedOK
  <2> QED
    BY <2>1, <2>2, Zenon
<1> HIDE DEF n
<1>9. Ended(n) = Ended(strm[s]) /\ Complete(n) = Complete(strm[s])
  BY <1>3, <1>6, Zenon DEF Ended, Complete
<1>10. PrefixOK(n, app[s]) /\ FinOK(n, app[s]) /\ StatusOK(s, n, app[s])
  BY <1>2, <1>3, <1>6, <1>7, <1>9, Zenon DEF HistoryOK, PrefixOK, FinOK, StatusOK
<1>11. /\ ShutOK(n, app[s]) = ShutOK(strm[s], app[s])
       /\ SettledOK(n, app[s]) = SettledOK(strm[s], app[s])
       /\ ClosedOK(n)
  BY <1>2, <1>3, <1>6, <1>9, Zenon DEF ShutOK, SettledOK, ClosedOK
<1>12. HistoryOK(s, n, app[s])
  BY <1>2, <1>8, <1>10, <1>11, Zenon DEF HistoryOK
<1>13. OneStream(s, n, app[s], refs[s])
  BY <1>2, <1>4, Unchanged, Zenon DEF OneStream, WriteStream
<1>14. Counted(s, n, app[s])
  BY <1>2, <1>3, <1>6, NothingCounted, Zenon DEF WriteStream
<1> QED
  BY <1>1, <1>2, <1>3, <1>6, <1>11, <1>12, <1>13, <1>14, Combine, Zenon

\* A step that leaves the streams alone and fails, or changes nothing.
LEMMA SameStreamsHistory ==
    ASSUME DeliveryInv, RecvInv', UNCHANGED <<strm, rx, refs, app>>,
           err' = err \/ (Live /\ err' # "deleted" /\ err' # "none")
    PROVE  DeliveryInv'
<1>1. Lasts' = Lasts /\ Returned' = Returned
  BY Zenon DEF Lasts, Returned
<1>2. \A s \in Streams : HistoryOK(s, strm[s], app[s])
  BY Zenon DEF DeliveryInv
<1>3. \A s \in Streams : HistoryOK(s, strm'[s], app'[s])
  BY <1>2, Zenon
<1>4. err' # "deleted" => \A s \in Streams : ClosedOK(strm'[s])
  BY Zenon DEF DeliveryInv, Live
<1>5. Live' => Live
  BY Zenon DEF Live
<1>6. Live' /\ ~StopInCallback => \A s \in Streams : SettledOK(strm'[s], app'[s])
  BY <1>5, Zenon DEF DeliveryInv
<1>7. Live' \/ MaxVarint < MaxFragments =>
         \A s \in Streams : refs'[s] = Cardinality(strm'[s].reorder)
  BY <1>5, Zenon DEF DeliveryInv
<1>8. Live' => /\ rx'.offset = Sum(Lasts', Streams)
               /\ rx'.unsent_max_offset = IF rx'.window + Sum(Returned', Streams) > MaxVarint
                                          THEN MaxVarint
                                          ELSE rx'.window + Sum(Returned', Streams)
  BY <1>1, <1>5, Zenon DEF DeliveryInv
<1> QED
  BY <1>3, <1>4, <1>6, <1>7, <1>8, Zenon DEF DeliveryInv

\* A MAX_DATA frame is written.
LEMMA WriteMaxDataHistory ==
    ASSUME DeliveryInv, RecvInv', NEW fast \in BOOLEAN, WriteMaxData(fast)
    PROVE  DeliveryInv'
<1>1. Live /\ Live' /\ err' = err /\ UNCHANGED <<strm, refs, app>> /\ RecvInv
  BY Zenon DEF WriteMaxData, Live, DeliveryInv
<1>2. Lasts' = Lasts /\ Returned' = Returned
  BY <1>1, Zenon DEF Lasts, Returned
<1>3. /\ \A s \in Streams : HistoryOK(s, strm'[s], app'[s])
      /\ \A s \in Streams : ClosedOK(strm'[s])
      /\ ~StopInCallback => \A s \in Streams : SettledOK(strm'[s], app'[s])
      /\ \A s \in Streams : refs'[s] = Cardinality(strm'[s].reorder)
  BY <1>1, Zenon DEF DeliveryInv, Live
<1> DEFINE m == Sum(Returned, Streams)
           w == TunedWindow(rx, MaxWindow, fast)
           new == IF rx.unsent_max_offset + (w - rx.window) > MaxVarint
                  THEN MaxVarint
                  ELSE rx.unsent_max_offset + (w - rx.window)
<1>4. /\ rx.offset = Sum(Lasts, Streams)
      /\ rx.unsent_max_offset = IF rx.window + m > MaxVarint THEN MaxVarint ELSE rx.window + m
  BY <1>1, Zenon DEF DeliveryInv
<1>5. m \in Int /\ rx \in RxType /\ MaxVarint \in Nat /\ rx.window \in Nat
  BY <1>1, SumsType, SumType, RecvConstants, Zenon DEF RecvInv, RxOK, RxType
<1>6. w \in Nat /\ rx.window <= w
  BY <1>5, RecvConstants DEF TunedWindow
<1>7. rx'.offset = rx.offset /\ rx'.window = w /\ rx'.unsent_max_offset = new
  BY <1>5, Zenon DEF WriteMaxData, Advertised, RxType
<1> HIDE DEF m, w
<1>8. new = IF w + m > MaxVarint THEN MaxVarint ELSE w + m
  BY <1>4, <1>5, <1>6
<1> HIDE DEF new
<1> QED
  BY <1>1, <1>2, <1>3, <1>4, <1>7, <1>8, Zenon DEF DeliveryInv, m

\* ngtcp2_conn_del.
LEMMA ConnDelHistory ==
    ASSUME DeliveryInv, RecvInv', ConnDel
    PROVE  DeliveryInv'
<1>1. err' = "deleted" /\ ~Live' /\ app' = app
  BY Zenon DEF ConnDel, Live
<1>2. ASSUME NEW s \in Streams
      PROVE  /\ HistoryOK(s, strm'[s], app'[s])
             /\ MaxVarint < MaxFragments => refs'[s] = Cardinality(strm'[s].reorder)
  <2> DEFINE n == [strm[s] EXCEPT !.state = "closed", !.reorder = {}, !.queued = FALSE]
  <2>1. strm'[s] = n /\ refs'[s] = refs[s] - Cardinality(strm[s].reorder)
    BY <1>2, Zenon DEF ConnDel
  <2>2. strm[s] \in StrmType /\ HistoryOK(s, strm[s], app[s]) /\ StrmOK(strm[s])
    BY <1>2, Zenon DEF DeliveryInv, RecvInv
  <2>3. /\ n.flags = strm[s].flags /\ n.cont_offset = strm[s].cont_offset
        /\ n.last_offset = strm[s].last_offset /\ n.reorder = {} /\ n.state = "closed"
    BY <2>2, Zenon DEF StrmType
  <2> HIDE DEF n
  <2>4. Ended(n) = Ended(strm[s]) /\ Complete(n) = Complete(strm[s])
    BY <2>3, Zenon DEF Ended, Complete
  <2>5. PrefixOK(n, app[s]) /\ FinOK(n, app[s])
    BY <2>2, <2>3, <2>4, Zenon DEF HistoryOK, PrefixOK, FinOK, Covered
  <2>6. StatusOK(s, n, app[s]) /\ OwedOK(n)
    BY <2>2, <2>3, Zenon DEF HistoryOK, StatusOK, OwedOK
  <2>7. ShutOK(n, app[s]) = ShutOK(strm[s], app[s])
    BY <2>4, Zenon DEF ShutOK
  <2>8. HistoryOK(s, n, app[s])
    BY <2>2, <2>5, <2>6, <2>7, Zenon DEF HistoryOK
  <2>9. ASSUME MaxVarint < MaxFragments PROVE refs'[s] = Cardinality(n.reorder)
    <3>1. refs[s] = Cardinality(strm[s].reorder)
      BY <2>9, <1>2, Zenon DEF DeliveryInv
    <3>2. Cardinality(strm[s].reorder) \in Nat
      BY <2>2, StorageFinite, Zenon DEF StrmOK, StorageOK, Entries
    <3>3. Cardinality(n.reorder) = 0
      BY <2>3, FS_EmptySet, Zenon
    <3>4. \A c \in Nat : c - c = 0
      OBVIOUS
    <3> QED
      BY <2>1, <3>1, <3>2, <3>3, <3>4, Zenon
  <2> QED
    BY <1>1, <2>1, <2>8, <2>9, Zenon
<1> QED
  BY <1>1, <1>2, Zenon DEF DeliveryInv

\* The initial state.
LEMMA InitHistory ==
    ASSUME Init
    PROVE  DeliveryInv
<1>1. RecvInv
  BY InitHolds, Zenon
<1>2. ASSUME NEW s \in Streams
      PROVE  /\ strm[s] = [InitStream(s) EXCEPT !.state = "none"] /\ app[s] = NoHistory
             /\ refs[s] = 0
  BY <1>2, Zenon DEF Init, NoHistory
<1>3. ASSUME NEW s \in Streams
      PROVE  /\ HistoryOK(s, strm[s], app[s]) /\ ClosedOK(strm[s])
             /\ SettledOK(strm[s], app[s]) /\ refs[s] = Cardinality(strm[s].reorder)
             /\ strm[s].last_offset = 0 /\ app[s].used + app[s].credited = 0
  <2> DEFINE st == strm[s]
  <2>1. /\ st.flags = InitStream(s).flags /\ st.cont_offset = 0 /\ st.last_offset = 0
        /\ st.reorder = {} /\ st.state = "none"
        /\ st.flags \cap {"STOP_SENDING", "RESET_STREAM_RECVED", "SHUT_RD"} = {}
    <3>1. InitStream(s).flags \cap {"STOP_SENDING", "RESET_STREAM_RECVED", "SHUT_RD"} = {}
      BY Zenon DEF InitStream
    <3>2. /\ st.flags = InitStream(s).flags /\ st.cont_offset = 0 /\ st.last_offset = 0
          /\ st.reorder = {} /\ st.state = "none"
      BY <1>2, ZenonT(40) DEF InitStream
    <3> QED
      BY <3>1, <3>2, Zenon
  <2> HIDE DEF st
  <2>2. ~Ended(st) /\ ~Complete(st)
    BY <2>1, Zenon DEF Ended, Complete
  <2>3. PrefixOK(st, NoHistory)
    BY <2>1, RecvConstants DEF PrefixOK, NoHistory, Covered, Offsets
  <2>4. FinOK(st, NoHistory) /\ ShutOK(st, NoHistory) /\ SettledOK(st, NoHistory)
    BY <2>2, SMTT(60) DEF FinOK, ShutOK, NoHistory, SettledOK
  <2>5. StatusOK(s, st, NoHistory) /\ OwedOK(st) /\ ClosedOK(st)
    BY <2>1, <1>2, Zenon DEF StatusOK, OwedOK, ClosedOK, st
  <2>6. NoHistory.used + NoHistory.credited = 0
    BY DEF NoHistory
  <2> QED
    BY <2>1, <2>3, <2>4, <2>5, <2>6, <1>2, FS_EmptySet, Zenon DEF HistoryOK, st
<1>4. Sum(Lasts, Streams) = 0 /\ Sum(Returned, Streams) = 0
  <2>1. /\ Lasts \in [Streams -> Int] /\ Returned \in [Streams -> Int] /\ IsFiniteSet(Streams)
    BY <1>1, SumsType, Zenon
  <2>2. \A s \in Streams : Lasts[s] = 0 /\ Returned[s] = 0
    BY <1>3, Zenon DEF Lasts, Returned
  <2> QED
    BY <2>1, <2>2, SumZero, Zenon
<1>5. /\ rx.offset = 0 /\ rx.window = InitialMaxData /\ rx.unsent_max_offset = InitialMaxData
      /\ InitialMaxData \in Nat /\ InitialMaxData <= MaxVarint /\ MaxVarint \in Nat
  BY RecvConstants DEF Init, Offsets
<1> QED
  BY <1>1, <1>3, <1>4, <1>5, SMTT(60) DEF DeliveryInv

\* Every step of the code keeps the invariant.
LEMMA StepHistory ==
    ASSUME DeliveryInv, [Next]_vars
    PROVE  DeliveryInv'
<1>1. RecvInv'
  BY StepHolds, Zenon DEF DeliveryInv
<1>2. CASE UNCHANGED vars
  BY <1>1, <1>2, SameStreamsHistory, Zenon DEF vars
<1>3. ASSUME NEW s \in Streams, RecvStream(s) PROVE DeliveryInv'
  <2>1. PICK b \in Offsets, len \in 0 .. MaxFrameLen, fin \in BOOLEAN :
          \/ RecvStreamError(s, b + len, fin)
          \/ RecvStreamIgnored(s, b, b + len, fin)
          \/ \E stop \in Offsets \cup {NoOffset} : RecvStreamInOrder(s, b, b + len, fin, stop)
          \/ RecvStreamDiscarded(s, b, b + len, fin)
          \/ RecvStreamReordered(s, b, b + len, fin)
          \/ len = 0 /\ RecvStreamEmptyAhead(s, b, fin)
    BY <1>3, Zenon DEF RecvStream
  <2>2. b + len \in Nat /\ b <= b + len
    BY RecvConstants DEF Offsets
  <2> QED
    BY <1>1, <2>1, <2>2, StreamErrorHistory, StreamIgnoredHistory, StreamInOrderHistory,
       StreamDiscardedHistory, StreamReorderedHistory, StreamEmptyAheadHistory, Zenon
<1>4. ASSUME NEW s \in Streams, RecvOnClosed(s) PROVE DeliveryInv'
  BY <1>1, <1>4, SameStreamsHistory, Zenon DEF RecvOnClosed
<1>5. ASSUME NEW s \in Streams, NEW final \in Offsets, RecvResetError(s, final) PROVE DeliveryInv'
  <2>1. err' # "deleted" /\ err' # "none" /\ Live /\ UNCHANGED <<strm, rx, refs, app>>
    BY <1>5, Zenon DEF RecvResetError
  <2> QED
    BY <1>1, <2>1, SameStreamsHistory, Zenon
<1> QED
  BY <1>1, <1>2, <1>3, <1>4, <1>5, ResetStreamHistory, ShutdownReadHistory,
     ExtendMaxOffsetHistory, ExtendMaxStreamOffsetHistory, SendHalfDoneHistory,
     WriteStreamHistory, WriteMaxDataHistory, ConnDelHistory, Zenon DEF Next

-----------------------------------------------------------------------------
(* Theorems *)

\* The strengthened invariant is one of the specification.
THEOREM DeliveryInductive == Spec => []DeliveryInv
<1>1. Init => DeliveryInv
  BY InitHistory, Zenon
<1>2. DeliveryInv /\ [Next]_vars => DeliveryInv'
  BY StepHistory, Zenon
<1> QED
  BY <1>1, <1>2, PTL DEF Spec

\* The recv_stream_data callbacks bring the application every byte up to the
\* first gap, in order and once, and the FIN once, at the final size.
THEOREM DeliveryIsExact == Spec => []DeliveryExact
<1>1. DeliveryInv => DeliveryExact
  <2>1. ASSUME DeliveryInv, NEW s \in Streams
        PROVE  /\ 0 .. (app[s].deliv - 1) \subseteq app[s].got
               /\ app[s].deliv <= strm[s].cont_offset
               /\ "STOP_SENDING" \notin strm[s].flags => app[s].deliv = strm[s].cont_offset
    <3>1. PrefixOK(strm[s], app[s]) /\ app[s].deliv \in Offsets
      BY <2>1, Zenon DEF DeliveryInv, HistoryOK, RecvInv, AppType
    <3>2. \A x \in 0 .. (app[s].deliv - 1) : x \in Offsets /\ x < app[s].deliv
      BY <3>1, RecvConstants, SMTT(60) DEF Offsets
    <3> QED
      BY <3>1, <3>2, Zenon DEF PrefixOK
  <2>2. ASSUME DeliveryInv, NEW s \in Streams
        PROVE  /\ app[s].fins <= 1
               /\ app[s].fins = 1 => /\ "SHUT_RD" \in strm[s].flags
                                     /\ app[s].deliv = strm[s].last_offset
               /\ /\ strm[s].state = "closed"
                  /\ err # "deleted"
                  /\ strm[s].flags \cap {"STOP_SENDING", "RESET_STREAM_RECVED"} = {}
                  => app[s].fins = 1
    <3>1. FinOK(strm[s], app[s]) /\ (err # "deleted" => ClosedOK(strm[s]))
      BY <2>2, Zenon DEF DeliveryInv, HistoryOK
    <3> QED
      BY <3>1 DEF FinOK, ClosedOK, Ended
  <2> QED
    BY <2>1, <2>2, Zenon DEF DeliveryExact, DeliveredPrefix, FinOnce
<1> QED
  BY <1>1, DeliveryInductive, PTL

\* A stream that owes the peer a STOP_SENDING or MAX_STREAM_DATA frame is in
\* conn->tx.strmq.
THEOREM OwedAlwaysQueued == Spec => []OwedFramesQueued
<1>1. DeliveryInv => OwedFramesQueued
  BY Zenon DEF DeliveryInv, HistoryOK, OwedOK, OwedFramesQueued
<1> QED
  BY <1>1, DeliveryInductive, PTL

\* As long as no call has failed, every stored entry holds exactly one buffer
\* reference; a closed stream holds none.
THEOREM OneReferenceWhileLive == Spec => [](Live => OneReferencePerEntry)
<1>1. DeliveryInv => (Live => OneReferencePerEntry)
  BY FS_EmptySet, ZenonT(40) DEF DeliveryInv, HistoryOK, StatusOK, OneReferencePerEntry
<1> QED
  BY <1>1, DeliveryInductive, PTL

\* When the storage cannot fill up to NGTCP2_MAX_REORDERED_FRAGMENTS the buffers
\* are released exactly once in every state, after errors and ngtcp2_conn_del
\* included.
THEOREM OneReferenceAlways ==
    ASSUME MaxVarint < MaxFragments
    PROVE  Spec => []OneReferencePerEntry
<1>1. DeliveryInv => OneReferencePerEntry
  BY FS_EmptySet, ZenonT(40) DEF DeliveryInv, HistoryOK, StatusOK, OneReferencePerEntry
<1> QED
  BY <1>1, DeliveryInductive, PTL

\* When ngtcp2_conn_shutdown_stream_read is not called inside a callback, a
\* stopped or reset stream has its connection credit back exactly once, and
\* nothing is delivered after the call.
THEOREM StoppedAlwaysSettled ==
    ASSUME ~StopInCallback
    PROVE  Spec => []StoppedStreamsSettled
<1>1. DeliveryInv => StoppedStreamsSettled
  <2>1. ASSUME DeliveryInv, Live, NEW s \in Streams
        PROVE  app[s].credited =
                 IF \/ strm[s].flags \cap {"STOP_SENDING", "RESET_STREAM_RECVED"} # {}
                    \/ strm[s].state = "closed"
                 THEN strm[s].last_offset - app[s].deliv
                 ELSE 0
    <3>1. /\ SettledOK(strm[s], app[s]) /\ ClosedOK(strm[s]) /\ FinOK(strm[s], app[s])
          /\ strm[s] \in StrmType /\ app[s] \in AppType
      BY <2>1, Zenon DEF DeliveryInv, HistoryOK, RecvInv, Live
    <3>2. strm[s].last_offset \in Nat /\ app[s].deliv \in Nat
      BY <3>1, RecvConstants, SMTT(60) DEF StrmType, AppType, Offsets
    <3>3. CASE Ended(strm[s])
      BY <3>1, <3>3, Zenon DEF SettledOK, Ended
    <3>4. CASE ~Ended(strm[s])
      <4>1. strm[s].state = "closed" => app[s].deliv = strm[s].last_offset
        BY <3>1, <3>4, Zenon DEF ClosedOK, FinOK
      <4> QED
        BY <4>1, <3>1, <3>2, <3>4 DEF SettledOK, Ended
    <3> QED
      BY <3>3, <3>4, Zenon
  <2>2. ASSUME DeliveryInv, NEW s \in Streams, app[s].shutAt # NoOffset
        PROVE  app[s].deliv <= app[s].shutAt
    BY <2>2, Zenon DEF DeliveryInv, HistoryOK, ShutOK
  <2> QED
    BY <2>1, <2>2, Zenon DEF StoppedStreamsSettled, CreditReturnedOnce, NoDataAfterShutdown
<1> QED
  BY <1>1, DeliveryInductive, PTL

\* The offset and the window of the connection are the sums over its streams, for
\* every finite set of streams, and a peer whose data is consumed is never left
\* without credit.
THEOREM ConnectionAccountsExact == Spec => []ConnectionWindowExact
<1>1. DeliveryInv => ConnectionWindowExact
  <2> SUFFICES ASSUME DeliveryInv, Live PROVE ConnectionWindowExact
    BY Zenon DEF ConnectionWindowExact, OffsetIsSumOfStreams, WindowConserved, PeerNeverStuck
  <2> DEFINE k == MapThenSumSet(LAMBDA s : strm[s].last_offset, Streams)
             m == MapThenSumSet(LAMBDA s : app[s].used + app[s].credited, Streams)
  <2>1. RecvInv /\ Lasts \in [Streams -> Int] /\ Returned \in [Streams -> Int]
        /\ IsFiniteSet(Streams)
    BY SumsType, Zenon DEF DeliveryInv
  <2>2. Sum(Lasts, Streams) = k /\ Sum(Returned, Streams) = m
    BY DEF Sum, MapThenSumSet, MapThenFoldSet, Lasts, Returned
  <2>3. k \in Int /\ m \in Int
    BY <2>1, <2>2, SumType, Zenon
  <2>4. /\ rx.offset = k
        /\ rx.unsent_max_offset = IF rx.window + m > MaxVarint THEN MaxVarint ELSE rx.window + m
    BY <2>2, Zenon DEF DeliveryInv
  <2>5. /\ rx.window \in Nat /\ rx.offset \in Nat /\ rx.max_offset \in Nat
        /\ rx.unsent_max_offset \in Nat /\ MaxVarint \in Nat
    BY <2>1, RecvConstants DEF RecvInv, RxOK, RxType, Offsets
  <2> HIDE DEF k, m
  <2>6. ~ShouldSendMax(rx) /\ rx.window > 0 /\ rx.offset = m
        => rx.offset < rx.max_offset \/ rx.unsent_max_offset = MaxVarint
    BY <2>3, <2>4, <2>5 DEF ShouldSendMax
  <2> QED
    BY <2>4, <2>6, Zenon DEF k, m, ConnectionWindowExact, OffsetIsSumOfStreams, WindowConserved,
                      PeerNeverStuck
<1> QED
  BY <1>1, DeliveryInductive, PTL

-----------------------------------------------------------------------------
(* What no step takes back *)

\* What Irrevocable says of one stream.
Forward(st, n, a, b) ==
    /\ st.max_offset <= n.max_offset
    /\ a.deliv <= b.deliv
    /\ st.state = "closed" => n.state = "closed"
    /\ "SHUT_RD" \in st.flags => "SHUT_RD" \in n.flags /\ n.last_offset = st.last_offset

\* A step changes stream s to n and its history to b; the step of every stream.
Moved(s, n, b) == strm' = [strm EXCEPT ![s] = n] /\ app' = [app EXCEPT ![s] = b]
AllForward == \A t \in Streams : Forward(strm[t], strm'[t], app[t], app'[t])

\* A step of one stream is a step of all.
LEMMA ForwardOne ==
    ASSUME RecvInv, NEW s \in Streams, NEW n, NEW b, Moved(s, n, b),
           Forward(strm[s], n, app[s], b)
    PROVE  AllForward
<1>1. ASSUME NEW t \in Streams
      PROVE  Forward(strm[t], strm[t], app[t], app[t])
  BY RecvConstants, SMTT(60) DEF RecvInv, StrmType, AppType, Offsets, Forward
<1>2. strm \in [Streams -> StrmType] /\ DOMAIN app = Streams
  BY Zenon DEF RecvInv
<1> QED
  BY <1>1, <1>2, Zenon DEF AllForward, Moved

\* Recording a frame, stopping and closing a stream move its state forward.
LEMMA ForwardClose ==
    ASSUME NEW st, NEW m \in StrmType, NEW a, NEW b, NEW off, Forward(st, m, a, b)
    PROVE  Forward(st, CloseIfShutRdWr(m, off), a, b)
BY Zenon DEF Forward, CloseIfShutRdWr, StrmType

\* The application gets more, never less, of a stream a frame is accepted for.
LEMMA ForwardRecord ==
    ASSUME DeliveryInv, NEW s \in Streams, NEW end \in Nat, NEW fin \in BOOLEAN,
           Acceptable(s, end, fin), NEW b, app[s].deliv <= b.deliv
    PROVE  /\ Forward(strm[s], Recorded(Opened(s), end, fin), app[s], b)
           /\ Recorded(Opened(s), end, fin) \in StrmType
<1> DEFINE o == Opened(s)
           st == Recorded(o, end, fin)
<1>1. Live /\ strm[s].state # "closed"
  BY Zenon DEF Acceptable
<1>2. o = [strm[s] EXCEPT !.state = "open"] /\ strm[s] \in StrmType
  BY <1>1, OpenedHistory, Zenon DEF DeliveryInv, RecvInv
<1>3. /\ SameButEnd(o, st)
      /\ st.flags = IF fin THEN o.flags \cup {"SHUT_RD"} ELSE o.flags
      /\ "SHUT_RD" \in o.flags => st.last_offset = o.last_offset
      /\ StrmOK(st)
  BY FrameRecorded, Zenon
<1> HIDE DEF st, o
<1>4. /\ st.max_offset = strm[s].max_offset /\ o.flags = strm[s].flags
      /\ o.last_offset = strm[s].last_offset /\ strm[s].max_offset \in Nat
  <2>1. strm[s].max_offset \in Nat
    BY <1>2, RecvConstants DEF StrmType, Offsets
  <2>2. o \in StrmType /\ o.flags = strm[s].flags /\ o.max_offset = strm[s].max_offset
        /\ o.last_offset = strm[s].last_offset
    BY <1>2, Zenon DEF StrmType
  <2>3. st.max_offset = o.max_offset
    BY <1>3, <2>2, Zenon DEF SameButEnd, StrmType
  <2> QED
    BY <2>1, <2>2, <2>3, Zenon
<1> QED
  BY <1>1, <1>3, <1>4, SMTT(60) DEF Forward, StrmOK, st, o

\* An advertised limit only grows.
LEMMA AdvertisedMore ==
    ASSUME NEW w, w.max_offset \in Offsets, w.unsent_max_offset \in Offsets, w.window \in Nat,
           w.max_offset <= w.unsent_max_offset, NEW limit \in Nat, NEW fast \in BOOLEAN,
           w \in StrmType \/ w \in RxType
    PROVE  w.max_offset <= Advertised(w, limit, fast).max_offset
<1> DEFINE t == TunedWindow(w, limit, fast)
           new == IF w.unsent_max_offset + (t - w.window) > MaxVarint
                  THEN MaxVarint
                  ELSE w.unsent_max_offset + (t - w.window)
<1>1. MaxVarint \in Nat /\ w.max_offset \in 0 .. MaxVarint /\ w.unsent_max_offset \in 0 .. MaxVarint
  BY RecvConstants, Zenon DEF Offsets
<1>2. t \in Nat /\ w.window <= t
  BY DEF TunedWindow
<1> HIDE DEF t
<1>3. w.max_offset <= new
  BY <1>1, <1>2
<1>4. Advertised(w, limit, fast) = [w EXCEPT !.window = t, !.max_offset = new, !.unsent_max_offset = new]
  BY Zenon DEF Advertised, t
<1> HIDE DEF new
<1>5. Advertised(w, limit, fast).max_offset = new
  BY <1>4, Zenon DEF StrmType, RxType
<1> QED
  BY <1>3, <1>5, Zenon

\* The callbacks of one frame only add to what was delivered.
LEMMA InOrderForward ==
    ASSUME DeliveryInv, RecvInv', NEW s \in Streams, NEW b \in Offsets, NEW end \in Nat,
           NEW fin \in BOOLEAN, NEW stop \in Offsets \cup {NoOffset},
           RecvStreamInOrder(s, b, end, fin, stop)
    PROVE  AllForward
<1> DEFINE o == Opened(s)
           st == Recorded(o, end, fin)
           D(off) == IF b = end THEN off ELSE end
           RR == IF b = end THEN st.reorder ELSE RemovePrefix(st.reorder, end)
           Ends(off, gap) == CallbackEnds(RR, D(off), gap)
           Stopped(gap) == stop # NoOffset /\ ~("SHUT_RD" \in st.flags /\ gap = st.last_offset)
           Kept(gap) == [st EXCEPT !.cont_offset = gap, !.reorder = RemovePrefix(RR, gap)]
           St2(gap) == IF Stopped(gap) THEN StopReading(st, gap)
                       ELSE CloseIfShutRdWr(Kept(gap), gap)
           Back(gap) == IF Stopped(gap) THEN st.last_offset - gap ELSE 0
           Upto(gap) == IF Stopped(gap) THEN stop ELSE gap
           A(off, gap) == [Delivered(s, b, end, st, Ends(off, gap), Upto(gap)) EXCEPT
                             !.credited = @ + Back(gap),
                             !.shutAt = IF @ = NoOffset THEN stop ELSE @]
<1>1. Acceptable(s, end, fin) /\ Live /\ strm[s].state # "closed" /\ "STOP_SENDING" \notin o.flags
  BY Zenon DEF RecvStreamInOrder, Acceptable, Live
<1>2. /\ o \in StrmType /\ StrmOK(o) /\ HistoryOK(s, o, app[s]) /\ app[s] \in AppType /\ RecvInv
  BY <1>1, Start, Zenon
<1>3. PICK off \in Offsets, gap \in Offsets :
         /\ IsRxOffset(o, off) /\ ~NothingNew(o, end, fin, off)
         /\ IsFirstGap(RR, D(off), gap)
         /\ stop = NoOffset \/ (StopInCallback /\ stop \in Ends(off, gap))
         /\ strm' = [strm EXCEPT ![s] = St2(gap)]
         /\ app' = [app EXCEPT ![s] = A(off, gap)]
  BY ZenonT(60) DEF RecvStreamInOrder
<1>4. off = o.cont_offset /\ app[s].deliv = off
  BY <1>1, <1>2, <1>3, RxIsCont, Zenon DEF HistoryOK, PrefixOK
<1>5. /\ end \in Offsets /\ st \in StrmType /\ StrmOK(st) /\ off <= end
      /\ st.reorder = o.reorder /\ st.cont_offset = o.cont_offset
  <2>1. end \in Offsets /\ StrmOK(st) /\ o.cont_offset <= end
    BY <1>1, <1>3, <1>4, FrameRecorded, NotFinished, Zenon
  <2> QED
    BY <1>2, <1>4, <2>1, Zenon DEF StrmOK, Recorded, StrmType
<1>6. A(off, gap).deliv = Upto(gap)
  BY <1>2, Zenon DEF Delivered, Got, AppType
<1>7. ASSUME NEW a, app[s].deliv <= a.deliv
      PROVE  Forward(strm[s], st, app[s], a)
  BY <1>1, <1>7, ForwardRecord, Zenon
<1> HIDE DEF st, o
<1>8. off <= Upto(gap)
  <2>1. D(off) \in Nat /\ off <= D(off) /\ gap \in Nat /\ off \in Nat
    BY <1>5, RecvConstants DEF Offsets
  <2>2. D(off) <= gap
    BY <1>3, Zenon DEF IsFirstGap
  <2>3. \A ent \in RR : off <= ent.end /\ ent.end \in Nat
    <3>1. \A ent \in st.reorder : off <= ent.end /\ ent.end \in Nat /\ ent.begin \in Nat
      <4>1. \A ent \in st.reorder : ent.begin \in Offsets /\ ent.end \in Offsets
                                    /\ off < ent.begin /\ ent.begin < ent.end
        BY <1>4, <1>5, Zenon DEF StrmOK, StorageOK, Entries, WellFormed
      <4> QED
        BY <4>1, <2>1, RecvConstants DEF Offsets
    <3> QED
      BY <3>1, SMTT(60) DEF RemovePrefix, ByteRange
  <2>4. \A x \in Ends(off, gap) : off <= x
    BY <2>1, <2>3, Zenon DEF CallbackEnds
  <2> QED
    BY <1>3, <2>1, <2>2, <2>4
<1>9. Forward(strm[s], st, app[s], A(off, gap))
  BY <1>4, <1>6, <1>7, <1>8, Zenon
<1> HIDE DEF A, RR
<1>10. Forward(strm[s], St2(gap), app[s], A(off, gap))
  <2>1. CASE Stopped(gap)
    BY <1>5, <1>9, <2>1, Zenon DEF Forward, StopReading, StrmType
  <2>2. CASE ~Stopped(gap)
    BY <1>5, <1>9, <2>2, Zenon DEF Forward, CloseIfShutRdWr, StrmType
  <2> QED
    BY <2>1, <2>2, Zenon
<1>11. Moved(s, St2(gap), A(off, gap))
  BY <1>3, Zenon DEF Moved
<1> HIDE DEF St2
<1> QED
  BY <1>2, <1>10, <1>11, ForwardOne, Zenon

\* A frame that is received takes nothing back.
LEMMA StreamForward ==
    ASSUME DeliveryInv, RecvInv', NEW s \in Streams, RecvStream(s)
    PROVE  rx.max_offset <= rx'.max_offset /\ AllForward
<1>1. PICK b \in Offsets, len \in 0 .. MaxFrameLen, fin \in BOOLEAN :
        \/ RecvStreamError(s, b + len, fin)
        \/ RecvStreamIgnored(s, b, b + len, fin)
        \/ \E stop \in Offsets \cup {NoOffset} : RecvStreamInOrder(s, b, b + len, fin, stop)
        \/ RecvStreamDiscarded(s, b, b + len, fin)
        \/ RecvStreamReordered(s, b, b + len, fin)
        \/ len = 0 /\ RecvStreamEmptyAhead(s, b, fin)
  BY Zenon DEF RecvStream
<1> DEFINE end == b + len
           o == Opened(s)
           st == Recorded(o, end, fin)
<1>2. end \in Nat /\ RecvInv /\ rx \in RxType /\ rx.max_offset \in Nat
      /\ strm[s] \in StrmType /\ app[s] \in AppType /\ app[s].deliv \in Nat
      /\ strm[s].max_offset \in Nat
  BY RecvConstants, SMTT(60) DEF Offsets, DeliveryInv, RecvInv, RxOK, RxType, StrmType, AppType
<1>3. rx'.max_offset = rx.max_offset
  BY <1>1, <1>2, ZenonT(60)
     DEF RecvStreamError, RecvStreamIgnored, RecvStreamInOrder, RecvStreamDiscarded,
         RecvStreamReordered, RecvStreamEmptyAhead, Accounted, RxType
<1>4. strm = [strm EXCEPT ![s] = strm[s]] /\ app = [app EXCEPT ![s] = app[s]]
      /\ rx.max_offset <= rx'.max_offset
  BY <1>2, <1>3, Unchanged
<1>5. Forward(strm[s], strm[s], app[s], app[s])
  BY <1>2, SMTT(60) DEF Forward
<1>6. ASSUME Acceptable(s, end, fin), NEW a, app[s].deliv <= a.deliv
      PROVE  Forward(strm[s], st, app[s], a) /\ st \in StrmType
  BY <1>2, <1>6, ForwardRecord, Zenon
<1>7. Got(s, b, end).deliv = app[s].deliv
  BY <1>2, Zenon DEF Got, AppType
<1>8. CASE RecvStreamError(s, end, fin)
  <2>1. strm[s].state # "closed" /\ app' = app
        /\ (strm' = strm \/ strm' = [strm EXCEPT ![s] = o])
    BY <1>8, Zenon DEF RecvStreamError
  <2>2. o = [strm[s] EXCEPT !.state = "open"]
    BY <2>1, OpenedHistory, Zenon
  <2>3. Forward(strm[s], o, app[s], app[s])
    BY <1>2, <2>1, <2>2 DEF Forward, StrmType
  <2>4. Moved(s, strm[s], app[s]) \/ Moved(s, o, app[s])
    BY <1>4, <2>1, Zenon DEF Moved
  <2> HIDE DEF o
  <2> QED
    BY <1>2, <1>4, <1>5, <2>3, <2>4, ForwardOne, Zenon
<1>9. CASE RecvStreamIgnored(s, b, end, fin)
  <2>1. /\ strm' = [strm EXCEPT ![s] = st] /\ app' = [app EXCEPT ![s] = Got(s, b, end)]
        /\ Acceptable(s, end, fin)
    BY <1>9, Zenon DEF RecvStreamIgnored
  <2>2. Moved(s, st, Got(s, b, end)) /\ Forward(strm[s], st, app[s], Got(s, b, end))
    BY <1>2, <1>6, <1>7, <2>1 DEF Moved
  <2> HIDE DEF st, end
  <2> QED
    BY <1>2, <1>4, <2>2, ForwardOne, Zenon
<1>10. ASSUME NEW stop \in Offsets \cup {NoOffset}, RecvStreamInOrder(s, b, end, fin, stop)
       PROVE  AllForward
  BY <1>2, <1>10, InOrderForward, Zenon
<1>11. CASE RecvStreamDiscarded(s, b, end, fin)
  <2> DEFINE a == [Got(s, b, end) EXCEPT !.credited = @ + CreditBack(o, end)]
             m(d) == [st EXCEPT !.cont_offset = d]
  <2>1. PICK off \in Offsets :
          strm' = [strm EXCEPT ![s] =
                     CloseIfShutRdWr(m(IF b <= off /\ b # end THEN end ELSE off),
                                     IF b <= off /\ b # end THEN end ELSE off)]
    BY <1>11, Zenon DEF RecvStreamDiscarded
  <2>2. Acceptable(s, end, fin) /\ app' = [app EXCEPT ![s] = a]
    BY <1>11, Zenon DEF RecvStreamDiscarded
  <2>3. a.deliv = app[s].deliv
    BY <1>2, Zenon DEF Got, AppType
  <2> HIDE DEF a
  <2> DEFINE d == IF b <= off /\ b # end THEN end ELSE off
  <2>4. end \in Offsets
    BY <1>2, <2>2, FrameRecorded, Zenon
  <2>5. Forward(strm[s], st, app[s], a) /\ st \in StrmType
    BY <1>2, <1>6, <2>2, <2>3
  <2> HIDE DEF st
  <2>6. m(d) \in StrmType /\ m(d).max_offset = st.max_offset /\ m(d).state = st.state
        /\ m(d).flags = st.flags /\ m(d).last_offset = st.last_offset
    BY <2>4, <2>5, Zenon DEF StrmType
  <2>7. Forward(strm[s], m(d), app[s], a)
    BY <2>5, <2>6, Zenon DEF Forward
  <2>8. Forward(strm[s], CloseIfShutRdWr(m(d), d), app[s], a)
    BY <2>6, <2>7, ForwardClose, Zenon
  <2>9. Moved(s, CloseIfShutRdWr(m(d), d), a)
    BY <2>1, <2>2, Zenon DEF Moved
  <2> HIDE DEF m, d
  <2> QED
    BY <1>2, <1>4, <2>8, <2>9, ForwardOne, Zenon
<1>12. CASE RecvStreamReordered(s, b, end, fin)
  <2> DEFINE a == Got(s, b, end)
  <2>1. PICK R : /\ strm' = [strm EXCEPT ![s] = [st EXCEPT !.reorder = R]]
                 /\ app' = [app EXCEPT ![s] = a] /\ Acceptable(s, end, fin)
    <3>1. Acceptable(s, end, fin) /\ app' = [app EXCEPT ![s] = a]
      BY <1>12, Zenon DEF RecvStreamReordered
    <3>2. st \in StrmType
      BY <1>2, <1>6, <1>7, <3>1, SMTT(60)
    <3>3. st = [st EXCEPT !.reorder = st.reorder]
      BY <3>2, Zenon DEF StrmType
    <3> HIDE DEF st
    <3>4. CASE strm' = [strm EXCEPT ![s] = st]
      BY <3>1, <3>3, <3>4, Zenon
    <3>5. ASSUME NEW R, strm' = [strm EXCEPT ![s] = [st EXCEPT !.reorder = R]]
          PROVE  \E Q : strm' = [strm EXCEPT ![s] = [st EXCEPT !.reorder = Q]]
      BY <3>5, Zenon
    <3> QED
      BY <1>12, <3>1, <3>4, <3>5, Zenon DEF RecvStreamReordered, st
  <2>2. Forward(strm[s], st, app[s], a) /\ st \in StrmType
    BY <1>2, <1>6, <1>7, <2>1
  <2> HIDE DEF st
  <2>3. Forward(strm[s], [st EXCEPT !.reorder = R], app[s], a)
    BY <2>2, Zenon DEF Forward, StrmType
  <2> DEFINE k == [st EXCEPT !.reorder = R]
  <2>4. Moved(s, k, a)
    BY <2>1, Zenon DEF Moved
  <2> HIDE DEF k, a
  <2> QED
    BY <1>2, <1>4, <2>3, <2>4, ForwardOne, Zenon DEF k
<1>13. CASE len = 0 /\ RecvStreamEmptyAhead(s, b, fin)
  <2>1. PICK off \in Offsets : strm' = [strm EXCEPT ![s] = CloseIfShutRdWr(Recorded(o, b, fin), off)]
    BY <1>13, Zenon DEF RecvStreamEmptyAhead
  <2>2. app' = app /\ Acceptable(s, b, fin) /\ b = end
    BY <1>13, RecvConstants, SMTT(60) DEF RecvStreamEmptyAhead, Offsets
  <2>3. Forward(strm[s], st, app[s], app[s]) /\ st \in StrmType
    BY <1>2, <1>6, <2>2, SMTT(60)
  <2>4. Forward(strm[s], CloseIfShutRdWr(st, off), app[s], app[s])
    BY <2>3, ForwardClose, Zenon
  <2> DEFINE k == CloseIfShutRdWr(st, off)
  <2>5. Moved(s, k, app[s])
    BY <1>4, <2>1, <2>2, Zenon DEF Moved
  <2> HIDE DEF k
  <2> QED
    BY <1>2, <1>4, <2>4, <2>5, ForwardOne, Zenon DEF k
<1> QED
  BY <1>1, <1>4, <1>8, <1>9, <1>10, <1>11, <1>12, <1>13, Zenon

\* No step takes anything back.
LEMMA StepForward ==
    ASSUME DeliveryInv, [Next]_vars
    PROVE  rx.max_offset <= rx'.max_offset /\ AllForward
<1>1. /\ RecvInv /\ RecvInv' /\ rx \in RxType /\ rx.max_offset \in Nat
  BY StepHolds, RecvConstants, SMTT(60) DEF DeliveryInv, RecvInv, RxOK, RxType, Offsets
<1>2. \A t \in Streams : /\ strm[t] \in StrmType /\ app[t] \in AppType
                         /\ Forward(strm[t], strm[t], app[t], app[t])
  BY <1>1, RecvConstants DEF RecvInv, StrmType, AppType, Offsets, Forward
<1>3. ASSUME rx' = rx, strm' = strm, app' = app
      PROVE  rx.max_offset <= rx'.max_offset /\ AllForward
  BY <1>1, <1>2, <1>3 DEF AllForward
<1>4. ASSUME NEW s \in Streams, RecvStream(s)
      PROVE  rx.max_offset <= rx'.max_offset /\ AllForward
  BY <1>1, <1>4, StreamForward, Zenon
<1>5. ASSUME NEW s \in Streams, NEW final \in Offsets, RecvResetStream(s, final)
      PROVE  rx.max_offset <= rx'.max_offset /\ AllForward
  <2> DEFINE o == Opened(s)
             m == [o EXCEPT !.last_offset = final,
                            !.flags = @ \cup {"SHUT_RD", "RESET_STREAM_RECVED"}]
  <2>0. PICK off \in Offsets :
          /\ strm' = [strm EXCEPT ![s] = CloseIfShutRdWr(m, off)]
          /\ \E c : app' = [app EXCEPT ![s].credited = c]
    BY <1>5, <1>1, Zenon DEF RecvResetStream, RecvInv, AppType
  <2>1. PICK c : /\ strm' = [strm EXCEPT ![s] = CloseIfShutRdWr(m, off)]
                 /\ app' = [app EXCEPT ![s].credited = c]
    BY <2>0, Zenon
  <2>2. /\ strm[s].state # "closed" /\ rx'.max_offset = rx.max_offset
        /\ "SHUT_RD" \in o.flags => o.last_offset = final
    BY <1>1, <1>5, Zenon DEF RecvResetStream, RxType
  <2>3. o = [strm[s] EXCEPT !.state = "open"]
    BY <2>2, OpenedHistory, Zenon
  <2>4. m \in StrmType /\ m.max_offset = strm[s].max_offset /\ "SHUT_RD" \in m.flags
        /\ m.last_offset = final /\ o.flags = strm[s].flags /\ o.last_offset = strm[s].last_offset
    BY <1>2, <2>3, ZenonT(40) DEF StrmType, Flags
  <2> HIDE DEF m, o
  <2> DEFINE a == [app[s] EXCEPT !.credited = c]
  <2>5. Forward(strm[s], m, app[s], a)
    BY <1>2, <2>2, <2>4, Zenon DEF Forward, AppType
  <2>6. Forward(strm[s], CloseIfShutRdWr(m, off), app[s], a)
    BY <2>4, <2>5, ForwardClose, Zenon
  <2> DEFINE k == CloseIfShutRdWr(m, off)
  <2>7. Moved(s, k, a)
    BY <1>1, <2>1, Zenon DEF Moved, RecvInv
  <2> HIDE DEF k, a
  <2>8. AllForward
    BY <1>1, <2>6, <2>7, ForwardOne, Zenon DEF k
  <2> QED
    BY <1>1, <2>2, <2>8
<1>6. ASSUME NEW s \in Streams, ShutdownStreamRead(s)
      PROVE  rx.max_offset <= rx'.max_offset /\ AllForward
  <2> DEFINE noop(off) ==
               \/ strm[s].flags \cap {"STOP_SENDING", "RESET_STREAM_RECVED"} # {}
               \/ "SHUT_RD" \in strm[s].flags /\ off = strm[s].last_offset
             back(off) == IF noop(off) THEN 0 ELSE strm[s].last_offset - off
             n(off) == IF noop(off) THEN strm[s] ELSE StopReading(strm[s], off)
             a(off) == [app[s] EXCEPT !.credited = @ + back(off),
                                      !.shutAt = IF @ = NoOffset THEN app[s].deliv ELSE @]
  <2>1. PICK off \in Offsets :
          /\ strm' = [strm EXCEPT ![s] = n(off)]
          /\ app' = [app EXCEPT ![s].credited = @ + back(off),
                                ![s].shutAt = IF @ = NoOffset THEN app[s].deliv ELSE @]
    BY <1>6, Zenon DEF ShutdownStreamRead
  <2>2. rx'.max_offset = rx.max_offset
    BY <1>1, <1>6, Zenon DEF ShutdownStreamRead, RxType
  <2>3. Moved(s, n(off), a(off))
    BY <1>1, <1>2, <2>1, Zenon DEF Moved, RecvInv, AppType
  <2>4. a(off).deliv = app[s].deliv
    BY <1>2, Zenon DEF AppType
  <2>5. Forward(strm[s], n(off), app[s], a(off))
    <3> HIDE DEF a
    <3> QED
      BY <1>2, <2>4, Zenon DEF Forward, StopReading, StrmType
  <2> HIDE DEF n, a
  <2>6. AllForward
    BY <1>1, <2>3, <2>5, ForwardOne, Zenon
  <2> QED
    BY <1>1, <2>2, <2>6
<1>7. ASSUME NEW s \in Streams, NEW n \in 1 .. MaxVarint, ExtendMaxOffset(s, n)
      PROVE  rx.max_offset <= rx'.max_offset /\ AllForward
  <2> DEFINE a == [app[s] EXCEPT !.used = @ + n]
  <2>1. /\ rx'.max_offset = rx.max_offset /\ app' = [app EXCEPT ![s] = a]
        /\ strm' = [strm EXCEPT ![s] = strm[s]]
    BY <1>1, <1>7, Zenon DEF ExtendMaxOffset, RxType, RecvInv
  <2>2. Forward(strm[s], strm[s], app[s], a)
    BY <1>2, Zenon DEF Forward, AppType
  <2>3. Moved(s, strm[s], a)
    BY <2>1, Zenon DEF Moved
  <2> HIDE DEF a
  <2>4. AllForward
    BY <1>1, <2>2, <2>3, ForwardOne, Zenon
  <2> QED
    BY <1>1, <2>1, <2>4
<1>8. ASSUME NEW s \in Streams, NEW n \in 1 .. MaxVarint, ExtendMaxStreamOffset(s, n)
      PROVE  rx.max_offset <= rx'.max_offset /\ AllForward
  <2> DEFINE a == [app[s] EXCEPT !.usedStrm = @ + n]
             k == [strm[s] EXCEPT !.unsent_max_offset = Extend(@, n)]
             push == k.flags \cap {"SHUT_RD", "STOP_SENDING"} = {} /\ ShouldSendMax(k)
             m == [k EXCEPT !.queued = @ \/ push]
  <2>1. /\ rx'.max_offset = rx.max_offset /\ app' = [app EXCEPT ![s] = a]
        /\ strm' = [strm EXCEPT ![s] = m]
    BY <1>1, <1>8, Zenon DEF ExtendMaxStreamOffset, RecvInv
  <2>2. m.max_offset = strm[s].max_offset /\ m.state = strm[s].state
        /\ m.flags = strm[s].flags /\ m.last_offset = strm[s].last_offset
    BY <1>2, Zenon DEF StrmType
  <2> HIDE DEF m
  <2>3. Forward(strm[s], m, app[s], a)
    BY <1>2, <2>2, Zenon DEF Forward, AppType
  <2>4. Moved(s, m, a)
    BY <2>1, Zenon DEF Moved
  <2> HIDE DEF a
  <2>5. AllForward
    BY <1>1, <2>3, <2>4, ForwardOne, Zenon
  <2> QED
    BY <1>1, <2>1, <2>5
<1>9. ASSUME NEW s \in Streams, SendHalfDone(s)
      PROVE  rx.max_offset <= rx'.max_offset /\ AllForward
  <2> DEFINE k == [strm[s] EXCEPT !.flags = @ \cup {"SHUT_WR", "FIN_ACKED"}]
  <2>1. PICK off \in Offsets : strm' = [strm EXCEPT ![s] = CloseIfShutRdWr(k, off)]
    BY <1>9, Zenon DEF SendHalfDone
  <2>2. rx' = rx /\ app' = [app EXCEPT ![s] = app[s]]
    BY <1>1, <1>9, Zenon DEF SendHalfDone, RecvInv
  <2>3. k \in StrmType /\ Forward(strm[s], k, app[s], app[s])
    BY <1>2, Zenon DEF Forward, StrmType, Flags
  <2>4. Forward(strm[s], CloseIfShutRdWr(k, off), app[s], app[s])
    BY <2>3, ForwardClose, Zenon
  <2> DEFINE n == CloseIfShutRdWr(k, off)
  <2>5. Moved(s, n, app[s])
    BY <2>1, <2>2, Zenon DEF Moved
  <2> HIDE DEF n
  <2>6. AllForward
    BY <1>1, <2>4, <2>5, ForwardOne, Zenon DEF n
  <2> QED
    BY <1>1, <2>2, <2>6
<1>10. ASSUME NEW s \in Streams, NEW fast \in BOOLEAN, WriteStream(s, fast)
       PROVE  rx.max_offset <= rx'.max_offset /\ AllForward
  <2> DEFINE k == [strm[s] EXCEPT !.flags = @ \ {"SEND_STOP_SENDING"}, !.queued = FALSE]
             due == k.flags \cap {"SHUT_RD", "STOP_SENDING"} = {} /\ ShouldSendMax(k)
             m == IF due THEN Advertised(k, MaxStreamWindow, fast) ELSE k
  <2>1. /\ rx' = rx /\ app' = [app EXCEPT ![s] = app[s]] /\ strm' = [strm EXCEPT ![s] = m]
    BY <1>1, <1>10, Zenon DEF WriteStream, RecvInv
  <2>2. /\ k \in StrmType /\ k.max_offset = strm[s].max_offset /\ k.state = strm[s].state
        /\ k.last_offset = strm[s].last_offset
        /\ k.unsent_max_offset = strm[s].unsent_max_offset
        /\ "SHUT_RD" \in strm[s].flags => "SHUT_RD" \in k.flags
        /\ strm[s].max_offset <= strm[s].unsent_max_offset
    BY <1>1, <1>2, ZenonT(40) DEF StrmType, RecvInv, StrmOK
  <2> HIDE DEF k
  <2>3. k.max_offset <= Advertised(k, MaxStreamWindow, fast).max_offset
    <3>1. MaxStreamWindow \in Nat
      BY RecvConstants, Zenon
    <3>2. k.max_offset \in Offsets /\ k.unsent_max_offset \in Offsets /\ k.window \in Nat
      BY <2>2, Zenon DEF StrmType
    <3> QED
      BY <2>2, <3>1, <3>2, AdvertisedMore, Zenon
  <2>4. k.max_offset \in Nat /\ app[s].deliv \in Nat
    BY <1>2, <2>2, RecvConstants, SMTT(60) DEF StrmType, AppType, Offsets
  <2>5. /\ m.state = k.state /\ m.flags = k.flags /\ m.last_offset = k.last_offset
        /\ k.max_offset <= m.max_offset
    BY <2>2, <2>3, <2>4 DEF Advertised, StrmType
  <2> HIDE DEF m
  <2>6. Forward(strm[s], m, app[s], app[s])
    BY <2>2, <2>4, <2>5, SMTT(60) DEF Forward
  <2>7. Moved(s, m, app[s])
    BY <2>1, Zenon DEF Moved
  <2>8. AllForward
    BY <1>1, <2>6, <2>7, ForwardOne, Zenon
  <2> QED
    BY <1>1, <2>1, <2>8
<1>11. ASSUME NEW fast \in BOOLEAN, WriteMaxData(fast)
       PROVE  rx.max_offset <= rx'.max_offset /\ AllForward
  <2>1. rx.max_offset <= rx.unsent_max_offset
    BY <1>1, Zenon DEF RecvInv, RxOK
  <2>2. rx.max_offset <= Advertised(rx, MaxWindow, fast).max_offset
    <3>1. MaxWindow \in Nat
      BY RecvConstants, Zenon
    <3>2. rx.max_offset \in Offsets /\ rx.unsent_max_offset \in Offsets /\ rx.window \in Nat
      BY <1>1, Zenon DEF RxType
    <3> QED
      BY <1>1, <2>1, <3>1, <3>2, AdvertisedMore, Zenon
  <2> QED
    BY <1>2, <1>11, <2>2, Zenon DEF WriteMaxData, AllForward
<1>12. CASE ConnDel
  <2>1. ASSUME NEW t \in Streams PROVE Forward(strm[t], strm'[t], app[t], app'[t])
    <3>1. strm'[t] = [strm[t] EXCEPT !.state = "closed", !.reorder = {}, !.queued = FALSE]
      BY <1>12, Zenon DEF ConnDel
    <3>2. app'[t] = app[t]
      BY <1>12, Zenon DEF ConnDel
    <3> QED
      BY <1>2, <3>1, <3>2, Zenon DEF Forward, StrmType
  <2>2. rx' = rx
    BY <1>12, Zenon DEF ConnDel
  <2> QED
    BY <1>1, <2>1, <2>2, SMTT(60) DEF AllForward
<1>13. ASSUME NEW s \in Streams, RecvOnClosed(s) \/ \E final \in Offsets : RecvResetError(s, final)
       PROVE  rx' = rx /\ strm' = strm /\ app' = app
  BY <1>13, Zenon DEF RecvOnClosed, RecvResetError
<1>14. CASE UNCHANGED vars
  BY <1>3, <1>14, Zenon DEF vars
<1> QED
  BY <1>3, <1>4, <1>5, <1>6, <1>7, <1>8, <1>9, <1>10, <1>11, <1>12, <1>13, <1>14, Zenon DEF Next

\* No call takes back what was advertised or delivered, reopens a stream, or moves
\* a final size once it is known.
THEOREM NothingTakenBack == Spec => Irrevocable
<1>1. DeliveryInv /\ [Next]_vars =>
        [/\ rx.max_offset <= rx'.max_offset
         /\ \A s \in Streams :
              /\ strm[s].max_offset <= strm'[s].max_offset
              /\ app[s].deliv <= app'[s].deliv
              /\ strm[s].state = "closed" => strm'[s].state = "closed"
              /\ "SHUT_RD" \in strm[s].flags =>
                   /\ "SHUT_RD" \in strm'[s].flags
                   /\ strm'[s].last_offset = strm[s].last_offset]_vars
  BY StepForward, Zenon DEF AllForward, Forward
<1> QED
  BY <1>1, DeliveryInductive, PTL DEF Spec, Irrevocable
=============================================================================
