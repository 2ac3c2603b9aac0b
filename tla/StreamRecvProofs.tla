-------------------------- MODULE StreamRecvProofs --------------------------
(***************************************************************************)
(* For every set of streams and every value of the limits: the types, the  *)
(* soundness of the reordering storage and the flow-control bounds of      *)
(* StreamRecv are invariant.  The three are proved together, because the   *)
(* bounds on a stream's rx offset come from the storage and the storage is *)
(* kept in bounds by the flow-control checks.                              *)
(***************************************************************************)
EXTENDS StreamRecv, FiniteSetTheorems, TLAPS

StrmType ==
    [ state : {"none", "open", "closed"}, flags : SUBSET Flags,
      cont_offset : Offsets, last_offset : Offsets,
      reorder : SUBSET [begin : Offsets, end : Offsets],
      max_offset : Offsets, unsent_max_offset : Offsets,
      window : Nat, queued : BOOLEAN ]

RxType == [ offset : Nat, max_offset : Offsets,
            unsent_max_offset : Offsets, window : Nat ]

AppType ==
    [ got : SUBSET Offsets, deliv : Offsets, fins : Nat, credited : Nat,
      used : Nat, usedStrm : Nat, shutAt : Offsets \cup {NoOffset} ]

Entries(R, last) ==
    /\ R \subseteq [begin : Offsets, end : Offsets]
    /\ WellFormed(R)
    /\ \A ent \in R : ent.end <= last

StorageOK(R, c, last) ==
    /\ Entries(R, last)
    /\ \A ent \in R : c < ent.begin

\* One stream satisfies its part of the inductive invariant.
StrmOK(st) ==
    /\ st \in StrmType
    /\ StorageOK(st.reorder, st.cont_offset, st.last_offset)
    /\ st.cont_offset <= st.last_offset
    /\ st.last_offset <= st.max_offset
    /\ st.max_offset <= st.unsent_max_offset
    /\ "STOP_SENDING" \in st.flags => st.reorder = {}

RxOK(r) ==
    /\ r \in RxType
    /\ r.offset <= r.max_offset
    /\ r.max_offset <= r.unsent_max_offset

\* The inductive invariant.
RecvInv ==
    /\ strm \in [Streams -> StrmType]
    /\ \A s \in Streams : StrmOK(strm[s])
    /\ RxOK(rx)
    /\ err \in Errors
    /\ refs \in [Streams -> Int]
    /\ app \in [Streams -> AppType]

-----------------------------------------------------------------------------
(* The reordering storage *)

\* ngtcp2_reorder_first_gap_offset never passes the end of the data received.
LEMMA GapBounded ==
    ASSUME NEW R, NEW c \in Nat, NEW last \in Nat, NEW g \in Nat,
           c <= last, \A ent \in R : ent.begin \in Nat /\ ent.end \in Nat /\ ent.end <= last,
           IsFirstGap(R, c, g)
    PROVE  c <= g /\ g <= last
<1>1. c <= g
  BY DEF IsFirstGap
<1>2. SUFFICES ASSUME last < g PROVE FALSE
  BY <1>1
<1>3. last \in c .. (g - 1)
  BY <1>2
<1>4. PICK ent \in R : ent.begin <= last /\ last < ent.end
  BY <1>3 DEF IsFirstGap, Covered
<1> QED
  BY <1>4

\* The storage is a finite list: entries have different starts.
LEMMA StorageFinite ==
    ASSUME NEW R, R \subseteq [begin : Offsets, end : Offsets], WellFormed(R)
    PROVE  IsFiniteSet(R) /\ Cardinality(R) \in Nat
<1> DEFINE f == [ent \in R |-> ent.begin]
<1>0. MaxVarint \in Nat
  BY RecvConstants
<1>1. f \in [R -> Offsets]
  OBVIOUS
<1>2. ASSUME NEW d \in R, NEW e \in R, f[d] = f[e] PROVE d = e
  <2>1. d.begin = e.begin /\ d.begin \in Nat /\ d.end \in Nat /\ e.end \in Nat
    BY <1>2, <1>0 DEF Offsets
  <2>2. d.begin < d.end /\ e.begin < e.end
    BY DEF WellFormed
  <2> QED
    BY <2>1, <2>2 DEF WellFormed
<1>3. f \in Injection(R, Offsets)
  BY <1>1, <1>2 DEF Injection, IsInjective
<1>4. IsFiniteSet(Offsets)
  BY <1>0, FS_Interval DEF Offsets
<1>5. IsFiniteSet(R)
  BY <1>3, <1>4, FS_Injection
<1> QED
  BY <1>5, FS_CardinalityType

\* ngtcp2_reorder_remove_prefix and ngtcp2_reorder_pop up to a gap keep the
\* storage sound for the new delivered offset.
LEMMA RemovePrefixSound ==
    ASSUME NEW R, NEW last \in Offsets, NEW o \in Offsets, Entries(R, last)
    PROVE  /\ Entries(RemovePrefix(R, o), last)
           /\ ~Covered(R, o) => StorageOK(RemovePrefix(R, o), o, last)
<1>0. MaxVarint \in Nat
  BY RecvConstants
<1>1. ASSUME NEW x \in RemovePrefix(R, o)
      PROVE  \E ent \in R : /\ o < ent.end
                            /\ x = ByteRange(IF ent.begin < o THEN o ELSE ent.begin, ent.end)
  BY DEF RemovePrefix
<1>2. \A ent \in R : /\ ent.begin \in Offsets /\ ent.end \in Offsets
                     /\ ent.begin < ent.end /\ ent.end <= last
  BY DEF Entries, StorageOK, WellFormed
<1>3. ASSUME NEW x \in RemovePrefix(R, o)
      PROVE  /\ x \in [begin : Offsets, end : Offsets]
             /\ x.begin < x.end /\ o <= x.begin /\ x.end <= last
             /\ ~Covered(R, o) => o < x.begin
  <2>1. PICK ent \in R : /\ o < ent.end
                         /\ x = ByteRange(IF ent.begin < o THEN o ELSE ent.begin, ent.end)
    BY <1>1
  <2> QED
    BY <2>1, <1>0, <1>2 DEF ByteRange, Offsets, Covered
<1>4. ASSUME NEW x \in RemovePrefix(R, o), NEW y \in RemovePrefix(R, o), x # y
      PROVE  x.end <= y.begin \/ y.end <= x.begin
  <2>1. PICK d \in R : /\ o < d.end
                       /\ x = ByteRange(IF d.begin < o THEN o ELSE d.begin, d.end)
    BY <1>1
  <2>2. PICK e \in R : /\ o < e.end
                       /\ y = ByteRange(IF e.begin < o THEN o ELSE e.begin, e.end)
    BY <1>1
  <2>3. d # e
    BY <2>1, <2>2, <1>4
  <2>4. d.end <= e.begin \/ e.end <= d.begin
    BY <2>3 DEF Entries, StorageOK, WellFormed
  <2> QED
    BY <2>1, <2>2, <2>4, <1>0, <1>2 DEF ByteRange, Offsets
<1> QED
  BY <1>3, <1>4 DEF WellFormed, Entries, StorageOK

\* ngtcp2_reorder_push inserts a range that no entry overlaps.
LEMMA PushSound ==
    ASSUME NEW R, NEW c \in Offsets, NEW last \in Offsets, StorageOK(R, c, last),
           NEW b \in Offsets, NEW e \in Offsets, c < b, e <= last,
           NEW nb \in Offsets, NEW ne \in Offsets, PushStores(R, c, b, e, nb, ne)
    PROVE  StorageOK(R \cup {ByteRange(nb, ne)}, c, last)
<1>0. MaxVarint \in Nat
  BY RecvConstants
<1>1. /\ b <= nb /\ nb < ne /\ ne <= e
      /\ \A x \in nb .. (ne - 1) : ~Covered(R, x)
  BY <1>0 DEF PushStores, IsFirstGap, Offsets
<1>2. ASSUME NEW ent \in R PROVE ent.end <= nb \/ ne <= ent.begin
  <2>0. ent \in [begin : Offsets, end : Offsets] /\ ent.begin < ent.end
    BY DEF Entries, StorageOK, WellFormed
  <2>1. /\ ent.begin \in Nat /\ ent.end \in Nat /\ nb \in Nat /\ ne \in Nat
        /\ ent.begin < ent.end
    BY <1>0, <2>0 DEF Offsets
  <2>2. SUFFICES ASSUME nb < ent.end, ent.begin < ne PROVE FALSE
    BY <2>1
  <2>3. CASE ent.begin <= nb
    <3>1. nb \in nb .. (ne - 1) /\ Covered(R, nb)
      BY <2>1, <2>2, <2>3, <1>1 DEF Covered
    <3> QED
      BY <3>1, <1>1
  <2>4. CASE nb < ent.begin
    <3>1. ent.begin \in nb .. (ne - 1) /\ Covered(R, ent.begin)
      BY <2>1, <2>2, <2>4, <1>1 DEF Covered
    <3> QED
      BY <3>1, <1>1
  <2> QED
    BY <2>1, <2>3, <2>4
<1> DEFINE n == ByteRange(nb, ne)
<1>3. /\ n \in [begin : Offsets, end : Offsets] /\ n.begin = nb /\ n.end = ne
  BY DEF ByteRange
<1>4. /\ n.begin < n.end /\ c < n.begin /\ n.end <= last
  BY <1>0, <1>1, <1>3 DEF Offsets
<1> HIDE DEF n
<1>5. WellFormed(R \cup {n})
  BY <1>2, <1>3, <1>4 DEF Entries, StorageOK, WellFormed
<1> QED
  BY <1>3, <1>4, <1>5 DEF Entries, StorageOK, n
-----------------------------------------------------------------------------
(* Operations on one stream *)

\* ngtcp2_conn_init_stream makes a sound stream.
LEMMA InitStreamOK ==
    ASSUME NEW s \in Streams
    PROVE  StrmOK(InitStream(s))
<1>1. InitStream(s) \in StrmType
  BY RecvConstants DEF InitStream, StrmType, Flags, Offsets
<1> QED
  BY <1>1, RecvConstants DEF InitStream, StrmOK, Entries, StorageOK, WellFormed, Offsets

\* Opening a stream on its first frame (conn_recv_stream) leaves a sound stream.
LEMMA OpenedOK ==
    ASSUME RecvInv, NEW s \in Streams
    PROVE  StrmOK(Opened(s))
BY InitStreamOK DEF RecvInv, Opened

\* ngtcp2_strm_rx_offset lies between what was delivered and what was received.
LEMMA RxOffsetBounded ==
    ASSUME NEW st, StrmOK(st), NEW off \in Offsets, IsRxOffset(st, off)
    PROVE  st.cont_offset <= off /\ off <= st.last_offset
<1>1. /\ st.cont_offset \in Nat /\ st.last_offset \in Nat /\ off \in Nat
      /\ st.cont_offset <= st.last_offset
  BY RecvConstants DEF StrmOK, StrmType, Offsets
<1>2. \A ent \in st.reorder : /\ ent.begin \in Nat /\ ent.end \in Nat
                              /\ ent.end <= st.last_offset
  BY RecvConstants DEF StrmOK, Entries, StorageOK, Offsets
<1> QED
  BY <1>1, <1>2, GapBounded DEF IsRxOffset

\* ngtcp2_conn_extend_max_offset stays in range and never shrinks.
LEMMA ExtendOK ==
    ASSUME NEW u \in Offsets, NEW n \in Nat
    PROVE  Extend(u, n) \in Offsets /\ u <= Extend(u, n)
BY RecvConstants DEF Extend, Offsets

\* The checks of conn_recv_stream keep a stream within its limits once the
\* frame is recorded.
LEMMA RecordedOK ==
    ASSUME NEW st, StrmOK(st), RxOK(rx), NEW end \in Nat, NEW fin \in BOOLEAN,
           ~FlowControlViolated(st, end), ~FinalSizeViolated(st, end, fin)
    PROVE  /\ StrmOK(Recorded(st, end, fin))
           /\ end <= Recorded(st, end, fin).last_offset
           /\ st.last_offset <= Recorded(st, end, fin).last_offset
           /\ end \in Offsets
<1>1. /\ st \in StrmType /\ st.last_offset \in Nat /\ st.max_offset \in Offsets
      /\ MaxVarint \in Nat
  BY RecvConstants DEF StrmOK, StrmType, Offsets
<1>2. end <= st.max_offset
  BY <1>1 DEF FlowControlViolated, Offsets
<1>3. end \in Offsets
  BY <1>1, <1>2 DEF Offsets
<1>4. fin => st.last_offset <= end
  BY <1>1, <1>2 DEF FinalSizeViolated
<1> DEFINE n == Recorded(st, end, fin)
<1>5. /\ n \in StrmType
      /\ n.reorder = st.reorder /\ n.cont_offset = st.cont_offset
      /\ n.max_offset = st.max_offset /\ n.unsent_max_offset = st.unsent_max_offset
      /\ n.last_offset = IF fin \/ st.last_offset < end THEN end ELSE st.last_offset
      /\ "STOP_SENDING" \in n.flags => "STOP_SENDING" \in st.flags
  BY <1>1, <1>3 DEF Recorded, StrmType, Flags
<1>6. st.last_offset <= n.last_offset /\ end <= n.last_offset /\ n.last_offset <= n.max_offset
  BY <1>1, <1>2, <1>4, <1>5 DEF StrmOK, Offsets
<1>7. /\ \A ent \in n.reorder : n.cont_offset < ent.begin /\ ent.end <= n.last_offset
      /\ n.cont_offset <= n.last_offset
  BY <1>1, <1>5, <1>6 DEF StrmOK, Entries, StorageOK, StrmType, Offsets
<1> QED
  BY <1>3, <1>5, <1>6, <1>7 DEF StrmOK, Entries, StorageOK

\* Connection flow control holds once the frame's new bytes are counted.
LEMMA AccountedOK ==
    ASSUME NEW st, StrmOK(st), RxOK(rx), NEW end \in Nat, ~FlowControlViolated(st, end)
    PROVE  RxOK(Accounted(st, end)) /\ NewBytes(st, end) \in Nat
<1>1. /\ st.last_offset \in Nat /\ MaxVarint \in Nat /\ rx \in RxType
      /\ rx.offset \in Nat /\ rx.max_offset \in Nat
  BY RecvConstants DEF StrmOK, StrmType, RxOK, RxType, Offsets
<1>2. NewBytes(st, end) \in Nat
  BY <1>1 DEF NewBytes
<1>3. rx.offset + NewBytes(st, end) <= rx.max_offset
  BY <1>1, <1>2 DEF FlowControlViolated
<1>4. /\ Extend(rx.unsent_max_offset, NewBytes(st, end)) \in Offsets
      /\ rx.unsent_max_offset <= Extend(rx.unsent_max_offset, NewBytes(st, end))
  BY <1>1, <1>2, ExtendOK DEF RxType
<1> DEFINE r == Accounted(st, end)
           k == rx.offset + NewBytes(st, end)
           u == IF "STOP_SENDING" \in st.flags
                THEN Extend(rx.unsent_max_offset, NewBytes(st, end))
                ELSE rx.unsent_max_offset
<1>u. u \in Offsets /\ rx.unsent_max_offset <= u
  BY <1>1, <1>4 DEF RxType, Offsets
<1>k. k \in Nat /\ k <= rx.max_offset
  BY <1>1, <1>2, <1>3
<1>r. r = [rx EXCEPT !.offset = k, !.unsent_max_offset = u]
  BY DEF Accounted
<1> HIDE DEF u, k, r
<1>5. /\ r \in RxType
      /\ r.offset = k /\ r.max_offset = rx.max_offset /\ r.unsent_max_offset = u
  BY <1>1, <1>k, <1>u, <1>r DEF RxType
<1>6. RxOK(r)
  BY <1>1, <1>k, <1>u, <1>5 DEF RxOK, RxType, Offsets
<1> QED
  BY <1>2, <1>6 DEF r

\* Credit given back keeps conn->rx in bounds.
LEMMA RxExtendOK ==
    ASSUME NEW r, RxOK(r), NEW n \in Nat
    PROVE  RxOK([r EXCEPT !.unsent_max_offset = Extend(@, n)])
<1>1. /\ Extend(r.unsent_max_offset, n) \in Offsets
      /\ r.unsent_max_offset <= Extend(r.unsent_max_offset, n)
  BY ExtendOK DEF RxOK, RxType
<1>2. [r EXCEPT !.unsent_max_offset = Extend(@, n)] \in RxType
  BY <1>1 DEF RxOK, RxType
<1> QED
  BY <1>1, <1>2, RecvConstants DEF RxOK, RxType, Offsets

\* ngtcp2_conn_close_stream_if_shut_rdwr leaves a sound stream.
LEMMA CloseOK ==
    ASSUME NEW st, StrmOK(st), NEW off
    PROVE  StrmOK(CloseIfShutRdWr(st, off))
BY DEF CloseIfShutRdWr, StrmOK, StrmType, Entries, StorageOK, WellFormed

\* conn_shutdown_stream_read leaves a sound stream.
LEMMA StopReadingOK ==
    ASSUME NEW st, StrmOK(st), NEW off \in Offsets, off <= st.last_offset
    PROVE  StrmOK(StopReading(st, off))
<1>1. /\ StopReading(st, off) \in StrmType
  BY DEF StopReading, StrmOK, StrmType, Flags
<1> QED
  BY <1>1 DEF StopReading, StrmOK, StrmType, Entries, StorageOK, WellFormed

\* ngtcp2_reorder_push leaves a sound stream.
LEMMA PushedOK ==
    ASSUME NEW st, StrmOK(st), "STOP_SENDING" \notin st.flags,
           NEW b \in Offsets, NEW e \in Offsets, NEW nb \in Offsets, NEW ne \in Offsets,
           st.cont_offset < b, e <= st.last_offset,
           PushStores(st.reorder, st.cont_offset, b, e, nb, ne)
    PROVE  StrmOK([st EXCEPT !.reorder = st.reorder \cup {ByteRange(nb, ne)}])
<1> DEFINE pushed == st.reorder \cup {ByteRange(nb, ne)}
           n == [st EXCEPT !.reorder = pushed]
<1>1. /\ st \in StrmType /\ StorageOK(st.reorder, st.cont_offset, st.last_offset)
      /\ st.cont_offset \in Offsets /\ st.last_offset \in Offsets
  BY DEF StrmOK, StrmType
<1>2. StorageOK(pushed, st.cont_offset, st.last_offset)
  BY <1>1, PushSound
<1> HIDE DEF pushed
<1>3. n \in StrmType
  BY <1>1, <1>2 DEF StrmType, StorageOK, Entries
<1>4. /\ n.reorder = pushed /\ n.cont_offset = st.cont_offset
      /\ n.last_offset = st.last_offset /\ n.max_offset = st.max_offset
      /\ n.unsent_max_offset = st.unsent_max_offset /\ n.flags = st.flags
  BY <1>1 DEF StrmType
<1>5. StrmOK(n)
  BY <1>2, <1>3, <1>4 DEF StrmOK
<1> QED
  BY <1>5 DEF pushed

\* The number of buffers a step releases is an integer: storages are finite.
LEMMA ReleasedInt ==
    ASSUME NEW a, NEW b, StrmOK(a), StrmOK(b)
    PROVE  ReleasedBy(a, b) \in Int
<1>1. Cardinality(a.reorder) \in Nat
  BY StorageFinite DEF StrmOK, Entries, StorageOK
<1>2. Cardinality(b.reorder) \in Nat
  BY StorageFinite DEF StrmOK, Entries, StorageOK
<1> QED
  BY <1>1, <1>2 DEF ReleasedBy

\* MAX_STREAM_DATA: what is advertised grows, the window too.
LEMMA AdvertisedOK ==
    ASSUME NEW w, NEW limit \in Nat, NEW fast \in BOOLEAN,
           w.window \in Nat, w.unsent_max_offset \in Offsets
    PROVE  LET target == TunedWindow(w, limit, fast)
               new == IF w.unsent_max_offset + (target - w.window) > MaxVarint
                      THEN MaxVarint ELSE w.unsent_max_offset + (target - w.window)
           IN  /\ target \in Nat
               /\ new \in Offsets /\ w.unsent_max_offset <= new
BY RecvConstants DEF TunedWindow, Offsets

\* MAX_STREAM_DATA, written by conn_write_pkt, leaves a sound stream.
LEMMA StrmAdvertisedOK ==
    ASSUME NEW st, StrmOK(st), NEW fast \in BOOLEAN
    PROVE  StrmOK(Advertised(st, MaxStreamWindow, fast))
<1> DEFINE target == TunedWindow(st, MaxStreamWindow, fast)
           new == IF st.unsent_max_offset + (target - st.window) > MaxVarint
                  THEN MaxVarint ELSE st.unsent_max_offset + (target - st.window)
<1>1. target \in Nat /\ new \in Offsets /\ st.unsent_max_offset <= new
  BY AdvertisedOK, RecvConstants DEF StrmOK, StrmType
<1>2. Advertised(st, MaxStreamWindow, fast)
        = [st EXCEPT !.window = target, !.max_offset = new, !.unsent_max_offset = new]
  BY DEF Advertised
<1> HIDE DEF target, new
<1>3. /\ Advertised(st, MaxStreamWindow, fast) \in StrmType
      /\ Advertised(st, MaxStreamWindow, fast).reorder = st.reorder
      /\ Advertised(st, MaxStreamWindow, fast).flags = st.flags
      /\ Advertised(st, MaxStreamWindow, fast).cont_offset = st.cont_offset
      /\ Advertised(st, MaxStreamWindow, fast).last_offset = st.last_offset
      /\ Advertised(st, MaxStreamWindow, fast).max_offset = new
      /\ Advertised(st, MaxStreamWindow, fast).unsent_max_offset = new
  BY <1>1, <1>2 DEF StrmOK, StrmType
<1>4. st.last_offset <= new /\ new <= new
  BY <1>1, RecvConstants DEF StrmOK, StrmType, Offsets
<1> QED
  BY <1>3, <1>4 DEF StrmOK

\* MAX_DATA, written by conn_write_pkt, keeps conn->rx in bounds.
LEMMA RxAdvertisedOK ==
    ASSUME RxOK(rx), NEW fast \in BOOLEAN
    PROVE  RxOK(Advertised(rx, MaxWindow, fast))
<1> DEFINE target == TunedWindow(rx, MaxWindow, fast)
           new == IF rx.unsent_max_offset + (target - rx.window) > MaxVarint
                  THEN MaxVarint ELSE rx.unsent_max_offset + (target - rx.window)
<1>1. target \in Nat /\ new \in Offsets /\ rx.unsent_max_offset <= new
  BY AdvertisedOK, RecvConstants DEF RxOK, RxType
<1>2. Advertised(rx, MaxWindow, fast)
        = [rx EXCEPT !.window = target, !.max_offset = new, !.unsent_max_offset = new]
  BY DEF Advertised
<1> HIDE DEF target, new
<1>3. /\ Advertised(rx, MaxWindow, fast) \in RxType
      /\ Advertised(rx, MaxWindow, fast).offset = rx.offset
      /\ Advertised(rx, MaxWindow, fast).max_offset = new
      /\ Advertised(rx, MaxWindow, fast).unsent_max_offset = new
  BY <1>1, <1>2 DEF RxOK, RxType
<1>4. rx.offset <= new /\ new <= new
  BY <1>1, RecvConstants DEF RxOK, RxType, Offsets
<1> QED
  BY <1>3, <1>4 DEF RxOK
-----------------------------------------------------------------------------
(* Every step keeps the invariant: one lemma for each kind of step *)

\* A step that changes one stream only needs that stream to stay sound.
LEMMA StreamStep ==
    ASSUME RecvInv, NEW s \in Streams, NEW n, StrmOK(n), strm' = [strm EXCEPT ![s] = n]
    PROVE  strm' \in [Streams -> StrmType] /\ \A t \in Streams : StrmOK(strm'[t])
<1>1. n \in StrmType
  BY DEF StrmOK
<1>2. strm \in [Streams -> StrmType] /\ \A t \in Streams : StrmOK(strm[t])
  BY DEF RecvInv
<1>3. \A t \in Streams : strm'[t] = IF t = s THEN n ELSE strm[t]
  BY <1>2
<1> QED
  BY <1>1, <1>2, <1>3

\* The parts of the next state, each shown on its own, make the invariant.
LEMMA Assemble ==
    ASSUME strm' \in [Streams -> StrmType], \A t \in Streams : StrmOK(strm'[t]),
           RxOK(rx'), err' \in Errors, refs' \in [Streams -> Int],
           app' \in [Streams -> AppType]
    PROVE  RecvInv'
BY DEF RecvInv

\* Bytes carried by an accepted frame keep the history's type.
LEMMA GotType ==
    ASSUME RecvInv, NEW s \in Streams, NEW b \in Offsets, NEW end \in Offsets
    PROVE  Got(s, b, end) \in AppType
<1>1. b .. (end - 1) \subseteq Offsets
  BY RecvConstants DEF Offsets
<1>2. app[s] \in AppType
  BY DEF RecvInv
<1> QED
  BY <1>1, <1>2 DEF Got, AppType

\* conn_recv_stream returning an error: what was recorded before it is kept.
LEMMA StreamErrorStep ==
    ASSUME RecvInv, NEW s \in Streams, NEW end \in Nat, NEW fin \in BOOLEAN,
           RecvStreamError(s, end, fin)
    PROVE  RecvInv'
<1>1. StrmOK(Opened(s))
  BY OpenedOK
<1>2. strm' \in [Streams -> StrmType] /\ \A t \in Streams : StrmOK(strm'[t])
  <2>1. CASE UNCHANGED strm
    BY <2>1 DEF RecvInv
  <2>2. CASE strm' = [strm EXCEPT ![s] = Opened(s)]
    BY <2>2, <1>1, StreamStep
  <2> QED
    BY <2>1, <2>2 DEF RecvStreamError
<1>3. RxOK(rx')
  <2>1. CASE UNCHANGED rx
    BY <2>1 DEF RecvInv
  <2>2. CASE ~FlowControlViolated(Opened(s), end) /\ rx' = Accounted(Opened(s), end)
    BY <2>2, <1>1, AccountedOK DEF RecvInv
  <2> QED
    BY <2>1, <2>2 DEF RecvStreamError
<1>4. err' \in Errors
  BY DEF RecvStreamError, Errors
<1>5. refs' \in [Streams -> Int] /\ app' \in [Streams -> AppType]
  BY DEF RecvStreamError, RecvInv
<1> QED
  BY <1>2, <1>3, <1>4, <1>5, Assemble

\* conn_recv_stream on a frame with nothing new.
LEMMA StreamIgnoredStep ==
    ASSUME RecvInv, NEW s \in Streams, NEW b \in Offsets, NEW end \in Nat,
           NEW fin \in BOOLEAN, RecvStreamIgnored(s, b, end, fin)
    PROVE  RecvInv'
<1>1. StrmOK(Opened(s)) /\ RxOK(rx)
  BY OpenedOK DEF RecvInv
<1>2. ~FlowControlViolated(Opened(s), end) /\ ~FinalSizeViolated(Opened(s), end, fin)
  BY DEF RecvStreamIgnored, Acceptable
<1>3. StrmOK(Recorded(Opened(s), end, fin)) /\ end \in Offsets
  BY <1>1, <1>2, RecordedOK
<1>4. RxOK(Accounted(Opened(s), end))
  BY <1>1, <1>2, AccountedOK
<1>5. strm' \in [Streams -> StrmType] /\ \A t \in Streams : StrmOK(strm'[t])
  BY ZenonT(60), <1>3, StreamStep DEF RecvStreamIgnored
<1>6. err' \in Errors
  BY DEF RecvStreamIgnored, Errors
<1>7. app' \in [Streams -> AppType]
  BY <1>3, GotType DEF RecvStreamIgnored, RecvInv
<1>8. RxOK(rx') /\ refs' \in [Streams -> Int]
  BY <1>4 DEF RecvStreamIgnored, RecvInv
<1> QED
  BY <1>5, <1>6, <1>7, <1>8, Assemble
\* The in-order step: the delivered offset moves to the next gap and the storage
\* below it goes.
LEMMA StreamInOrderStep ==
    ASSUME RecvInv, NEW s \in Streams, NEW b \in Offsets, NEW end \in Nat,
           NEW fin \in BOOLEAN, NEW stop \in Offsets \cup {NoOffset}, b <= end,
           RecvStreamInOrder(s, b, end, fin, stop)
    PROVE  RecvInv'
<1>1. StrmOK(Opened(s)) /\ RxOK(rx)
  BY OpenedOK DEF RecvInv
<1>2. ~FlowControlViolated(Opened(s), end) /\ ~FinalSizeViolated(Opened(s), end, fin)
  BY DEF RecvStreamInOrder, Acceptable
<1> DEFINE st == Recorded(Opened(s), end, fin)
<1>3. /\ StrmOK(st) /\ end \in Offsets /\ end <= st.last_offset
      /\ Opened(s).last_offset <= st.last_offset
  BY <1>1, <1>2, RecordedOK
<1>4. RxOK(Accounted(Opened(s), end)) /\ "STOP_SENDING" \notin st.flags
  BY <1>1, <1>2, AccountedOK DEF RecvStreamInOrder, Recorded, StrmOK, StrmType
<1> DEFINE D(off) == IF b = end THEN off ELSE end
           RR == IF b = end THEN st.reorder ELSE RemovePrefix(st.reorder, end)
           Ends(off, gap) == CallbackEnds(RR, D(off), gap)
           Stopped(gap) == stop # NoOffset /\ ~("SHUT_RD" \in st.flags /\ gap = st.last_offset)
           Kept(gap) == [st EXCEPT !.cont_offset = gap, !.reorder = RemovePrefix(RR, gap)]
           St2(gap) == IF Stopped(gap) THEN StopReading(st, gap)
                       ELSE CloseIfShutRdWr(Kept(gap), gap)
           Back(gap) == IF Stopped(gap) THEN st.last_offset - gap ELSE 0
           Upto(gap) == IF Stopped(gap) THEN stop ELSE gap
<1>5. PICK off \in Offsets, gap \in Offsets :
         /\ IsRxOffset(Opened(s), off)
         /\ IsFirstGap(RR, D(off), gap)
         /\ stop = NoOffset \/ stop \in Ends(off, gap)
         /\ strm' = [strm EXCEPT ![s] = St2(gap)]
         /\ refs' = [refs EXCEPT ![s] = @ - ReleasedBy(st, St2(gap))]
         /\ rx' = [Accounted(Opened(s), end) EXCEPT !.unsent_max_offset = Extend(@, Back(gap))]
         /\ app' = [app EXCEPT ![s] =
                      [Delivered(s, b, end, st, Ends(off, gap), Upto(gap)) EXCEPT
                         !.credited = @ + Back(gap),
                         !.shutAt = IF @ = NoOffset THEN stop ELSE @]]
         /\ UNCHANGED err
  BY ZenonT(60) DEF RecvStreamInOrder
<1> HIDE DEF st
<1>6. /\ MaxVarint \in Nat /\ st.last_offset \in Offsets
      /\ Entries(st.reorder, st.last_offset) /\ st \in StrmType
  BY <1>3, RecvConstants DEF StrmOK, StrmType, StorageOK
<1>7. off <= st.last_offset /\ D(off) \in Offsets /\ D(off) <= st.last_offset
  BY <1>1, <1>3, <1>5, <1>6, RxOffsetBounded DEF StrmOK, StrmType, Offsets
<1>8. Entries(RR, st.last_offset)
  BY <1>3, <1>6, RemovePrefixSound
<1> HIDE DEF RR, D
<1>9. gap <= st.last_offset
  <2>1. /\ D(off) \in Nat /\ st.last_offset \in Nat /\ gap \in Nat
        /\ \A ent \in RR : ent.begin \in Nat /\ ent.end \in Nat /\ ent.end <= st.last_offset
    BY <1>6, <1>7, <1>8 DEF Entries, Offsets
  <2> QED
    BY <2>1, <1>5, <1>7, GapBounded
<1>10. StorageOK(RemovePrefix(RR, gap), gap, st.last_offset)
  BY <1>5, <1>6, <1>8, RemovePrefixSound DEF IsFirstGap
<1>11. StrmOK(Kept(gap))
  <2>1. Kept(gap) \in StrmType
    BY <1>6, <1>10 DEF StrmType, StorageOK, Entries
  <2>2. /\ Kept(gap).reorder = RemovePrefix(RR, gap) /\ Kept(gap).cont_offset = gap
        /\ Kept(gap).last_offset = st.last_offset /\ Kept(gap).max_offset = st.max_offset
        /\ Kept(gap).unsent_max_offset = st.unsent_max_offset /\ Kept(gap).flags = st.flags
    BY <1>6 DEF StrmType
  <2> HIDE DEF Kept
  <2> QED
    BY <2>1, <2>2, <1>3, <1>4, <1>9, <1>10 DEF StrmOK
<1>12. StrmOK(St2(gap))
  BY <1>3, <1>9, <1>11, StopReadingOK, CloseOK
<1>13. Back(gap) \in Nat
  BY <1>6, <1>9 DEF Offsets
<1> HIDE DEF Kept, St2, Back
<1>14. strm' \in [Streams -> StrmType] /\ \A t \in Streams : StrmOK(strm'[t])
  BY <1>5, <1>12, StreamStep
<1>15. RxOK(rx')
  BY <1>4, <1>5, <1>13, RxExtendOK
<1>16. refs' \in [Streams -> Int]
  <2>1. ReleasedBy(st, St2(gap)) \in Int
    BY <1>3, <1>12, ReleasedInt
  <2> QED
    BY <2>1, <1>5 DEF RecvInv
<1>17. app' \in [Streams -> AppType]
  <2> DEFINE F == {x \in Ends(off, gap) : /\ x <= Upto(gap)
                                          /\ "SHUT_RD" \in st.flags
                                          /\ x = st.last_offset}
  <2>1. Cardinality(F) \in Nat
    <3>1. IsFiniteSet({st.last_offset}) /\ F \in SUBSET {st.last_offset}
      BY FS_Singleton
    <3>2. IsFiniteSet(F)
      BY <3>1, FS_Subset
    <3> QED
      BY <3>2, FS_CardinalityType
  <2>2. Upto(gap) \in Offsets
    BY <1>5
  <2>3. Got(s, b, end) \in AppType
    BY <1>3, GotType
  <2> DEFINE a == Delivered(s, b, end, st, Ends(off, gap), Upto(gap))
             k == Got(s, b, end).fins + Cardinality(F)
  <2>4. a = [Got(s, b, end) EXCEPT !.deliv = Upto(gap), !.fins = k]
    BY DEF Delivered
  <2>k. k \in Nat
    BY <2>1, <2>3 DEF AppType
  <2> HIDE DEF k, Upto
  <2>5. a \in AppType
    BY <2>k, <2>2, <2>3, <2>4 DEF AppType
  <2> HIDE DEF a
  <2>6. [a EXCEPT !.credited = @ + Back(gap),
                  !.shutAt = IF @ = NoOffset THEN stop ELSE @] \in AppType
    <3> DEFINE c == a.credited + Back(gap)
               h == IF a.shutAt = NoOffset THEN stop ELSE a.shutAt
    <3>1. c \in Nat
      BY <2>5, <1>13 DEF AppType
    <3>2. h \in Offsets \cup {NoOffset}
      BY <2>5 DEF AppType
    <3> HIDE DEF c, h
    <3>3. [a EXCEPT !.credited = c, !.shutAt = h] \in AppType
      BY <2>5, <3>1, <3>2 DEF AppType
    <3> QED
      BY <3>3 DEF c, h
  <2>7. app \in [Streams -> AppType]
    BY DEF RecvInv
  <2> QED
    BY <2>6, <2>7, <1>5 DEF a
<1>18. err' \in Errors
  BY <1>5 DEF RecvInv
<1> QED
  BY <1>14, <1>15, <1>16, <1>17, <1>18, Assemble

\* Giving back n bytes of credit keeps the history's type.
LEMMA CreditedType ==
    ASSUME NEW a \in AppType, NEW n \in Nat
    PROVE  [a EXCEPT !.credited = @ + n] \in AppType
<1> DEFINE c == a.credited + n
<1>1. c \in Nat
  BY DEF AppType
<1> HIDE DEF c
<1>2. [a EXCEPT !.credited = c] \in AppType
  BY <1>1 DEF AppType
<1> QED
  BY <1>2 DEF c

\* conn_recv_stream after reading was stopped: the bytes are only accounted.
LEMMA StreamDiscardedStep ==
    ASSUME RecvInv, NEW s \in Streams, NEW b \in Offsets, NEW end \in Nat,
           NEW fin \in BOOLEAN, RecvStreamDiscarded(s, b, end, fin)
    PROVE  RecvInv'
<1>1. StrmOK(Opened(s)) /\ RxOK(rx)
  BY OpenedOK DEF RecvInv
<1>2. ~FlowControlViolated(Opened(s), end) /\ ~FinalSizeViolated(Opened(s), end, fin)
  BY DEF RecvStreamDiscarded, Acceptable
<1> DEFINE st == Recorded(Opened(s), end, fin)
           D(off) == IF b <= off /\ b # end THEN end ELSE off
<1>3. /\ StrmOK(st) /\ end \in Offsets /\ end <= st.last_offset
      /\ Opened(s).last_offset <= st.last_offset
  BY <1>1, <1>2, RecordedOK
<1>4. RxOK(Accounted(Opened(s), end)) /\ NewBytes(Opened(s), end) \in Nat
  BY <1>1, <1>2, AccountedOK
<1>5. PICK off \in Offsets :
         /\ IsRxOffset(Opened(s), off)
         /\ strm' = [strm EXCEPT ![s] = CloseIfShutRdWr([st EXCEPT !.cont_offset = D(off)], D(off))]
  BY DEF RecvStreamDiscarded
<1>6. st.reorder = {}
  BY <1>1 DEF RecvStreamDiscarded, Recorded, StrmOK, StrmType
<1> HIDE DEF st
<1>7. D(off) \in Offsets /\ D(off) <= st.last_offset
  BY <1>1, <1>3, <1>5, RxOffsetBounded, RecvConstants DEF StrmOK, StrmType, Offsets
<1> HIDE DEF D
<1>8. StrmOK([st EXCEPT !.cont_offset = D(off)])
  BY <1>3, <1>6, <1>7 DEF StrmOK, StrmType, StorageOK
<1>9. strm' \in [Streams -> StrmType] /\ \A t \in Streams : StrmOK(strm'[t])
  BY <1>5, <1>8, CloseOK, StreamStep
<1>10. app' \in [Streams -> AppType]
  <2>1. CreditBack(Opened(s), end) \in Nat
    BY <1>4 DEF CreditBack
  <2>2. [Got(s, b, end) EXCEPT !.credited = @ + CreditBack(Opened(s), end)] \in AppType
    BY <2>1, <1>3, GotType, CreditedType
  <2> QED
    BY <2>2 DEF RecvStreamDiscarded, RecvInv
<1>11. RxOK(rx') /\ refs' \in [Streams -> Int] /\ err' \in Errors
  BY <1>4 DEF RecvStreamDiscarded, RecvInv
<1> QED
  BY <1>9, <1>10, <1>11, Assemble

\* conn_recv_stream on a frame ahead of the delivered offset.
LEMMA StreamReorderedStep ==
    ASSUME RecvInv, NEW s \in Streams, NEW b \in Offsets, NEW end \in Nat,
           NEW fin \in BOOLEAN, RecvStreamReordered(s, b, end, fin)
    PROVE  RecvInv'
<1>1. StrmOK(Opened(s)) /\ RxOK(rx)
  BY OpenedOK DEF RecvInv
<1>2. ~FlowControlViolated(Opened(s), end) /\ ~FinalSizeViolated(Opened(s), end, fin)
  BY DEF RecvStreamReordered, Acceptable
<1> DEFINE st == Recorded(Opened(s), end, fin)
<1>3. /\ StrmOK(st) /\ end \in Offsets /\ end <= st.last_offset
  BY <1>1, <1>2, RecordedOK
<1>4. RxOK(Accounted(Opened(s), end)) /\ "STOP_SENDING" \notin st.flags
  BY <1>1, <1>2, AccountedOK DEF RecvStreamReordered, Recorded, StrmOK, StrmType
<1>5. st.cont_offset < b
  <2>1. PICK off \in Offsets : IsRxOffset(Opened(s), off) /\ off < b
    BY DEF RecvStreamReordered
  <2>2. Opened(s).cont_offset <= off
    BY <2>1, <1>1, RxOffsetBounded
  <2>3. st.cont_offset = Opened(s).cont_offset /\ st.cont_offset \in Offsets
    BY <1>1, <1>3 DEF Recorded, StrmOK, StrmType
  <2> QED
    BY <2>1, <2>2, <2>3, RecvConstants DEF Offsets
<1>6. app' \in [Streams -> AppType] /\ RxOK(rx')
  BY <1>3, <1>4, GotType DEF RecvStreamReordered, RecvInv
<1>7. CASE /\ strm' = [strm EXCEPT ![s] = st]
           /\ err' \in {"none", "INTERNAL"}
           /\ UNCHANGED refs
  <2>1. strm' \in [Streams -> StrmType] /\ \A t \in Streams : StrmOK(strm'[t])
    BY <1>3, <1>7, StreamStep
  <2>2. err' \in Errors /\ refs' \in [Streams -> Int]
    BY <1>7 DEF Errors, RecvInv
  <2> QED
    BY <2>1, <2>2, <1>6, Assemble
<1>8. CASE \E nb, ne \in Offsets :
             /\ PushStores(st.reorder, st.cont_offset, b, end, nb, ne)
             /\ LET R == st.reorder \cup {ByteRange(nb, ne)}
                IN /\ strm' = [strm EXCEPT ![s] = [st EXCEPT !.reorder = R]]
                   /\ IF Cardinality(R) >= MaxFragments
                      THEN err' = "INTERNAL" /\ UNCHANGED refs
                      ELSE UNCHANGED err /\ refs' = [refs EXCEPT ![s] = @ + 1]
  <2>1. PICK nb \in Offsets, ne \in Offsets :
             /\ PushStores(st.reorder, st.cont_offset, b, end, nb, ne)
             /\ strm' = [strm EXCEPT ![s] =
                           [st EXCEPT !.reorder = st.reorder \cup {ByteRange(nb, ne)}]]
             /\ \/ err' = "INTERNAL" /\ UNCHANGED refs
                \/ UNCHANGED err /\ refs' = [refs EXCEPT ![s] = @ + 1]
    BY <1>8
  <2> DEFINE n == [st EXCEPT !.reorder = st.reorder \cup {ByteRange(nb, ne)}]
  <2>6. StrmOK(n)
    BY <2>1, <1>3, <1>4, <1>5, PushedOK
  <2> HIDE DEF n
  <2>7. strm' \in [Streams -> StrmType] /\ \A t \in Streams : StrmOK(strm'[t])
    BY <2>1, <2>6, StreamStep DEF n
  <2>8. err' \in Errors /\ refs' \in [Streams -> Int]
    BY <2>1 DEF Errors, RecvInv
  <2> QED
    BY <2>7, <2>8, <1>6, Assemble
<1> QED
  BY <1>7, <1>8 DEF RecvStreamReordered

\* conn_recv_stream on an empty frame ahead of the delivered offset.
LEMMA StreamEmptyAheadStep ==
    ASSUME RecvInv, NEW s \in Streams, NEW b \in Offsets, NEW fin \in BOOLEAN,
           RecvStreamEmptyAhead(s, b, fin)
    PROVE  RecvInv'
<1>1. StrmOK(Opened(s)) /\ RxOK(rx) /\ b \in Nat
  BY OpenedOK, RecvConstants DEF RecvInv, Offsets
<1>2. ~FlowControlViolated(Opened(s), b) /\ ~FinalSizeViolated(Opened(s), b, fin)
  BY DEF RecvStreamEmptyAhead, Acceptable
<1>3. StrmOK(Recorded(Opened(s), b, fin))
  BY <1>1, <1>2, RecordedOK
<1>4. RxOK(Accounted(Opened(s), b))
  BY <1>1, <1>2, AccountedOK
<1>5. PICK off \in Offsets :
        strm' = [strm EXCEPT ![s] = CloseIfShutRdWr(Recorded(Opened(s), b, fin), off)]
  BY DEF RecvStreamEmptyAhead
<1>6. strm' \in [Streams -> StrmType] /\ \A t \in Streams : StrmOK(strm'[t])
  BY <1>3, <1>5, CloseOK, StreamStep
<1>7. RxOK(rx') /\ err' \in Errors /\ refs' \in [Streams -> Int] /\ app' \in [Streams -> AppType]
  BY <1>4 DEF RecvStreamEmptyAhead, RecvInv
<1> QED
  BY <1>6, <1>7, Assemble

\* conn_recv_reset_stream: the final size is within both limits and everything
\* not delivered is given back.
LEMMA ResetStep ==
    ASSUME RecvInv, NEW s \in Streams, NEW final \in Offsets, RecvResetStream(s, final)
    PROVE  RecvInv'
<1> DEFINE st == Opened(s)
           new == final - st.last_offset
           marked == [st EXCEPT !.last_offset = final,
                                !.flags = @ \cup {"SHUT_RD", "RESET_STREAM_RECVED"}]
<1>1. StrmOK(st) /\ RxOK(rx) /\ MaxVarint \in Nat /\ final \in Nat
  BY OpenedOK, RecvConstants DEF RecvInv, Offsets
<1>2. /\ ~FlowControlViolated(st, final)
      /\ IF "SHUT_RD" \in st.flags THEN st.last_offset = final ELSE st.last_offset <= final
  BY SMTT(40) DEF RecvResetStream
<1>3. PICK off \in Offsets :
        /\ IsRxOffset(st, off)
        /\ strm' = [strm EXCEPT ![s] = CloseIfShutRdWr(marked, off)]
        /\ rx' = [rx EXCEPT !.offset = @ + new,
                    !.unsent_max_offset = Extend(Extend(@, ResetCredit(st, off)), new)]
        /\ refs' = [refs EXCEPT ![s] = @ - ReleasedBy(st, CloseIfShutRdWr(marked, off))]
        /\ app' = [app EXCEPT ![s].credited = @ + ResetCredit(st, off) + new]
  BY DEF RecvResetStream
<1> HIDE DEF st
<1>4. /\ st.last_offset \in Nat /\ st.last_offset <= final /\ final <= st.max_offset
      /\ off <= st.last_offset /\ off \in Nat /\ st \in StrmType
  BY <1>1, <1>2, <1>3, RxOffsetBounded DEF StrmOK, StrmType, FlowControlViolated, Offsets
<1>5. new \in Nat /\ new = NewBytes(st, final)
  BY <1>1, <1>4 DEF NewBytes
<1>6. ResetCredit(st, off) \in Nat
  BY <1>4 DEF ResetCredit
<1>7. StrmOK(marked)
  <2>1. /\ marked \in StrmType /\ marked.last_offset = final
        /\ marked.reorder = st.reorder /\ marked.cont_offset = st.cont_offset
        /\ marked.max_offset = st.max_offset /\ marked.unsent_max_offset = st.unsent_max_offset
        /\ "STOP_SENDING" \in marked.flags => "STOP_SENDING" \in st.flags
    BY <1>4 DEF StrmType, Flags
  <2>2. StorageOK(st.reorder, st.cont_offset, final)
    BY <1>1, <1>4 DEF StrmOK, StorageOK, Entries, Offsets
  <2>3. st.cont_offset <= final
    BY <1>1, <1>4 DEF StrmOK, StrmType, Offsets
  <2> HIDE DEF marked
  <2> QED
    BY <2>1, <2>2, <2>3, <1>1, <1>4 DEF StrmOK
<1>8. StrmOK(CloseIfShutRdWr(marked, off))
  BY <1>7, CloseOK
<1>9. strm' \in [Streams -> StrmType] /\ \A t \in Streams : StrmOK(strm'[t])
  BY <1>3, <1>8, StreamStep
<1>10. refs' \in [Streams -> Int]
  <2>1. ReleasedBy(st, CloseIfShutRdWr(marked, off)) \in Int
    BY <1>1, <1>8, ReleasedInt
  <2> QED
    BY <2>1, <1>3 DEF RecvInv
<1> HIDE DEF marked, new
<1>11. RxOK(rx')
  <2> DEFINE k == rx.offset + new
             u == Extend(Extend(rx.unsent_max_offset, ResetCredit(st, off)), new)
  <2>1. rx \in RxType /\ rx.offset \in Nat /\ rx.max_offset \in Offsets
        /\ rx.unsent_max_offset \in Offsets /\ rx.max_offset <= rx.unsent_max_offset
    BY <1>1 DEF RxOK, RxType
  <2>2. k \in Nat /\ k <= rx.max_offset
    BY <2>1, <1>1, <1>2, <1>5 DEF FlowControlViolated, Offsets
  <2>3. /\ Extend(rx.unsent_max_offset, ResetCredit(st, off)) \in Offsets
        /\ rx.unsent_max_offset <= Extend(rx.unsent_max_offset, ResetCredit(st, off))
    BY <2>1, <1>6, ExtendOK
  <2>4. u \in Offsets /\ Extend(rx.unsent_max_offset, ResetCredit(st, off)) <= u
    BY <2>3, <1>5, ExtendOK
  <2>5. rx.max_offset <= u
    BY <2>1, <2>3, <2>4, <1>1 DEF Offsets
  <2>6. rx' = [rx EXCEPT !.offset = k, !.unsent_max_offset = u]
    BY <1>3
  <2> HIDE DEF k, u
  <2>7. rx' \in RxType /\ rx'.offset = k /\ rx'.max_offset = rx.max_offset
        /\ rx'.unsent_max_offset = u
    BY <2>1, <2>2, <2>4, <2>6 DEF RxType
  <2> QED
    BY <2>2, <2>5, <2>7 DEF RxOK
<1>12. app' \in [Streams -> AppType]
  <2> DEFINE c == app[s].credited + ResetCredit(st, off) + new
  <2>1. app \in [Streams -> AppType] /\ app[s] \in AppType
    BY DEF RecvInv
  <2>2. c \in Nat
    BY <2>1, <1>5, <1>6 DEF AppType
  <2>3. app' = [app EXCEPT ![s] = [app[s] EXCEPT !.credited = c]]
    BY <2>1, <1>3 DEF AppType
  <2> HIDE DEF c
  <2>4. [app[s] EXCEPT !.credited = c] \in AppType
    BY <2>1, <2>2 DEF AppType
  <2> QED
    BY <2>1, <2>3, <2>4
<1>13. err' \in Errors
  BY DEF RecvResetStream, RecvInv
<1> QED
  BY <1>9, <1>10, <1>11, <1>12, <1>13, Assemble

\* ngtcp2_conn_shutdown_stream_read called outside a callback.
LEMMA ShutdownReadStep ==
    ASSUME RecvInv, NEW s \in Streams, ShutdownStreamRead(s)
    PROVE  RecvInv'
<1> DEFINE st == strm[s]
           Noop(off) == \/ st.flags \cap {"STOP_SENDING", "RESET_STREAM_RECVED"} # {}
                        \/ "SHUT_RD" \in st.flags /\ off = st.last_offset
           Back(off) == IF Noop(off) THEN 0 ELSE st.last_offset - off
           St2(off) == IF Noop(off) THEN st ELSE StopReading(st, off)
<1>1. StrmOK(st) /\ RxOK(rx)
  BY DEF RecvInv
<1>2. PICK off \in Offsets :
        /\ IsRxOffset(st, off)
        /\ strm' = [strm EXCEPT ![s] = St2(off)]
        /\ rx' = [rx EXCEPT !.unsent_max_offset = Extend(@, Back(off))]
        /\ refs' = [refs EXCEPT ![s] = @ - ReleasedBy(st, St2(off))]
        /\ app' = [app EXCEPT ![s].credited = @ + Back(off),
                              ![s].shutAt = IF @ = NoOffset THEN app[s].deliv ELSE @]
  BY DEF ShutdownStreamRead
<1> HIDE DEF st
<1>3. off <= st.last_offset /\ off \in Nat /\ st.last_offset \in Nat
  BY <1>1, <1>2, RxOffsetBounded, RecvConstants DEF StrmOK, StrmType, Offsets
<1>4. Back(off) \in Nat
  BY <1>3
<1>5. StrmOK(St2(off))
  BY <1>1, <1>3, StopReadingOK
<1> HIDE DEF St2, Back
<1>6. strm' \in [Streams -> StrmType] /\ \A t \in Streams : StrmOK(strm'[t])
  BY <1>2, <1>5, StreamStep
<1>7. RxOK(rx')
  BY <1>1, <1>2, <1>4, RxExtendOK
<1>8. refs' \in [Streams -> Int]
  <2>1. ReleasedBy(st, St2(off)) \in Int
    BY <1>1, <1>5, ReleasedInt
  <2> QED
    BY <2>1, <1>2 DEF RecvInv
<1>9. app' \in [Streams -> AppType]
  <2> DEFINE c == app[s].credited + Back(off)
             h == IF app[s].shutAt = NoOffset THEN app[s].deliv ELSE app[s].shutAt
  <2>1. app \in [Streams -> AppType] /\ app[s] \in AppType
    BY DEF RecvInv
  <2>2. c \in Nat
    BY <2>1, <1>4 DEF AppType
  <2>3. h \in Offsets \cup {NoOffset}
    BY <2>1 DEF AppType
  <2>4. app' = [app EXCEPT ![s] = [app[s] EXCEPT !.credited = c, !.shutAt = h]]
    BY <2>1, <1>2 DEF AppType
  <2> HIDE DEF c, h
  <2>5. [app[s] EXCEPT !.credited = c, !.shutAt = h] \in AppType
    BY <2>1, <2>2, <2>3 DEF AppType
  <2> QED
    BY <2>1, <2>4, <2>5
<1>10. err' \in Errors
  BY DEF ShutdownStreamRead, RecvInv
<1> QED
  BY <1>6, <1>7, <1>8, <1>9, <1>10, Assemble

\* ngtcp2_conn_extend_max_offset and ngtcp2_conn_extend_max_stream_offset.
LEMMA ExtendStep ==
    ASSUME RecvInv, NEW s \in Streams, NEW n \in 1 .. MaxVarint,
           ExtendMaxOffset(s, n) \/ ExtendMaxStreamOffset(s, n)
    PROVE  RecvInv'
<1>0. n \in Nat /\ MaxVarint \in Nat /\ app \in [Streams -> AppType] /\ app[s] \in AppType
  BY RecvConstants DEF RecvInv
<1>1. CASE ExtendMaxOffset(s, n)
  <2>1. RxOK(rx')
    BY <1>0, <1>1, RxExtendOK DEF ExtendMaxOffset, RecvInv
  <2>2. app' \in [Streams -> AppType]
    <3> DEFINE c == app[s].used + n
    <3>1. c \in Nat
      BY <1>0 DEF AppType
    <3>2. app' = [app EXCEPT ![s] = [app[s] EXCEPT !.used = c]]
      BY <1>0, <1>1 DEF ExtendMaxOffset, AppType
    <3> HIDE DEF c
    <3>3. [app[s] EXCEPT !.used = c] \in AppType
      BY <1>0, <3>1 DEF AppType
    <3> QED
      BY <1>0, <3>2, <3>3
  <2>3. /\ strm' \in [Streams -> StrmType] /\ \A t \in Streams : StrmOK(strm'[t])
        /\ err' \in Errors /\ refs' \in [Streams -> Int]
    BY <1>1 DEF ExtendMaxOffset, RecvInv
  <2> QED
    BY <2>1, <2>2, <2>3, Assemble
<1>2. CASE ExtendMaxStreamOffset(s, n)
  <2> DEFINE u == Extend(strm[s].unsent_max_offset, n)
             st == [strm[s] EXCEPT !.unsent_max_offset = u]
  <2>1. PICK q \in BOOLEAN : strm' = [strm EXCEPT ![s] = [st EXCEPT !.queued = q]]
    <3> DEFINE q == \/ st.queued
                    \/ st.flags \cap {"SHUT_RD", "STOP_SENDING"} = {} /\ ShouldSendMax(st)
    <3>1. strm' = [strm EXCEPT ![s] = [st EXCEPT !.queued = q]]
      BY <1>2 DEF ExtendMaxStreamOffset
    <3>2. q \in BOOLEAN
      OBVIOUS
    <3> QED
      BY <3>1, <3>2
  <2>2. StrmOK(strm[s]) /\ strm[s] \in StrmType
    BY DEF RecvInv, StrmOK
  <2>3. u \in Offsets /\ strm[s].unsent_max_offset <= u
    BY <1>0, <2>2, ExtendOK DEF StrmType
  <2> DEFINE m == [st EXCEPT !.queued = q]
  <2> HIDE DEF u
  <2>4. /\ m \in StrmType
        /\ m.reorder = strm[s].reorder /\ m.cont_offset = strm[s].cont_offset
        /\ m.last_offset = strm[s].last_offset /\ m.max_offset = strm[s].max_offset
        /\ m.unsent_max_offset = u /\ m.flags = strm[s].flags
    BY <2>2, <2>3 DEF StrmType
  <2> HIDE DEF m
  <2>5. strm[s].max_offset <= u
    BY <2>2, <2>3, <1>0 DEF StrmOK, StrmType, Offsets
  <2>6. StrmOK(m)
    BY <2>2, <2>4, <2>5 DEF StrmOK
  <2>7. strm' \in [Streams -> StrmType] /\ \A t \in Streams : StrmOK(strm'[t])
    BY <2>1, <2>6, StreamStep DEF m
  <2>8. app' \in [Streams -> AppType]
    <3> DEFINE c == app[s].usedStrm + n
    <3>1. c \in Nat
      BY <1>0 DEF AppType
    <3>2. app' = [app EXCEPT ![s] = [app[s] EXCEPT !.usedStrm = c]]
      BY <1>0, <1>2 DEF ExtendMaxStreamOffset, AppType
    <3> HIDE DEF c
    <3>3. [app[s] EXCEPT !.usedStrm = c] \in AppType
      BY <1>0, <3>1 DEF AppType
    <3> QED
      BY <1>0, <3>2, <3>3
  <2>9. RxOK(rx') /\ err' \in Errors /\ refs' \in [Streams -> Int]
    BY <1>2 DEF ExtendMaxStreamOffset, RecvInv
  <2> QED
    BY SMTT(40), <2>7, <2>8, <2>9, Assemble
<1> QED
  BY <1>1, <1>2

\* The send half completes; the stream closes if the receive half is done.
LEMMA SendHalfDoneStep ==
    ASSUME RecvInv, NEW s \in Streams, SendHalfDone(s)
    PROVE  RecvInv'
<1> DEFINE n == [strm[s] EXCEPT !.flags = @ \cup {"SHUT_WR", "FIN_ACKED"}]
<1>1. PICK off \in Offsets :
        /\ strm' = [strm EXCEPT ![s] = CloseIfShutRdWr(n, off)]
        /\ refs' = [refs EXCEPT ![s] = @ - ReleasedBy(strm[s], CloseIfShutRdWr(n, off))]
  BY DEF SendHalfDone
<1>2. StrmOK(strm[s])
  BY DEF RecvInv
<1>3. StrmOK(n)
  <2>1. /\ n \in StrmType
        /\ n.reorder = strm[s].reorder /\ n.cont_offset = strm[s].cont_offset
        /\ n.last_offset = strm[s].last_offset /\ n.max_offset = strm[s].max_offset
        /\ n.unsent_max_offset = strm[s].unsent_max_offset
        /\ "STOP_SENDING" \in n.flags => "STOP_SENDING" \in strm[s].flags
    BY <1>2 DEF StrmOK, StrmType, Flags
  <2> HIDE DEF n
  <2> QED
    BY <2>1, <1>2 DEF StrmOK
<1> HIDE DEF n
<1>4. StrmOK(CloseIfShutRdWr(n, off))
  BY <1>3, CloseOK
<1>5. strm' \in [Streams -> StrmType] /\ \A t \in Streams : StrmOK(strm'[t])
  BY <1>1, <1>4, StreamStep
<1>6. ReleasedBy(strm[s], CloseIfShutRdWr(n, off)) \in Int
  BY <1>2, <1>4, ReleasedInt
<1>7. RxOK(rx') /\ err' \in Errors /\ refs' \in [Streams -> Int] /\ app' \in [Streams -> AppType]
  BY <1>1, <1>6 DEF SendHalfDone, RecvInv
<1> QED
  BY <1>5, <1>7, Assemble

\* MAX_DATA, MAX_STREAM_DATA and STOP_SENDING leaving in conn_write_pkt.
LEMMA WriteStep ==
    ASSUME RecvInv, NEW fast \in BOOLEAN,
           WriteMaxData(fast) \/ \E s \in Streams : WriteStream(s, fast)
    PROVE  RecvInv'
<1>1. CASE WriteMaxData(fast)
  <2>1. RxOK(rx')
    BY <1>1, RxAdvertisedOK DEF WriteMaxData, RecvInv
  <2>2. /\ strm' \in [Streams -> StrmType] /\ \A t \in Streams : StrmOK(strm'[t])
        /\ err' \in Errors /\ refs' \in [Streams -> Int] /\ app' \in [Streams -> AppType]
    BY <1>1 DEF WriteMaxData, RecvInv
  <2> QED
    BY <2>1, <2>2, Assemble
<1>2. ASSUME NEW s \in Streams, WriteStream(s, fast) PROVE RecvInv'
  <2> DEFINE st == [strm[s] EXCEPT !.flags = @ \ {"SEND_STOP_SENDING"}, !.queued = FALSE]
  <2>1. StrmOK(strm[s])
    BY DEF RecvInv
  <2>2. StrmOK(st)
    <3>1. /\ st \in StrmType
          /\ st.reorder = strm[s].reorder /\ st.cont_offset = strm[s].cont_offset
          /\ st.last_offset = strm[s].last_offset /\ st.max_offset = strm[s].max_offset
          /\ st.unsent_max_offset = strm[s].unsent_max_offset
          /\ "STOP_SENDING" \in st.flags => "STOP_SENDING" \in strm[s].flags
      BY <2>1 DEF StrmOK, StrmType, Flags
    <3> HIDE DEF st
    <3> QED
      BY <3>1, <2>1 DEF StrmOK
  <2>3. \/ strm' = [strm EXCEPT ![s] = st]
        \/ strm' = [strm EXCEPT ![s] = Advertised(st, MaxStreamWindow, fast)]
    BY <1>2 DEF WriteStream
  <2> HIDE DEF st
  <2>4. StrmOK(Advertised(st, MaxStreamWindow, fast))
    BY <2>2, StrmAdvertisedOK
  <2>5. strm' \in [Streams -> StrmType] /\ \A t \in Streams : StrmOK(strm'[t])
    BY SMTT(40), <2>2, <2>3, <2>4, StreamStep
  <2>6. RxOK(rx') /\ err' \in Errors /\ refs' \in [Streams -> Int] /\ app' \in [Streams -> AppType]
    BY <1>2 DEF WriteStream, RecvInv
  <2> QED
    BY <2>5, <2>6, Assemble
<1> QED
  BY <1>1, <1>2

\* ngtcp2_conn_del releases all that is still stored.
LEMMA ConnDelStep ==
    ASSUME RecvInv, ConnDel
    PROVE  RecvInv'
<1>1. ASSUME NEW s \in Streams PROVE StrmOK(strm'[s]) /\ strm'[s] \in StrmType
  <2>1. StrmOK(strm[s])
    BY DEF RecvInv
  <2>2. strm'[s] = [strm[s] EXCEPT !.state = "closed", !.reorder = {}, !.queued = FALSE]
    BY DEF ConnDel
  <2> QED
    BY ZenonT(60), <2>1, <2>2 DEF StrmOK, StrmType, StorageOK, Entries, WellFormed
<1>2. strm' \in [Streams -> StrmType]
  BY <1>1 DEF ConnDel
<1>3. refs' \in [Streams -> Int]
  <2>1. \A s \in Streams : Cardinality(strm[s].reorder) \in Nat /\ refs[s] \in Int
    BY StorageFinite DEF RecvInv, StrmOK, StorageOK, Entries
  <2> DEFINE left == [s \in Streams |-> refs[s] - Cardinality(strm[s].reorder)]
  <2>2. \A s \in Streams : refs[s] - Cardinality(strm[s].reorder) \in Int
    BY <2>1
  <2>3. left \in [Streams -> Int]
    BY SMTT(40), <2>2
  <2>4. refs' = left
    BY ZenonT(60) DEF ConnDel
  <2> QED
    BY <2>3, <2>4
<1>4. RxOK(rx') /\ err' \in Errors /\ app' \in [Streams -> AppType]
  BY DEF ConnDel, RecvInv, Errors
<1> QED
  BY <1>1, <1>2, <1>3, <1>4, Assemble

-----------------------------------------------------------------------------
(* The invariant and what it gives *)

\* A connection with its transport parameters committed satisfies the invariant.
LEMMA InitHolds == Init => RecvInv
<1> SUFFICES ASSUME Init PROVE RecvInv
  OBVIOUS
<1>1. ASSUME NEW s \in Streams PROVE StrmOK(strm[s]) /\ strm[s] \in StrmType
  <2>1. StrmOK(InitStream(s))
    BY InitStreamOK
  <2>2. strm[s] = [InitStream(s) EXCEPT !.state = "none"]
    BY DEF Init
  <2> QED
    BY <2>1, <2>2 DEF StrmOK, StrmType
<1>2. strm \in [Streams -> StrmType]
  BY <1>1 DEF Init
<1>3. RxOK(rx)
  BY RecvConstants DEF Init, RxOK, RxType, Offsets
<1>4. app \in [Streams -> AppType]
  BY RecvConstants DEF Init, AppType, Offsets
<1>5. err \in Errors /\ refs \in [Streams -> Int]
  BY DEF Init, Errors
<1> QED
  BY <1>1, <1>2, <1>3, <1>4, <1>5 DEF RecvInv

\* Every step of the receive side preserves the invariant.
LEMMA StepHolds == RecvInv /\ [Next]_vars => RecvInv'
<1> SUFFICES ASSUME RecvInv, [Next]_vars PROVE RecvInv'
  OBVIOUS
<1>1. ASSUME NEW s \in Streams, RecvStream(s) PROVE RecvInv'
  <2>1. PICK b \in Offsets, len \in 0 .. MaxFrameLen, fin \in BOOLEAN :
           \/ RecvStreamError(s, b + len, fin)
           \/ RecvStreamIgnored(s, b, b + len, fin)
           \/ \E stop \in Offsets \cup {NoOffset} :
                RecvStreamInOrder(s, b, b + len, fin, stop)
           \/ RecvStreamDiscarded(s, b, b + len, fin)
           \/ RecvStreamReordered(s, b, b + len, fin)
           \/ RecvStreamEmptyAhead(s, b, fin)
    BY <1>1 DEF RecvStream
  <2> DEFINE end == b + len
  <2>2. end \in Nat /\ b <= end
    BY RecvConstants DEF Offsets
  <2>3. \/ RecvStreamError(s, end, fin)
        \/ RecvStreamIgnored(s, b, end, fin)
        \/ \E stop \in Offsets \cup {NoOffset} : RecvStreamInOrder(s, b, end, fin, stop)
        \/ RecvStreamDiscarded(s, b, end, fin)
        \/ RecvStreamReordered(s, b, end, fin)
        \/ RecvStreamEmptyAhead(s, b, fin)
    BY <2>1
  <2> HIDE DEF end
  <2> QED
    BY <2>2, <2>3, StreamErrorStep, StreamIgnoredStep, StreamInOrderStep,
       StreamDiscardedStep, StreamReorderedStep, StreamEmptyAheadStep
<1>2. ASSUME NEW s \in Streams, RecvOnClosed(s) PROVE RecvInv'
  BY <1>2 DEF RecvOnClosed, RecvInv, Errors
<1>3. ASSUME NEW s \in Streams, NEW final \in Offsets, RecvResetError(s, final)
      PROVE  RecvInv'
  BY <1>3 DEF RecvResetError, RecvInv, Errors
<1>4. CASE UNCHANGED vars
  BY <1>4 DEF vars, RecvInv
<1> QED
  BY <1>1, <1>2, <1>3, <1>4, ResetStep, ShutdownReadStep, ExtendStep,
     SendHalfDoneStep, WriteStep, ConnDelStep DEF Next

\* The inductive invariant holds in every reachable state.
THEOREM Inductive == Spec => []RecvInv
BY InitHolds, StepHolds, PTL DEF Spec

\* Every field of conn->rx, of the streams and of the history keeps its type;
\* in particular no offset ever leaves 0 .. NGTCP2_MAX_VARINT.
THEOREM TypeCorrect == Spec => []TypeOK
<1>1. RecvInv => TypeOK
  BY DEF RecvInv, RxOK, TypeOK, StrmType, RxType, AppType
<1> QED
  BY <1>1, Inductive, PTL

\* The reordering storage is always sorted and disjoint, above the delivered
\* offset and below the last one, so the assertions of ngtcp2_reorder_data_at,
\* ngtcp2_reorder_pop and conn_emit_pending_stream_data cannot fail.
THEOREM StorageAlwaysSound == Spec => []StorageSound
<1>1. RecvInv => StorageSound
  BY DEF RecvInv, StrmOK, StorageOK, Entries, StorageSound
<1> QED
  BY <1>1, Inductive, PTL

\* No STREAM or RESET_STREAM frame gets past an advertised limit and no unsigned
\* difference of the flow-control code wraps.
THEOREM LimitsHold == Spec => []WithinLimits
<1>1. RecvInv => WithinLimits
  BY DEF RecvInv, StrmOK, RxOK, WithinLimits
<1> QED
  BY <1>1, Inductive, PTL
=============================================================================
