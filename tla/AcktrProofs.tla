---------------------------- MODULE AcktrProofs ----------------------------
(***************************************************************************)
(* What the tracker of received packets promises, for every range of       *)
(* packet numbers and every limit on entries, gaps and ring: the ranges    *)
(* are sound (RangesSound), eviction takes the oldest (EvictsOldest), and  *)
(* an ACK is pending exactly for the packets that wait (PendingSound).     *)
(***************************************************************************)
EXTENDS Acktr, SequenceTheorems, SetSums

EntryType == [pkt_num : PktNums, len : Nat \ {0}, tstamp : PktNums]
SlotType == [pkt_num : 1 .. MaxAcks, largest_ack : PktNums]
FlagType == [ active : BOOLEAN, immediate : BOOLEAN, cancel : BOOLEAN, rx_npkt : Nat,
              max_pkt_num : -1 .. MaxPktNum, max_pkt_ts : -1 .. MaxPktNum ]

\* Separate ranges of packets, with a packet missing between any two.
Apart(E) ==
    \A e, f \in E : e.pkt_num >= f.pkt_num /\ e # f => e.pkt_num - e.len > f.pkt_num

EntsOK(E) ==
    E \subseteq EntryType /\ IsFiniteSet(E) /\ Apart(E) /\ \A e \in E : e.tstamp = e.pkt_num

RingInOrder(q) ==
    \A i, j \in DOMAIN q : i < j =>
        q[i].pkt_num > q[j].pkt_num /\ q[i].largest_ack >= q[j].largest_ack

\* The ring speaks of frames that were sent, about packets received by then.
RingSound(q, n, max) ==
    /\ q \in Seq(SlotType) /\ RingInOrder(q)
    /\ \A i \in DOMAIN q : q[i].pkt_num <= n /\ q[i].largest_ack <= max

RingOK(q, n, max) == RingSound(q, n, max) /\ Len(q) <= AckRing

LogOK ==
    log \in [ received : SUBSET PktNums, pending : SUBSET PktNums, base : -1 .. MaxPktNum,
              evicted : SUBSET PktNums, sent : Seq(Range(log.sent)), confirmed : SUBSET Nat ]

\* Nothing received can be received again; the entries hold received packets; the
\* largest one received is known.
ReceivedOK ==
    /\ pngap \cap log.received = {}
    /\ Covered(ents) \subseteq log.received
    /\ IF log.received = {} THEN ack.max_pkt_num = -1
       ELSE ack.max_pkt_num \in log.received /\ \A p \in log.received : p <= ack.max_pkt_num

\* The packets pending are among those received, up to the largest ack-eliciting
\* one; with none pending that one is the one the last ACK frame was sent at.
WaitingOK ==
    /\ log.pending \subseteq log.received
    /\ elic # -1 => elic \in log.received
    /\ \A p \in log.pending : p <= elic
    /\ log.base <= elic
    /\ log.pending = {} => log.base = elic

TypesOK ==
    /\ pngap \subseteq PktNums /\ Cardinality(GapStarts(pngap)) <= MaxGaps
    /\ elic \in -1 .. MaxPktNum
    /\ EntsOK(ents) /\ Cardinality(ents) <= MaxEnt
    /\ RingOK(acks, Len(log.sent), ack.max_pkt_num)
    /\ ack \in FlagType /\ due \in BOOLEAN /\ LogOK

AcktrInv == TypesOK /\ ReceivedOK /\ WaitingOK /\ PendingSound

-----------------------------------------------------------------------------
(* Operators of the library *)

\* The empty sum (no entry below the number in ngtcp2_acktr_add).
LEMMA SumOfNone == SumSet({}) = 0
<1> DEFINE Is(h) == h = [T \in SUBSET {} |->
                          IF T = {} THEN 0
                          ELSE LET x == CHOOSE x \in T : TRUE IN x + h[T \ {x}]]
           iter == CHOOSE h : Is(h)
           f == [T \in SUBSET {} |-> 0]
<1>1. SumSet({}) = iter[{}]
  BY DEF SumSet, FoldSet, MapThenFoldSet
<1>2. Is(f)
  OBVIOUS
<1>3. Is(iter)
  <2> HIDE DEF Is, f
  <2> QED
    BY <1>2
<1> HIDE DEF iter
<1>4. iter[{}] = 0
  BY <1>3
<1> QED
  BY <1>1, <1>4

\* The sum over one number (the entry below the number in ngtcp2_acktr_add).
LEMMA SumOfOne ==
    ASSUME NEW n \in Int
    PROVE  SumSet({n}) = n
<1> DEFINE Is(h) == h = [T \in SUBSET {n} |->
                          IF T = {} THEN 0
                          ELSE LET x == CHOOSE x \in T : TRUE IN x + h[T \ {x}]]
           iter == CHOOSE h : Is(h)
           f == [T \in SUBSET {n} |-> IF T = {} THEN 0 ELSE n]
           c(T) == CHOOSE x \in T : TRUE
<1>1. SumSet({n}) = iter[{n}]
  BY DEF SumSet, FoldSet, MapThenFoldSet
<1>2. Is(f)
  <2>1. ASSUME NEW T \in SUBSET {n}, T # {}
        PROVE  f[T] = c(T) + f[T \ {c(T)}]
    <3>1. T = {n}
      BY <2>1, Zenon
    <3>2. c(T) = n
      BY <3>1
    <3>3. T \ {c(T)} = {}
      BY <3>1, <3>2
    <3>4. f[T] = n /\ f[{}] = 0
      BY <3>1
    <3>5. n = n + 0
      OBVIOUS
    <3> HIDE DEF f, c
    <3>6. f[T \ {c(T)}] = 0
      BY <3>3, <3>4
    <3> QED
      BY <3>2, <3>4, <3>5, <3>6, Zenon
  <2>2. \A T \in SUBSET {n} : f[T] = IF T = {} THEN 0 ELSE c(T) + f[T \ {c(T)}]
    <3> TAKE T \in SUBSET {n}
    <3>1. CASE T = {}
      BY <3>1
    <3>2. CASE T # {}
      <4> HIDE DEF f, c
      <4> QED
        BY <2>1, <3>2, Zenon
    <3> QED
      BY <3>1, <3>2
  <2>3. f = [T \in SUBSET {n} |-> f[T]]
    OBVIOUS
  <2> HIDE DEF f
  <2> QED
    BY <2>2, <2>3, Zenon
<1>3. Is(iter)
  <2> HIDE DEF Is, f
  <2> QED
    BY <1>2
<1> HIDE DEF iter
<1>4. iter[{n}] = c({n}) + iter[{n} \ {c({n})}] /\ iter[{}] = 0
  BY <1>3, Zenon
<1>5. c({n}) = n
  OBVIOUS
<1> HIDE DEF c
<1>6. {n} \ {c({n})} = {}
  BY <1>5
<1> QED
  BY <1>1, <1>4, <1>5, <1>6

\* The least of a set of numbers, as the library chooses it.
LEMMA MinOf ==
    ASSUME NEW T, T \subseteq Nat, T # {}
    PROVE  Min(T) \in T /\ Min(T) \in Nat /\ \A y \in T : Min(T) <= y
<1>1. \E x \in T : \A y \in T : x <= y
  BY LeastElement, Zenon
<1>2. Min(T) \in T /\ \A y \in T : Min(T) <= y
  BY <1>1, Zenon DEF Min
<1> QED
  BY <1>2, Zenon

\* The greater of two numbers.
LEMMA MaxOfTwo ==
    ASSUME NEW a \in Int, NEW b \in Int
    PROVE  Max({a, b}) = IF a >= b THEN a ELSE b
<1> DEFINE m == IF a >= b THEN a ELSE b
<1>1. m \in {a, b} /\ \A y \in {a, b} : m >= y
  OBVIOUS
<1>2. Max({a, b}) \in {a, b} /\ \A y \in {a, b} : Max({a, b}) >= y
  BY <1>1 DEF Max
<1> QED
  BY <1>2

\* The smaller of two numbers.
LEMMA MinOfTwo ==
    ASSUME NEW a \in Nat, NEW b \in Nat
    PROVE  Min({a, b}) = IF a <= b THEN a ELSE b
<1>1. {a, b} \subseteq Nat /\ {a, b} # {}
  OBVIOUS
<1>2. Min({a, b}) \in {a, b} /\ \A y \in {a, b} : Min({a, b}) <= y
  BY <1>1, MinOf
<1> QED
  BY <1>2

-----------------------------------------------------------------------------
(* The ranges to be acknowledged *)

\* Two entries of a sound list have different numbers.
LEMMA NumbersDiffer ==
    ASSUME NEW E, EntsOK(E), NEW e \in E, NEW f \in E, e.pkt_num = f.pkt_num
    PROVE  e = f
<1>1. e \in EntryType /\ f \in EntryType /\ Apart(E)
  BY DEF EntsOK
<1>2. e.pkt_num \in Int /\ e.len \in Nat \ {0}
  BY <1>1, AcktrConstants DEF EntryType, PktNums
<1>3. e # f => e.pkt_num - e.len > f.pkt_num
  BY <1>1, <1>2 DEF Apart
<1> QED
  BY <1>2, <1>3

\* The entry above p that p extends.
UpOf(E, p) == {e \in Above(E, p) : e.pkt_num = p + e.len}
\* The entry below p that p extends.
DownOf(E, p) == {e \in Below(E, p) : e.pkt_num + 1 = p}

\* The entry that ngtcp2_acktr_add leaves around p.
NewEntry(E, p) ==
    IF UpOf(E, p) # {}
    THEN LET u == CHOOSE u \in UpOf(E, p) : TRUE
         IN  Entry(u.pkt_num, u.len + SumSet({e.len : e \in DownOf(E, p)}) + 1, u.tstamp)
    ELSE Entry(p, SumSet({e.len : e \in DownOf(E, p)}) + 1, p)

\* At most one entry is extended upwards and one downwards.
LEMMA Neighbours ==
    ASSUME NEW E, EntsOK(E), NEW p \in PktNums
    PROVE  /\ \A e, f \in UpOf(E, p) : e = f
           /\ \A e, f \in DownOf(E, p) : e = f
           /\ UpOf(E, p) \subseteq E /\ DownOf(E, p) \subseteq E
<1>1. UpOf(E, p) \subseteq E /\ DownOf(E, p) \subseteq E
  BY DEF UpOf, DownOf, Above, Below
<1>2. ASSUME NEW e \in UpOf(E, p), NEW f \in UpOf(E, p)
      PROVE  e = f
  <2>1. e \in EntryType /\ f \in EntryType
    BY <1>1, <1>2 DEF EntsOK
  <2>2. e.pkt_num \in Int /\ f.pkt_num \in Int
    BY <2>1, AcktrConstants DEF EntryType, PktNums
  <2>3. e.pkt_num <= f.pkt_num /\ f.pkt_num <= e.pkt_num
    BY <1>2 DEF UpOf, Above
  <2>4. e.pkt_num = f.pkt_num
    BY <2>2, <2>3
  <2> QED
    BY <1>1, <1>2, <2>4, NumbersDiffer
<1>3. ASSUME NEW e \in DownOf(E, p), NEW f \in DownOf(E, p)
      PROVE  e = f
  <2>1. e \in EntryType /\ f \in EntryType
    BY <1>1, <1>3 DEF EntsOK
  <2>2. e.pkt_num \in Int /\ f.pkt_num \in Int
    BY <2>1, AcktrConstants DEF EntryType, PktNums
  <2>3. e.pkt_num <= f.pkt_num /\ f.pkt_num <= e.pkt_num
    BY <1>3 DEF DownOf, Below
  <2>4. e.pkt_num = f.pkt_num
    BY <2>2, <2>3
  <2> QED
    BY <1>1, <1>3, <2>4, NumbersDiffer
<1> QED
  BY <1>1, <1>2, <1>3

\* An entry that ends just below p, or begins just above it, is the nearest one.
LEMMA Nearest ==
    ASSUME NEW E, EntsOK(E), NEW p \in PktNums, p \notin Covered(E), NEW e \in E
    PROVE  /\ e.pkt_num # p
           /\ e.pkt_num > p => e.pkt_num - e.len >= p
           /\ e.pkt_num = p + e.len => e \in UpOf(E, p)
           /\ e.pkt_num + 1 = p => e \in DownOf(E, p)
<1>1. e \in EntryType
  BY DEF EntsOK
<1>2. e.pkt_num \in Int /\ e.len \in Nat \ {0} /\ p \in Int
  BY <1>1, AcktrConstants DEF EntryType, PktNums
<1>3. p \notin Span(e)
  BY DEF Covered
<1>4. ~(e.pkt_num - e.len + 1 <= p /\ p <= e.pkt_num)
  BY <1>2, <1>3 DEF Span
<1>5. e.pkt_num # p /\ (e.pkt_num > p => e.pkt_num - e.len >= p)
  BY <1>2, <1>4
<1>6. ASSUME NEW f \in E
      PROVE  /\ f.pkt_num \in Int /\ f.len \in Nat \ {0}
             /\ f.pkt_num # p
             /\ f.pkt_num > p => f.pkt_num - f.len >= p
             /\ e # f /\ e.pkt_num >= f.pkt_num => e.pkt_num - e.len > f.pkt_num
             /\ e # f /\ f.pkt_num >= e.pkt_num => f.pkt_num - f.len > e.pkt_num
  <2>1. f \in EntryType
    BY DEF EntsOK
  <2>2. f.pkt_num \in Int /\ f.len \in Nat \ {0}
    BY <2>1, AcktrConstants DEF EntryType, PktNums
  <2>3. p \notin Span(f)
    BY DEF Covered
  <2>4. ~(f.pkt_num - f.len + 1 <= p /\ p <= f.pkt_num)
    BY <2>2, <2>3, <1>2 DEF Span
  <2>5. f.pkt_num # p /\ (f.pkt_num > p => f.pkt_num - f.len >= p)
    BY <2>2, <2>4, <1>2
  <2> QED
    BY <2>2, <2>5 DEF EntsOK, Apart
<1>7. ASSUME e.pkt_num = p + e.len
      PROVE  e \in UpOf(E, p)
  <2>1. e.pkt_num > p
    BY <1>2, <1>7
  <2>2. \A f \in E : f.pkt_num > p => e.pkt_num <= f.pkt_num
    BY <1>2, <1>6, <1>7
  <2> QED
    BY <2>1, <2>2, <1>7 DEF UpOf, Above
<1>8. ASSUME e.pkt_num + 1 = p
      PROVE  e \in DownOf(E, p)
  <2>1. e.pkt_num <= p
    BY <1>2, <1>8
  <2>2. \A f \in E : f.pkt_num <= p => f.pkt_num <= e.pkt_num
    BY <1>2, <1>6, <1>8
  <2> QED
    BY <2>1, <2>2, <1>8 DEF DownOf, Below
<1> QED
  BY <1>5, <1>7, <1>8

\* The number of packets of the entry below p that p extends.
LEMMA DownLength ==
    ASSUME NEW E, EntsOK(E), NEW p \in PktNums
    PROVE  LET n == SumSet({e.len : e \in DownOf(E, p)})
           IN  /\ n \in Nat
               /\ DownOf(E, p) = {} => n = 0
               /\ \A d \in DownOf(E, p) : n = d.len
<1> DEFINE L == {e.len : e \in DownOf(E, p)}
<1>1. CASE DownOf(E, p) = {}
  <2>1. L = {}
    BY <1>1
  <2>2. SumSet(L) = 0
    BY <2>1, SumOfNone
  <2> QED
    BY <1>1, <2>2
<1>2. ASSUME NEW d \in DownOf(E, p)
      PROVE  SumSet(L) = d.len /\ d.len \in Nat
  <2>1. L = {d.len}
    BY <1>2, Neighbours
  <2>2. d \in EntryType
    BY <1>2, Neighbours DEF EntsOK
  <2>3. d.len \in Nat /\ d.len \in Int
    BY <2>2 DEF EntryType
  <2> QED
    BY <2>1, <2>3, SumOfOne
<1> QED
  BY <1>1, <1>2

\* What ngtcp2_acktr_add does to the entries: the neighbours of p give way to one.
LEMMA AddedIs ==
    ASSUME NEW E, EntsOK(E), NEW p \in PktNums
    PROVE  Added(E, p) = (E \ (UpOf(E, p) \cup DownOf(E, p))) \cup {NewEntry(E, p)}
<1> DEFINE n == SumSet({e.len : e \in DownOf(E, p)})
<1>1. Added(E, p) = (E \ (UpOf(E, p) \cup DownOf(E, p)))
          \cup IF UpOf(E, p) # {} THEN {[e EXCEPT !.len = @ + n + 1] : e \in UpOf(E, p)}
               ELSE {Entry(p, n + 1, p)}
  BY DEF Added, UpOf, DownOf
<1>2. CASE UpOf(E, p) = {}
  <2>1. NewEntry(E, p) = Entry(p, n + 1, p)
    BY <1>2 DEF NewEntry
  <2> HIDE DEF n
  <2> QED
    BY <1>1, <1>2, <2>1
<1>3. ASSUME NEW u \in UpOf(E, p)
      PROVE  NewEntry(E, p) = [u EXCEPT !.len = @ + n + 1]
             /\ {[e EXCEPT !.len = @ + n + 1] : e \in UpOf(E, p)}
                  = {[u EXCEPT !.len = @ + n + 1]}
  <2>1. u = CHOOSE v \in UpOf(E, p) : TRUE
    BY <1>3, Neighbours
  <2>2. u \in EntryType
    BY <1>3, Neighbours DEF EntsOK
  <2>3. NewEntry(E, p) = Entry(u.pkt_num, u.len + n + 1, u.tstamp)
    BY <1>3, <2>1 DEF NewEntry
  <2>4. [u EXCEPT !.len = @ + n + 1] = Entry(u.pkt_num, u.len + n + 1, u.tstamp)
    <3> HIDE DEF n
    <3> QED
      BY <2>2 DEF EntryType, Entry
  <2>5. \A e \in UpOf(E, p) : e = u
    BY <1>3, Neighbours
  <2> HIDE DEF n
  <2> QED
    BY <1>3, <2>3, <2>4, <2>5
<1> HIDE DEF n
<1> QED
  BY <1>1, <1>2, <1>3

\* The entry around p: it counts down from the entry above, or from p, through p
\* and through the entry below.
LEMMA NewEntryIs ==
    ASSUME NEW E, EntsOK(E), NEW p \in PktNums, p \notin Covered(E)
    PROVE  LET N == NewEntry(E, p)
               n == SumSet({e.len : e \in DownOf(E, p)})
           IN  /\ N \in EntryType /\ N.tstamp = N.pkt_num
               /\ N.pkt_num >= p /\ N.pkt_num - N.len = p - 1 - n
               /\ UpOf(E, p) = {} => N.pkt_num = p
               /\ \A u \in UpOf(E, p) : N.pkt_num = u.pkt_num
<1> DEFINE n == SumSet({e.len : e \in DownOf(E, p)})
           N == NewEntry(E, p)
<1>1. n \in Nat
  BY DownLength
<1>2. p \in Nat
  BY AcktrConstants DEF PktNums
<1>3. ASSUME UpOf(E, p) = {}
      PROVE  /\ N \in EntryType /\ N.tstamp = N.pkt_num
             /\ N.pkt_num >= p /\ N.pkt_num - N.len = p - 1 - n
             /\ N.pkt_num = p
  <2>1. N = Entry(p, n + 1, p)
    BY <1>3 DEF NewEntry
  <2> HIDE DEF n, N
  <2>2. N.pkt_num = p /\ N.len = n + 1 /\ N.tstamp = p
    BY <2>1 DEF Entry
  <2>3. N \in EntryType
    BY <2>1, <1>1 DEF Entry, EntryType
  <2> QED
    BY <1>1, <1>2, <1>3, <2>2, <2>3
<1>4. ASSUME NEW u \in UpOf(E, p)
      PROVE  /\ N \in EntryType /\ N.tstamp = N.pkt_num
             /\ N.pkt_num >= p /\ N.pkt_num - N.len = p - 1 - n
             /\ N.pkt_num = u.pkt_num
  <2>1. u = CHOOSE v \in UpOf(E, p) : TRUE
    BY <1>4, Neighbours
  <2>2. u \in EntryType /\ u.tstamp = u.pkt_num /\ u.pkt_num = p + u.len
    BY <1>4, Neighbours DEF EntsOK, UpOf
  <2>3. N = Entry(u.pkt_num, u.len + n + 1, u.tstamp)
    BY <1>4, <2>1 DEF NewEntry
  <2>4. u.pkt_num \in PktNums /\ u.pkt_num \in Int /\ u.len \in Nat
    BY <2>2, AcktrConstants DEF EntryType, PktNums
  <2> HIDE DEF n, N
  <2>5. N.pkt_num = u.pkt_num /\ N.len = u.len + n + 1 /\ N.tstamp = u.pkt_num
    BY <2>2, <2>3 DEF Entry
  <2>6. u.len + n + 1 \in Nat \ {0}
    BY <1>1, <2>4
  <2>7. N \in EntryType
    BY <2>2, <2>3, <2>4, <2>6, SMTT(60) DEF Entry, EntryType
  <2> QED
    BY <1>1, <1>2, <2>2, <2>4, <2>5, <2>7
<1>5. /\ N \in EntryType /\ N.tstamp = N.pkt_num
      /\ N.pkt_num >= p /\ N.pkt_num - N.len = p - 1 - n
      /\ UpOf(E, p) = {} => N.pkt_num = p
      /\ \A u \in UpOf(E, p) : N.pkt_num = u.pkt_num
  <2> HIDE DEF n, N
  <2> QED
    BY <1>3, <1>4
<1> QED
  BY <1>5

\* ngtcp2_acktr_add keeps the entries separate, with the timestamps of their largest
\* packets, and adds p to the packets they cover and nothing else.
LEMMA AddedOK ==
    ASSUME NEW E, EntsOK(E), NEW p \in PktNums, p \notin Covered(E)
    PROVE  /\ EntsOK(Added(E, p))
           /\ Covered(Added(E, p)) = Covered(E) \cup {p}
           /\ Cardinality(Added(E, p)) <= Cardinality(E) + 1
           /\ Added(E, p) # {}
<1> DEFINE up   == UpOf(E, p)
           down == DownOf(E, p)
           K    == E \ (up \cup down)
           N    == NewEntry(E, p)
           n    == SumSet({e.len : e \in down})
<1>1. Added(E, p) = K \cup {N}
  BY AddedIs
<1>2. /\ N \in EntryType /\ N.tstamp = N.pkt_num
      /\ N.pkt_num >= p /\ N.pkt_num - N.len = p - 1 - n
      /\ up = {} => N.pkt_num = p
      /\ \A u \in up : N.pkt_num = u.pkt_num
  BY NewEntryIs, SMTT(60)
<1>3. n \in Nat /\ (down = {} => n = 0) /\ \A d \in down : n = d.len
  BY DownLength
<1>4. up \subseteq E /\ down \subseteq E /\ \A e \in E : e \in EntryType
  BY Neighbours DEF EntsOK
<1>5. p \in Int /\ N.pkt_num \in Int /\ N.len \in Nat \ {0}
  BY <1>2, AcktrConstants DEF EntryType, PktNums
<1>6. \A e \in E : e.pkt_num \in Int /\ e.len \in Nat \ {0}
  BY <1>4, AcktrConstants DEF EntryType, PktNums
<1>7. \A e \in E : /\ e.pkt_num # p
                   /\ e.pkt_num > p => e.pkt_num - e.len >= p
                   /\ e.pkt_num = p + e.len => e \in up
                   /\ e.pkt_num + 1 = p => e \in down
  BY Nearest
<1>8. (\A u \in up : u.pkt_num = p + u.len) /\ \A d \in down : d.pkt_num + 1 = p
  BY DEF UpOf, DownOf
<1> HIDE DEF up, down, N, n
<1>9. ASSUME NEW e \in K
      PROVE  N.pkt_num - N.len > e.pkt_num \/ e.pkt_num - e.len > N.pkt_num
  <2>1. e \in E /\ e \notin up /\ e \notin down
    OBVIOUS
  <2>2. CASE e.pkt_num > p
    <3>1. e.pkt_num - e.len > p
      BY <2>1, <2>2, <1>5, <1>6, <1>7
    <3>2. CASE up = {}
      BY <3>1, <3>2, <1>2
    <3>3. ASSUME NEW u \in up
          PROVE  e.pkt_num - e.len > N.pkt_num
      <4>1. u \in E /\ u # e /\ u.pkt_num = p + u.len
        BY <2>1, <3>3, <1>4, <1>8
      <4>2. /\ e.pkt_num >= u.pkt_num => e.pkt_num - e.len > u.pkt_num
            /\ u.pkt_num >= e.pkt_num => u.pkt_num - u.len > e.pkt_num
        BY <2>1, <4>1 DEF EntsOK, Apart
      <4>3. u.pkt_num \in Int /\ u.len \in Nat /\ e.pkt_num \in Int /\ e.len \in Nat
        BY <2>1, <4>1, <1>6
      <4>4. e.pkt_num - e.len > u.pkt_num
        BY <2>2, <4>1, <4>2, <4>3, <1>5
      <4> QED
        BY <3>3, <4>4, <1>2
    <3> QED
      BY <3>2, <3>3
  <2>3. CASE e.pkt_num < p
    <3>1. e.pkt_num < p - 1
      BY <2>1, <2>3, <1>5, <1>6, <1>7
    <3>2. CASE down = {}
      BY <3>1, <3>2, <1>2, <1>3, <1>5, SMTT(60)
    <3>3. ASSUME NEW d \in down
          PROVE  p - 1 - n > e.pkt_num
      <4>1. d \in E /\ d # e /\ d.pkt_num + 1 = p /\ n = d.len
        BY <2>1, <3>3, <1>3, <1>4, <1>8
      <4>2. d.pkt_num >= e.pkt_num => d.pkt_num - d.len > e.pkt_num
        BY <2>1, <4>1 DEF EntsOK, Apart
      <4>3. d.pkt_num \in Int /\ d.len \in Nat /\ e.pkt_num \in Int
        BY <2>1, <4>1, <1>6
      <4> QED
        BY <3>1, <4>1, <4>2, <4>3, <1>5
    <3> QED
      BY <3>2, <3>3, <1>2
  <2> QED
    BY <2>1, <2>2, <2>3, <1>5, <1>6, <1>7, SMTT(60)
<1>10. Apart(K \cup {N})
  <2>1. ASSUME NEW e \in K \cup {N}, NEW f \in K \cup {N}, e.pkt_num >= f.pkt_num, e # f
        PROVE  e.pkt_num - e.len > f.pkt_num
    <3>1. CASE e \in K /\ f \in K
      BY <2>1, <3>1 DEF EntsOK, Apart
    <3>2. CASE e = N /\ f \in K
      <4>1. f.pkt_num \in Int /\ f.len \in Nat \ {0}
        BY <3>2, <1>6
      <4>2. N.pkt_num - N.len > f.pkt_num \/ f.pkt_num - f.len > N.pkt_num
        BY <3>2, <1>9
      <4> QED
        BY <2>1, <3>2, <4>1, <4>2, <1>5
    <3>3. CASE f = N /\ e \in K
      <4>1. e.pkt_num \in Int /\ e.len \in Nat \ {0}
        BY <3>3, <1>6
      <4>2. N.pkt_num - N.len > e.pkt_num \/ e.pkt_num - e.len > N.pkt_num
        BY <3>3, <1>9
      <4> QED
        BY <2>1, <3>3, <4>1, <4>2, <1>5
    <3> QED
      BY <2>1, <3>1, <3>2, <3>3
  <2> HIDE DEF K
  <2> QED
    BY <2>1 DEF Apart
<1>11. IsFiniteSet(K \cup {N}) /\ Cardinality(K \cup {N}) <= Cardinality(E) + 1
  <2>1. IsFiniteSet(E) /\ K \subseteq E
    BY DEF EntsOK
  <2>2. IsFiniteSet(K) /\ Cardinality(K) <= Cardinality(E)
    BY <2>1, FS_Subset
  <2>3. IsFiniteSet(K \cup {N})
        /\ (N \in K => Cardinality(K \cup {N}) = Cardinality(K))
        /\ (N \notin K => Cardinality(K \cup {N}) = Cardinality(K) + 1)
    BY <2>2, FS_AddElement
  <2>4. Cardinality(K) \in Nat /\ Cardinality(E) \in Nat
    BY <2>1, <2>2, FS_CardinalityType
  <2> QED
    BY <2>2, <2>3, <2>4
<1>12. EntsOK(K \cup {N})
  BY <1>2, <1>4, <1>10, <1>11 DEF EntsOK
<1>13. Covered(K \cup {N}) = Covered(E) \cup {p}
  <2>1. ASSUME NEW x \in Span(N)
        PROVE  x \in Covered(E) \cup {p}
    <3>1. x \in Int /\ N.pkt_num - N.len < x /\ x <= N.pkt_num
      BY <1>5 DEF Span
    <3>2. CASE x > p
      <4>1. PICK u \in up : TRUE
        BY <3>1, <3>2, <1>2, <1>5
      <4>2. u \in E /\ u.pkt_num = p + u.len /\ N.pkt_num = u.pkt_num
        BY <1>2, <1>4, <1>8
      <4>3. u.pkt_num \in Int /\ u.len \in Nat
        BY <4>2, <1>6
      <4>4. u.pkt_num - u.len + 1 <= x /\ x <= u.pkt_num
        BY <3>1, <3>2, <4>2, <4>3, <1>5
      <4>5. x \in Span(u)
        BY <3>1, <4>3, <4>4 DEF Span
      <4> QED
        BY <4>2, <4>5 DEF Covered
    <3>3. CASE x < p
      <4>1. PICK d \in down : TRUE
        BY <3>1, <3>3, <1>2, <1>3, <1>5
      <4>2. d \in E /\ d.pkt_num + 1 = p /\ n = d.len
        BY <1>3, <1>4, <1>8
      <4>3. d.pkt_num \in Int /\ d.len \in Nat
        BY <4>2, <1>6
      <4>4. d.pkt_num - d.len + 1 <= x /\ x <= d.pkt_num
        BY <3>1, <3>3, <4>2, <4>3, <1>2, <1>5, SMTT(60)
      <4>5. x \in Span(d)
        BY <3>1, <4>3, <4>4 DEF Span
      <4> QED
        BY <4>2, <4>5 DEF Covered
    <3> QED
      BY <3>1, <3>2, <3>3, <1>5
  <2>2. p \in Span(N)
    BY <1>2, <1>3, <1>5 DEF Span
  <2>3. ASSUME NEW u \in up
        PROVE  Span(u) \subseteq Span(N)
    <3>1. u.pkt_num \in Int /\ u.len \in Nat /\ u.pkt_num = p + u.len /\ N.pkt_num = u.pkt_num
      BY <1>2, <1>4, <1>6, <1>8
    <3>2. N.pkt_num - N.len + 1 <= u.pkt_num - u.len + 1
      BY <3>1, <1>2, <1>3, <1>5
    <3> QED
      BY <3>1, <3>2, <1>5 DEF Span
  <2>4. ASSUME NEW d \in down
        PROVE  Span(d) \subseteq Span(N)
    <3>1. d.pkt_num \in Int /\ d.len \in Nat /\ d.pkt_num + 1 = p /\ n = d.len
      BY <1>3, <1>4, <1>6, <1>8, SMTT(60)
    <3>2. N.pkt_num - N.len + 1 <= d.pkt_num - d.len + 1 /\ d.pkt_num <= N.pkt_num
      BY <3>1, <1>2, <1>3, <1>5
    <3> QED
      BY <3>1, <3>2, <1>5 DEF Span
  <2>5. \A e \in E : e \in K \/ e \in up \/ e \in down
    OBVIOUS
  <2>6. K \subseteq E
    OBVIOUS
  <2> HIDE DEF K
  <2> QED
    BY <2>1, <2>2, <2>3, <2>4, <2>5, <2>6 DEF Covered
<1> QED
  BY <1>1, <1>11, <1>12, <1>13

\* A part of a sound list is sound.
LEMMA PartOK ==
    ASSUME NEW E, EntsOK(E), NEW F, F \subseteq E
    PROVE  EntsOK(F) /\ Covered(F) \subseteq Covered(E)
           /\ Cardinality(F) <= Cardinality(E)
<1>1. IsFiniteSet(F) /\ Cardinality(F) <= Cardinality(E)
  BY FS_Subset DEF EntsOK
<1>2. Covered(F) \subseteq Covered(E)
  BY DEF Covered
<1>3. Apart(F)
  BY DEF EntsOK, Apart
<1> QED
  BY <1>1, <1>2, <1>3 DEF EntsOK

\* Beyond the limit on entries exactly one goes, older than all that stay.
LEMMA EvictedOK ==
    ASSUME NEW E, EntsOK(E), E # {}, Cardinality(E) <= MaxEnt + 1
    PROVE  /\ E \ Evicted(E) # {}
           /\ Cardinality(E \ Evicted(E)) <= MaxEnt
           /\ \A p \in Covered(Evicted(E)), q \in Covered(E \ Evicted(E)) : p < q
           /\ Evicted(E) \subseteq E
<1> DEFINE gone == Evicted(E)
           T == {e.pkt_num : e \in E}
<1>1. \A e \in E : e \in EntryType /\ e.pkt_num \in Nat /\ e.pkt_num \in Int /\ e.len \in Nat \ {0}
  BY AcktrConstants DEF EntsOK, EntryType, PktNums
<1>2. IsFiniteSet(E) /\ Cardinality(E) \in Nat
  BY FS_CardinalityType DEF EntsOK
<1>3. MaxEnt \in Nat /\ MaxEnt >= 2
  BY AcktrConstants DEF MaxEnt
<1>4. gone \subseteq E
  BY DEF Evicted
<1>5. CASE Cardinality(E) <= MaxEnt
  <2>1. gone = {}
    BY <1>5 DEF Evicted
  <2>2. E \ gone = E /\ Covered(gone) = {}
    BY <2>1 DEF Covered
  <2> QED
    BY <1>4, <1>5, <2>2
<1>6. CASE Cardinality(E) > MaxEnt
  <2>1. gone = {e \in E : \A f \in E : e.pkt_num <= f.pkt_num}
    BY <1>2, <1>3, <1>6 DEF Evicted
  <2>2. PICK x \in T : \A y \in T : x <= y
    <3>1. T \subseteq Nat /\ T # {}
      BY <1>1
    <3> HIDE DEF T
    <3> QED
      BY <3>1, LeastElement, Zenon
  <2>3. PICK o \in E : o.pkt_num = x
    OBVIOUS
  <2>4. o \in gone
    BY <2>1, <2>2, <2>3
  <2>5. gone = {o}
    <3>1. ASSUME NEW e \in gone
          PROVE  e = o
      <4>1. e \in E /\ e.pkt_num <= o.pkt_num /\ o.pkt_num <= e.pkt_num
        BY <2>1, <2>4
      <4>2. e.pkt_num = o.pkt_num
        BY <4>1, <1>1
      <4> QED
        BY <4>1, <4>2, NumbersDiffer
    <3> HIDE DEF gone
    <3> QED
      BY <2>4, <3>1
  <2> HIDE DEF gone
  <2>6. IsFiniteSet(E \ {o}) /\ Cardinality(E \ {o}) = Cardinality(E) - 1
    BY <1>2, FS_RemoveElement
  <2>7. E \ {o} # {}
    BY <1>2, <1>3, <1>6, <2>6, FS_EmptySet
  <2>8. ASSUME NEW p \in Covered(gone), NEW q \in Covered(E \ gone)
        PROVE  p < q
    <3>1. p \in Span(o)
      BY <2>5, <2>8 DEF Covered
    <3>2. PICK f \in E \ {o} : q \in Span(f)
      BY <2>5, <2>8 DEF Covered
    <3>3. o.pkt_num <= f.pkt_num
      BY <2>1, <2>4, <3>2 DEF gone
    <3>4. f.pkt_num - f.len > o.pkt_num
      BY <3>2, <3>3, <1>1 DEF EntsOK, Apart
    <3>5. /\ o.pkt_num \in Int /\ o.len \in Nat /\ f.pkt_num \in Int /\ f.len \in Nat
      BY <1>1, <3>2
    <3>6. p \in Int /\ p <= o.pkt_num
      BY <3>1, <3>5 DEF Span
    <3>7. q \in Int /\ q > f.pkt_num - f.len
      BY <3>2, <3>5 DEF Span
    <3> QED
      BY <3>4, <3>5, <3>6, <3>7
  <2>9. Cardinality(E \ gone) <= MaxEnt
    BY <1>2, <1>3, <2>5, <2>6
  <2> QED
    BY <1>4, <2>5, <2>7, <2>8, <2>9 DEF gone
<1>7. Cardinality(E) <= MaxEnt \/ Cardinality(E) > MaxEnt
  BY <1>2, <1>3
<1> QED
  BY <1>5, <1>6, <1>7, Zenon

\* The entry that acktr_on_ack leaves of e.
Cut(e, l) == IF e.pkt_num - e.len < l THEN [e EXCEPT !.len = e.pkt_num - l] ELSE e

\* acktr_on_ack keeps the entries sound and invents no packet.
LEMMA ForgottenOK ==
    ASSUME NEW E, EntsOK(E), NEW l \in PktNums
    PROVE  /\ EntsOK(Forgotten(E, l)) /\ Covered(Forgotten(E, l)) \subseteq Covered(E)
           /\ Cardinality(Forgotten(E, l)) <= Cardinality(E)
<1> DEFINE K == {f \in E : f.pkt_num > l}
           F == Forgotten(E, l)
<1>1. F = {Cut(e, l) : e \in K}
  BY DEF Forgotten, Cut
<1>2. l \in Int
  BY AcktrConstants DEF PktNums
<1>3. ASSUME NEW e \in K
      PROVE  /\ Cut(e, l) \in EntryType /\ Cut(e, l).pkt_num = e.pkt_num
             /\ Cut(e, l).tstamp = e.tstamp
             /\ Cut(e, l).len \in Nat \ {0} /\ Cut(e, l).len <= e.len
             /\ e.pkt_num \in Int /\ e.len \in Nat
  <2>1. e \in EntryType /\ e.pkt_num \in Int /\ e.len \in Nat \ {0} /\ e.pkt_num > l
    BY AcktrConstants DEF EntsOK, EntryType, PktNums
  <2>2. CASE e.pkt_num - e.len < l
    <3>1. Cut(e, l) = [e EXCEPT !.len = e.pkt_num - l]
      BY <2>2 DEF Cut
    <3>2. e.pkt_num - l \in Nat \ {0} /\ e.pkt_num - l <= e.len
      BY <1>2, <2>1, <2>2
    <3> HIDE DEF K
    <3>3. Cut(e, l) \in EntryType
      BY <2>1, <3>1, <3>2 DEF EntryType
    <3>4. Cut(e, l).pkt_num = e.pkt_num /\ Cut(e, l).tstamp = e.tstamp
          /\ Cut(e, l).len = e.pkt_num - l
      BY <2>1, <3>1 DEF EntryType
    <3> QED
      BY <2>1, <3>2, <3>3, <3>4
  <2>3. CASE ~(e.pkt_num - e.len < l)
    BY <2>1, <2>3 DEF Cut
  <2> QED
    BY <2>2, <2>3
<1>4. IsFiniteSet(E) /\ IsFiniteSet(K) /\ Cardinality(K) <= Cardinality(E)
  BY FS_Subset DEF EntsOK
<1>5. IsFiniteSet(F) /\ Cardinality(F) <= Cardinality(K)
  <2> DEFINE g == [e \in K |-> Cut(e, l)]
  <2>1. g \in Surjection(K, F)
    <3>1. g \in [K -> F]
      BY <1>1
    <3>2. \A t \in F : \E s \in K : g[s] = t
      BY <1>1
    <3> HIDE DEF g, F, K
    <3> QED
      BY <3>1, <3>2 DEF Surjection
  <2> HIDE DEF g, F, K
  <2> QED
    BY <1>4, <2>1, FS_Surjection
<1>6. Apart(F)
  <2>1. ASSUME NEW a \in F, NEW b \in F, a.pkt_num >= b.pkt_num, a # b
        PROVE  a.pkt_num - a.len > b.pkt_num
    <3>1. PICK e \in K : a = Cut(e, l)
      BY <1>1
    <3>2. PICK f \in K : b = Cut(f, l)
      BY <1>1
    <3>3. e # f /\ e.pkt_num >= f.pkt_num
      BY <2>1, <3>1, <3>2, <1>3
    <3>4. e.pkt_num - e.len > f.pkt_num
      BY <3>3 DEF EntsOK, Apart
    <3> HIDE DEF K
    <3> QED
      BY <3>1, <3>2, <3>4, <1>3
  <2> HIDE DEF F
  <2> QED
    BY <2>1 DEF Apart
<1>7. F \subseteq EntryType /\ \A e \in F : e.tstamp = e.pkt_num
  <2>1. \A e \in K : e.tstamp = e.pkt_num
    BY DEF EntsOK
  <2> HIDE DEF F, K
  <2> QED
    BY <1>1, <1>3, <2>1
<1>8. Covered(F) \subseteq Covered(E)
  <2>1. ASSUME NEW e \in K
        PROVE  Span(Cut(e, l)) \subseteq Span(e)
    <3> HIDE DEF K
    <3> QED
      BY <1>3 DEF Span
  <2>2. K \subseteq E
    OBVIOUS
  <2> HIDE DEF F, K
  <2> QED
    BY <1>1, <2>1, <2>2 DEF Covered
<1>9. Cardinality(F) <= Cardinality(E)
  <2>1. Cardinality(F) \in Nat /\ Cardinality(K) \in Nat /\ Cardinality(E) \in Nat
    BY <1>4, <1>5, FS_CardinalityType
  <2> QED
    BY <1>4, <1>5, <2>1
<1> QED
  BY <1>5, <1>6, <1>7, <1>8, <1>9 DEF EntsOK

-----------------------------------------------------------------------------
(* The gaps *)

\* Dropping the first gap leaves one gap less (the last one never ends).
LEMMA FirstGapDropped ==
    ASSUME NEW G, G \subseteq PktNums, IsFiniteSet(GapStarts(G)), Cardinality(GapStarts(G)) > 1
    PROVE  /\ DropFirstGap(G) \subseteq G
           /\ GapStarts(DropFirstGap(G)) \subseteq GapStarts(G) \ {Min(G)}
           /\ Min(G) \in GapStarts(G)
<1> DEFINE m == Min(G)
           D == DropFirstGap(G)
           z == MaxPktNum + 1
<1>1. \A p \in G : p \in Nat /\ p \in Int /\ p <= MaxPktNum
  BY AcktrConstants DEF PktNums
<1>2. MaxPktNum \in Nat /\ z \in Nat /\ z \notin G /\ z - 1 = MaxPktNum
  BY <1>1, AcktrConstants
<1>3. ASSUME NEW s, GapStarts(G) \subseteq {s}
      PROVE  FALSE
  <2>1. IsFiniteSet({s}) /\ Cardinality({s}) = 1
    BY FS_Singleton, Zenon
  <2>2. Cardinality(GapStarts(G)) <= 1
    BY <1>3, <2>1, FS_Subset
  <2>3. Cardinality(GapStarts(G)) \in Nat
    BY FS_CardinalityType
  <2> QED
    BY <2>2, <2>3
<1>4. G # {}
  <2>1. GapStarts({}) \subseteq {z}
    BY DEF GapStarts
  <2> QED
    BY <1>3, <2>1
<1>5. m \in G /\ m \in Nat /\ \A y \in G : m <= y
  BY <1>1, <1>4, MinOf
<1> HIDE DEF m
<1>6. m \in GapStarts(G)
  <2>1. m - 1 \notin G
    BY <1>1, <1>5
  <2> QED
    BY <1>5, <2>1 DEF GapStarts
<1>7. D = {p \in G : \E q \in m .. p : q \notin G}
  BY DEF DropFirstGap, m
<1>8. MaxPktNum \in G => MaxPktNum \in D
  <2> SUFFICES ASSUME MaxPktNum \in G, MaxPktNum \notin D
               PROVE  FALSE
    OBVIOUS
  <2>1. \A q \in m .. MaxPktNum : q \in G
    BY <1>7
  <2>2. ASSUME NEW s \in GapStarts(G)
        PROVE  s = m
    <3>1. s \in G \cup {z} /\ s - 1 \notin G
      BY DEF GapStarts
    <3>2. s \in G
      BY <3>1, <1>2
    <3>3. s \in Int /\ s <= MaxPktNum /\ m <= s
      BY <3>2, <1>1, <1>5
    <3>4. CASE m <= s - 1
      <4>1. s - 1 \in m .. MaxPktNum
        BY <3>3, <3>4, <1>2, <1>5
      <4> QED
        BY <3>1, <4>1, <2>1
    <3> QED
      BY <3>3, <3>4, <1>5
  <2> QED
    BY <2>2, <1>3
<1>9. ASSUME NEW s \in GapStarts(D)
      PROVE  s \in GapStarts(G) /\ s # m
  <2>1. s \in D \cup {z} /\ s - 1 \notin D
    BY DEF GapStarts
  <2>2. CASE s \in D
    <3>1. s \in G /\ s \in Int
      BY <1>1, <1>7, <2>2
    <3>2. PICK r \in m .. s : r \notin G
      BY <1>7, <2>2
    <3>3. r \in Int /\ m <= r /\ r <= s - 1
      BY <3>1, <3>2, <1>5
    <3>4. s - 1 \notin G
      <4> SUFFICES ASSUME s - 1 \in G
                   PROVE  FALSE
        OBVIOUS
      <4>1. r \in m .. (s - 1)
        BY <3>1, <3>3, <1>5
      <4> QED
        BY <2>1, <3>2, <4>1, <1>7
    <3>5. s # m
      BY <3>1, <3>3, <1>5
    <3> QED
      BY <3>1, <3>4, <3>5 DEF GapStarts
  <2>3. CASE s = z
    <3>1. MaxPktNum \notin G
      BY <2>1, <2>3, <1>2, <1>8
    <3> QED
      BY <2>3, <3>1, <1>2, <1>5 DEF GapStarts
  <2> QED
    BY <2>1, <2>2, <2>3
<1>10. D \subseteq G
  BY <1>7
<1> QED
  BY <1>6, <1>9, <1>10 DEF m

\* However packet numbers arrive, pngap stays within the limit on gaps, and the
\* number pushed is not in a gap any more.
LEMMA PushedOK ==
    ASSUME NEW G, G \subseteq PktNums, Cardinality(GapStarts(G)) <= MaxGaps, NEW p \in PktNums
    PROVE  /\ Pushed(G, p) \subseteq G \ {p}
           /\ Cardinality(GapStarts(Pushed(G, p))) <= MaxGaps
<1> DEFINE H == G \ {p}
           S == GapStarts(H)
<1>1. H \subseteq PktNums /\ p \in Int
  BY AcktrConstants DEF PktNums
<1>2. ASSUME NEW Q, Q \subseteq PktNums
      PROVE  IsFiniteSet(GapStarts(Q)) /\ Cardinality(GapStarts(Q)) \in Nat
  <2>1. IsFiniteSet(0 .. MaxPktNum + 1)
    <3> DEFINE a == 0
               b == MaxPktNum + 1
    <3>1. a \in Int /\ b \in Int
      BY AcktrConstants
    <3> HIDE DEF a, b
    <3>2. IsFiniteSet(a .. b)
      BY <3>1, FS_Interval
    <3> QED
      BY <3>2 DEF a, b
  <2>2. GapStarts(Q) \subseteq 0 .. MaxPktNum + 1
    <3>1. GapStarts(Q) \subseteq Q \cup {MaxPktNum + 1}
      BY DEF GapStarts
    <3>2. Q \subseteq 0 .. MaxPktNum + 1
      BY <1>2, AcktrConstants DEF PktNums
    <3>3. MaxPktNum + 1 \in 0 .. MaxPktNum + 1
      BY AcktrConstants
    <3> QED
      BY <3>1, <3>2, <3>3, Zenon
  <2> QED
    BY <2>1, <2>2, FS_Subset, FS_CardinalityType, Zenon
<1>3. S \subseteq GapStarts(G) \cup {p + 1}
  <2>1. ASSUME NEW s \in S, s # p + 1
        PROVE  s \in GapStarts(G)
    <3>1. s \in G \cup {MaxPktNum + 1} /\ s - 1 \notin H
      BY DEF GapStarts
    <3>2. s \in Int
      BY <3>1, AcktrConstants DEF PktNums
    <3>3. s - 1 # p
      BY <2>1, <3>2, <1>1
    <3>4. s - 1 \notin G
      BY <3>1, <3>3
    <3> QED
      BY <3>1, <3>4 DEF GapStarts
  <2> HIDE DEF S
  <2> QED
    BY <2>1
<1>4. Cardinality(S) <= MaxGaps + 1
  <2> DEFINE W == GapStarts(G)
  <2>1. IsFiniteSet(W) /\ Cardinality(W) \in Nat
    BY <1>2
  <2> HIDE DEF W, S
  <2>2. IsFiniteSet(W \cup {p + 1})
        /\ (p + 1 \in W => Cardinality(W \cup {p + 1}) = Cardinality(W))
        /\ (p + 1 \notin W => Cardinality(W \cup {p + 1}) = Cardinality(W) + 1)
    BY <2>1, FS_AddElement, SMTT(60)
  <2>3. Cardinality(S) <= Cardinality(W \cup {p + 1}) /\ IsFiniteSet(S)
    BY <2>2, <1>3, FS_Subset DEF W
  <2>4. Cardinality(S) \in Nat
    BY <2>3, FS_CardinalityType
  <2>5. Cardinality(W) <= MaxGaps
    BY DEF W
  <2> QED
    BY <2>1, <2>2, <2>3, <2>4, <2>5, AcktrConstants
<1>5. IsFiniteSet(S) /\ Cardinality(S) \in Nat
  BY <1>1, <1>2, Zenon
<1>6. CASE Cardinality(S) <= MaxGaps
  <2>1. Pushed(G, p) = H
    BY <1>5, <1>6, AcktrConstants DEF Pushed
  <2> QED
    BY <1>6, <2>1
<1>7. CASE Cardinality(S) > MaxGaps
  <2>1. Pushed(G, p) = DropFirstGap(H)
    BY <1>7 DEF Pushed
  <2>2. Cardinality(S) > 1
    BY <1>5, <1>7, AcktrConstants
  <2>3. DropFirstGap(H) \subseteq H /\ GapStarts(DropFirstGap(H)) \subseteq S \ {Min(H)}
        /\ Min(H) \in S
    BY <1>1, <1>5, <2>2, FirstGapDropped, Zenon
  <2> DEFINE D == DropFirstGap(H)
             m == Min(H)
  <2> HIDE DEF S, D, m
  <2>4. IsFiniteSet(S \ {m}) /\ Cardinality(S \ {m}) = Cardinality(S) - 1
    BY <1>5, <2>3, FS_RemoveElement, Zenon DEF m
  <2>5. Cardinality(GapStarts(D)) <= Cardinality(S \ {m}) /\ IsFiniteSet(GapStarts(D))
    BY <2>3, <2>4, FS_Subset, Zenon DEF D, m
  <2>6. Cardinality(GapStarts(D)) \in Nat
    BY <2>5, FS_CardinalityType
  <2>7. Cardinality(GapStarts(D)) <= MaxGaps
    BY <1>4, <1>5, <2>4, <2>5, <2>6, AcktrConstants
  <2> QED
    BY <2>1, <2>3, <2>7 DEF D
<1>8. Cardinality(S) <= MaxGaps \/ Cardinality(S) > MaxGaps
  BY <1>5, AcktrConstants
<1> QED
  BY <1>6, <1>7, <1>8, Zenon

-----------------------------------------------------------------------------
(* The ring of ACK frames *)

\* The newest elements of a sound ring are a sound ring (acktr_on_ack).
LEMMA RingPrefix ==
    ASSUME NEW n \in Nat, NEW max \in Int, NEW q, RingSound(q, n, max), NEW k \in 0 .. Len(q)
    PROVE  RingSound(SubSeq(q, 1, k), n, max) /\ Len(SubSeq(q, 1, k)) = k
<1> DEFINE r == SubSeq(q, 1, k)
<1>1. q \in Seq(SlotType) /\ Len(q) \in Nat /\ DOMAIN q = 1 .. Len(q)
  BY LenProperties DEF RingSound
<1>2. k \in Nat /\ k <= Len(q)
  BY <1>1
<1>3. r \in Seq(SlotType) /\ Len(r) = k /\ \A i \in 1 .. k : r[i] = q[i]
  <2>1. 1 \in 1 .. Len(q) + 1 /\ k \in 1 - 1 .. Len(q)
    BY <1>1, <1>2
  <2>2. r \in Seq(SlotType) /\ Len(r) = k - 1 + 1
        /\ \A i \in 1 .. k - 1 + 1 : r[i] = q[1 + i - 1]
    BY <1>1, <2>1, SubSeqProperties
  <2>3. k - 1 + 1 = k /\ \A i \in 1 .. k : 1 + i - 1 = i
    BY <1>2
  <2> HIDE DEF r
  <2> QED
    BY <2>2, <2>3
<1> HIDE DEF r
<1>4. DOMAIN r = 1 .. k
  BY <1>3, LenProperties
<1>6. \A i \in 1 .. k : i \in DOMAIN q /\ r[i] = q[i]
  BY <1>1, <1>2, <1>3, SMTT(60)
<1>7. RingInOrder(r)
  BY <1>4, <1>6, SMTT(60) DEF RingSound, RingInOrder
<1>8. \A i \in DOMAIN r : r[i].pkt_num <= n /\ r[i].largest_ack <= max
  BY <1>4, <1>6 DEF RingSound
<1> QED
  BY <1>3, <1>7, <1>8 DEF RingSound, r

\* A frame about the largest packet received is the newest of the ring
\* (ngtcp2_acktr_add_ack).
LEMMA AddAckOK ==
    ASSUME NEW n \in 0 .. MaxAcks - 1, NEW max \in PktNums, RingOK(acks, n, max)
    PROVE  RingOK(AddAck(n + 1, max), n + 1, max)
<1> DEFINE h == [pkt_num |-> n + 1, largest_ack |-> max]
           s == <<h>> \o acks
           k == Min({Len(s), AckRing})
<1>1. /\ acks \in Seq(SlotType) /\ Len(acks) \in Nat /\ DOMAIN acks = 1 .. Len(acks)
      /\ n \in Nat /\ n + 1 \in 1 .. MaxAcks /\ max \in Int /\ AckRing \in Nat \ {0}
  BY LenProperties, AcktrConstants DEF RingOK, RingSound, PktNums
<1>2. h \in SlotType /\ h.pkt_num = n + 1 /\ h.largest_ack = max
  BY <1>1 DEF SlotType
<1> HIDE DEF h
<1>3. <<h>> \in Seq(SlotType) /\ Len(<<h>>) = 1
  BY <1>2
<1>4. s \in Seq(SlotType) /\ Len(s) = Len(acks) + 1 /\ s[1] = h
      /\ \A i \in 2 .. Len(acks) + 1 : s[i] = acks[i - 1]
  BY <1>1, <1>2, <1>3, SMTT(60)
<1> HIDE DEF s
<1>5. DOMAIN s = 1 .. Len(acks) + 1
  BY <1>4, LenProperties
<1>6. \A i \in 2 .. Len(acks) + 1 : i - 1 \in DOMAIN acks
  BY <1>1
<1>7. \A i \in DOMAIN acks : acks[i] \in SlotType
  BY <1>1, ElementOfSeq
<1>8. \A i \in DOMAIN s : s[i] \in SlotType
  BY <1>4, ElementOfSeq, SMTT(60)
<1>9. \A i \in DOMAIN s : s[i].pkt_num \in Int /\ s[i].largest_ack \in Int
  BY <1>8, AcktrConstants, SMTT(60) DEF SlotType, PktNums
<1>10. \A i \in DOMAIN acks : acks[i].pkt_num \in Int /\ acks[i].pkt_num <= n
                              /\ acks[i].largest_ack <= max
  BY <1>7, AcktrConstants DEF RingOK, RingSound, SlotType, PktNums
<1>11. \A i \in DOMAIN s : s[i].pkt_num <= n + 1 /\ s[i].largest_ack <= max
  <2>1. ASSUME NEW i \in 2 .. Len(acks) + 1
        PROVE  s[i].pkt_num <= n + 1 /\ s[i].largest_ack <= max
    <3>1. s[i] = acks[i - 1] /\ i - 1 \in DOMAIN acks
      BY <1>4, <1>6
    <3>2. acks[i - 1].pkt_num \in Int /\ acks[i - 1].pkt_num <= n
          /\ acks[i - 1].largest_ack <= max
      BY <3>1, <1>10
    <3> QED
      BY <3>1, <3>2, <1>1
  <2>2. s[1].pkt_num <= n + 1 /\ s[1].largest_ack <= max
    BY <1>1, <1>2, <1>4
  <2>3. \A i \in DOMAIN s : i = 1 \/ i \in 2 .. Len(acks) + 1
    BY <1>1, <1>5, SMTT(60)
  <2> QED
    BY <2>1, <2>2, <2>3
<1>12. RingInOrder(s)
  <2>1. ASSUME NEW i \in DOMAIN s, NEW j \in DOMAIN s, i < j
        PROVE  s[i].pkt_num > s[j].pkt_num /\ s[i].largest_ack >= s[j].largest_ack
    <3>1. i \in Int /\ j \in Int /\ j \in 2 .. Len(acks) + 1 /\ (i = 1 \/ i \in 2 .. Len(acks) + 1)
      BY <1>1, <1>5, <2>1
    <3>2. s[j] = acks[j - 1] /\ j - 1 \in DOMAIN acks
      BY <1>4, <1>6, <3>1, SMTT(60)
    <3>3. CASE i = 1
      <4>1. acks[j - 1].pkt_num \in Int /\ acks[j - 1].pkt_num <= n
            /\ acks[j - 1].largest_ack <= max
        BY <3>2, <1>10
      <4>2. s[i].pkt_num = n + 1 /\ s[i].largest_ack = max
        BY <3>3, <1>2, <1>4
      <4>3. s[j].largest_ack \in Int
        BY <1>9
      <4> QED
        BY <3>2, <4>1, <4>2, <4>3, <1>1, SMTT(60)
    <3>4. CASE i \in 2 .. Len(acks) + 1
      <4>1. s[i] = acks[i - 1] /\ i - 1 \in DOMAIN acks
        BY <1>4, <1>6, <3>4
      <4>2. i - 1 < j - 1
        BY <2>1, <3>1
      <4> QED
        BY <3>2, <4>1, <4>2 DEF RingOK, RingSound, RingInOrder
    <3> QED
      BY <3>1, <3>3, <3>4, SMTT(60)
  <2> QED
    BY <2>1 DEF RingInOrder
<1>13. k = (IF Len(s) <= AckRing THEN Len(s) ELSE AckRing)
  BY <1>1, <1>4, MinOfTwo
<1>14. k \in 0 .. Len(s) /\ k <= AckRing
  BY <1>1, <1>4, <1>13
<1> HIDE DEF k
<1>15. AddAck(n + 1, max) = SubSeq(s, 1, k)
  BY DEF AddAck, s, k, h
<1>16. RingSound(s, n + 1, max)
  BY <1>4, <1>11, <1>12 DEF RingSound
<1>17. n + 1 \in Nat
  BY <1>1
<1>18. RingSound(SubSeq(s, 1, k), n + 1, max) /\ Len(SubSeq(s, 1, k)) = k
  BY <1>1, <1>14, <1>16, <1>17, RingPrefix
<1> QED
  BY <1>14, <1>15, <1>18, Zenon DEF RingOK

-----------------------------------------------------------------------------
(* A packet arrives *)

\* The entries that are left once the ACK frame in the packet is processed.
Kept(A) ==
    IF FirstAcked(A) = {} THEN ents
    ELSE Forgotten(ents, acks[Min(FirstAcked(A))].largest_ack)
KeptAcks(A) ==
    IF FirstAcked(A) = {} THEN acks ELSE SubSeq(acks, 1, Min(FirstAcked(A)) - 1)

\* ngtcp2_acktr_recv_ack keeps entries and ring sound.
LEMMA AckProcessed ==
    ASSUME AcktrInv, NEW A
    PROVE  /\ EntsOK(Kept(A)) /\ Covered(Kept(A)) \subseteq Covered(ents)
           /\ Cardinality(Kept(A)) <= MaxEnt
           /\ RingOK(KeptAcks(A), Len(log.sent), ack.max_pkt_num)
<1> DEFINE won == FirstAcked(A)
<1>1. EntsOK(ents) /\ Cardinality(ents) <= MaxEnt /\ RingOK(acks, Len(log.sent), ack.max_pkt_num)
  BY DEF AcktrInv, TypesOK
<1>2. CASE won = {}
  BY <1>1, <1>2 DEF Kept, KeptAcks
<1>3. CASE won # {}
  <2>1. acks \in Seq(SlotType) /\ RingSound(acks, Len(log.sent), ack.max_pkt_num)
    BY <1>1 DEF RingOK, RingSound
  <2>2. Len(acks) \in Nat /\ DOMAIN acks = 1 .. Len(acks)
    BY <2>1, LenProperties
  <2>3. won \subseteq 1 .. Len(acks)
    BY <2>2 DEF FirstAcked
  <2>4. won \subseteq Nat
    BY <2>2, <2>3
  <2> DEFINE k == Min(won)
  <2>5. k \in won
    BY <1>3, <2>4, MinOf
  <2> HIDE DEF k, won
  <2>6. k \in 1 .. Len(acks) /\ k - 1 \in 0 .. Len(acks)
    BY <2>2, <2>3, <2>5
  <2>7. acks[k].largest_ack \in PktNums
    <3>1. acks[k] \in SlotType
      BY <2>1, <2>6, ElementOfSeq
    <3> QED
      BY <3>1 DEF SlotType
  <2>8. Kept(A) = Forgotten(ents, acks[k].largest_ack) /\ KeptAcks(A) = SubSeq(acks, 1, k - 1)
    BY <1>3, Zenon DEF Kept, KeptAcks, k, won
  <2>9. EntsOK(Kept(A)) /\ Covered(Kept(A)) \subseteq Covered(ents)
        /\ Cardinality(Kept(A)) <= Cardinality(ents)
    BY <1>1, <2>7, <2>8, ForgottenOK
  <2>10. Cardinality(Kept(A)) \in Nat /\ Cardinality(ents) \in Nat /\ MaxEnt \in Nat
    BY <1>1, <2>9, FS_CardinalityType, AcktrConstants DEF EntsOK, MaxEnt
  <2>11. Cardinality(Kept(A)) <= MaxEnt
    BY <1>1, <2>9, <2>10
  <2>12. Len(log.sent) \in Nat /\ ack.max_pkt_num \in Int
    <3>1. log.sent \in Seq(Range(log.sent)) /\ ack \in FlagType
      BY DEF AcktrInv, TypesOK, LogOK
    <3> QED
      BY <3>1, LenProperties, AcktrConstants DEF FlagType
  <2>13. RingSound(SubSeq(acks, 1, k - 1), Len(log.sent), ack.max_pkt_num)
         /\ Len(SubSeq(acks, 1, k - 1)) = k - 1
    BY <2>1, <2>6, <2>12, RingPrefix, SMTT(60)
  <2>14. k - 1 <= AckRing
    BY <1>1, <2>2, <2>6, AcktrConstants, SMTT(60) DEF RingOK
  <2> QED
    BY <2>8, <2>9, <2>11, <2>13, <2>14, Zenon DEF RingOK
<1> QED
  BY <1>2, <1>3

\* The entries after the packet is committed.
LEMMA EntriesAfter ==
    ASSUME AcktrInv, NEW A, NEW p \in pngap
    PROVE  LET all == Added(Kept(A), p)
               new == all \ Evicted(all)
           IN  /\ EntsOK(new) /\ Cardinality(new) <= MaxEnt /\ new # {}
               /\ Covered(new) \subseteq log.received \cup {p}
               /\ Covered(Evicted(all)) \subseteq log.received \cup {p}
               /\ \A x \in Covered(Evicted(all)), y \in Covered(new) : x < y
<1> DEFINE all == Added(Kept(A), p)
           gone == Evicted(all)
<1>1. /\ EntsOK(Kept(A)) /\ Covered(Kept(A)) \subseteq Covered(ents)
      /\ Cardinality(Kept(A)) <= MaxEnt
  BY AckProcessed
<1>2. p \in PktNums /\ p \notin log.received /\ Covered(ents) \subseteq log.received
  BY DEF AcktrInv, TypesOK, ReceivedOK
<1>3. p \notin Covered(Kept(A))
  BY <1>1, <1>2
<1>4. /\ EntsOK(all) /\ Covered(all) = Covered(Kept(A)) \cup {p}
      /\ Cardinality(all) <= Cardinality(Kept(A)) + 1 /\ all # {}
  BY <1>1, <1>2, <1>3, AddedOK, SMTT(60)
<1>5. Cardinality(all) \in Nat /\ Cardinality(Kept(A)) \in Nat /\ MaxEnt \in Nat
  BY <1>1, <1>4, FS_CardinalityType, AcktrConstants, SMTT(60) DEF EntsOK, MaxEnt
<1> HIDE DEF all
<1>6. Cardinality(all) <= MaxEnt + 1
  BY <1>1, <1>4, <1>5
<1>7. /\ all \ gone # {} /\ Cardinality(all \ gone) <= MaxEnt /\ gone \subseteq all
      /\ \A x \in Covered(gone), y \in Covered(all \ gone) : x < y
  BY <1>4, <1>6, EvictedOK, Zenon
<1> HIDE DEF gone
<1>8. EntsOK(all \ gone) /\ Covered(all \ gone) \subseteq Covered(all)
  BY <1>4, PartOK
<1>9. Covered(gone) \subseteq Covered(all)
  BY <1>4, <1>7, PartOK
<1>10. Covered(all) \subseteq log.received \cup {p}
  BY <1>1, <1>2, <1>4
<1> QED
  BY <1>7, <1>8, <1>9, <1>10 DEF all, gone

\* The flags after a packet (conn_recv_pkt): the largest number is kept up to date,
\* and an ack-eliciting packet makes an ACK pending.
LEMMA FlagsAfter ==
    ASSUME AcktrInv, NEW p \in PktNums, NEW r \in BOOLEAN, NEW ce \in BOOLEAN, NEW A,
           RecvPkt(p, r, ce, A)
    PROVE  /\ ack' \in FlagType
           /\ ack'.active <=> (ack.active \/ r)
           /\ ack'.immediate <=> \/ ack.immediate
                                 \/ /\ r
                                    /\ \/ OutOfOrder(p, Pushed(pngap, p))
                                       \/ ThreshReached(ack.rx_npkt + 1)
                                       \/ ce
           /\ ack'.cancel = ack.cancel
           /\ ack'.rx_npkt = IF r THEN ack.rx_npkt + 1 ELSE ack.rx_npkt
           /\ ack'.max_pkt_num = IF ack.max_pkt_num >= p THEN ack.max_pkt_num ELSE p
<1> DEFINE npkt == IF r THEN ack.rx_npkt + 1 ELSE ack.rx_npkt
           act == ack.active \/ r
           imm == \/ ack.immediate
                  \/ /\ r
                     /\ OutOfOrder(p, Pushed(pngap, p)) \/ ThreshReached(npkt) \/ ce
           max == Max({ack.max_pkt_num, p})
           ts == IF ack.max_pkt_num < p THEN p ELSE ack.max_pkt_ts
<1>1. ack \in FlagType
  BY DEF AcktrInv, TypesOK
<1>2. /\ ack.active \in BOOLEAN /\ ack.immediate \in BOOLEAN /\ ack.cancel \in BOOLEAN
      /\ ack.rx_npkt \in Nat /\ ack.max_pkt_num \in -1 .. MaxPktNum
      /\ ack.max_pkt_ts \in -1 .. MaxPktNum
  BY <1>1 DEF FlagType
<1>3. p \in Int /\ p \in -1 .. MaxPktNum /\ ack.max_pkt_num \in Int
  BY <1>2, AcktrConstants DEF PktNums
<1>4. max = IF ack.max_pkt_num >= p THEN ack.max_pkt_num ELSE p
  BY <1>3, MaxOfTwo
<1>5. act \in BOOLEAN /\ imm \in BOOLEAN
  BY <1>2, Zenon
<1>6. npkt \in Nat /\ max \in -1 .. MaxPktNum /\ ts \in -1 .. MaxPktNum
  BY <1>2, <1>3, <1>4
<1>7. ack' = [ack EXCEPT !.active = act, !.immediate = imm, !.rx_npkt = npkt,
                         !.max_pkt_num = max, !.max_pkt_ts = ts]
  BY Zenon DEF RecvPkt
<1>8. imm <=> \/ ack.immediate
              \/ /\ r
                 /\ \/ OutOfOrder(p, Pushed(pngap, p))
                    \/ ThreshReached(ack.rx_npkt + 1)
                    \/ ce
  BY Zenon
<1>9. act <=> (ack.active \/ r)
  BY Zenon
<1> HIDE DEF act, imm, npkt, max, ts
<1>10. ack' \in FlagType
  BY <1>1, <1>5, <1>6, <1>7, ZenonT(40) DEF FlagType
<1>11. /\ ack'.active = act /\ ack'.immediate = imm /\ ack'.cancel = ack.cancel
       /\ ack'.rx_npkt = npkt /\ ack'.max_pkt_num = max
  BY <1>1, <1>7 DEF FlagType
<1> QED
  BY <1>4, <1>8, <1>9, <1>10, <1>11, Zenon DEF npkt

\* What a packet adds to the history.
LogStep(p, r, A) ==
    /\ LogOK' /\ log'.sent = log.sent /\ log'.base = log.base
    /\ log'.received = log.received \cup {p}
    /\ log'.pending = IF r THEN log.pending \cup {p} ELSE log.pending
    /\ log'.evicted = log.evicted \cup Covered(Evicted(Added(Kept(A), p)))

\* The history after a packet.
LEMMA LogAfter ==
    ASSUME AcktrInv, NEW p \in pngap, NEW r \in BOOLEAN, NEW ce \in BOOLEAN,
           NEW A, A \subseteq 1 .. Len(log.sent), RecvPkt(p, r, ce, A)
    PROVE  LogStep(p, r, A)
<1> DEFINE rec == log.received \cup {p}
           pen == IF r THEN log.pending \cup {p} ELSE log.pending
           evi == log.evicted \cup Covered(Evicted(Added(Kept(A), p)))
           con == log.confirmed \cup A
           LogType == [ received : SUBSET PktNums, pending : SUBSET PktNums,
                        base : -1 .. MaxPktNum, evicted : SUBSET PktNums,
                        sent : Seq(Range(log.sent)), confirmed : SUBSET Nat ]
<1>1. log \in LogType
  BY DEF AcktrInv, TypesOK, LogOK
<1>2. /\ log.received \subseteq PktNums /\ log.pending \subseteq PktNums
      /\ log.evicted \subseteq PktNums /\ log.confirmed \subseteq Nat
      /\ log.sent \in Seq(Range(log.sent))
  BY <1>1
<1>3. p \in PktNums /\ Len(log.sent) \in Nat
  BY <1>2, LenProperties, SMTT(60) DEF AcktrInv, TypesOK
<1>4. rec \subseteq PktNums /\ pen \subseteq PktNums
  BY <1>2, <1>3, SMTT(60)
<1>5. Covered(Evicted(Added(Kept(A), p))) \subseteq log.received \cup {p}
  BY EntriesAfter, Zenon
<1>6. evi \subseteq PktNums
  BY <1>2, <1>3, <1>5
<1>7. con \subseteq Nat
  BY <1>2, <1>3
<1>8. log' = [log EXCEPT !.received = rec, !.pending = pen, !.evicted = evi, !.confirmed = con]
  BY DEF RecvPkt, Kept
<1> HIDE DEF rec, pen, evi, con
<1>9. log' \in LogType
  BY <1>1, <1>4, <1>6, <1>7, <1>8, Zenon
<1>10. /\ log'.sent = log.sent /\ log'.base = log.base /\ log'.received = rec
       /\ log'.pending = pen /\ log'.evicted = evi
  BY <1>1, <1>8
<1>11. LogOK'
  BY <1>9, <1>10 DEF LogOK
<1> QED
  BY <1>10, <1>11 DEF LogStep, rec, pen, evi

\* A packet keeps types, limits and the record of what was received.
LEMMA RecvPktTypes ==
    ASSUME AcktrInv, NEW p \in pngap, NEW r \in BOOLEAN, NEW ce \in BOOLEAN,
           NEW A, A \subseteq 1 .. Len(log.sent), RecvPkt(p, r, ce, A)
    PROVE  TypesOK' /\ ReceivedOK' /\ ents' # {}
<1> DEFINE new == Added(Kept(A), p) \ Evicted(Added(Kept(A), p))
<1>1. p \in PktNums /\ p \in Nat /\ pngap \subseteq PktNums
  BY AcktrConstants DEF AcktrInv, TypesOK, PktNums
<1>2. /\ ack' \in FlagType
      /\ ack'.max_pkt_num = IF ack.max_pkt_num >= p THEN ack.max_pkt_num ELSE p
  BY <1>1, FlagsAfter
<1>3. /\ LogOK' /\ log'.sent = log.sent /\ log'.received = log.received \cup {p}
  <2>1. LogStep(p, r, A)
    BY LogAfter, Zenon
  <2> QED
    BY <2>1 DEF LogStep
<1>4. ents' = new
  BY DEF RecvPkt, Kept
<1>5. /\ EntsOK(new) /\ Cardinality(new) <= MaxEnt /\ new # {}
      /\ Covered(new) \subseteq log.received \cup {p}
  BY EntriesAfter, Zenon
<1> HIDE DEF new
<1>6. pngap' = Pushed(pngap, p)
  BY DEF RecvPkt
<1>7. pngap' \subseteq pngap \ {p} /\ Cardinality(GapStarts(pngap')) <= MaxGaps
  BY <1>1, <1>6, PushedOK, Zenon DEF AcktrInv, TypesOK
<1>8. elic' \in -1 .. MaxPktNum
  <2>1. elic \in Int /\ elic \in -1 .. MaxPktNum /\ p \in Int
    BY <1>1, AcktrConstants DEF AcktrInv, TypesOK
  <2>2. elic' = elic \/ elic' = Max({elic, p})
    BY DEF RecvPkt
  <2>3. Max({elic, p}) = elic \/ Max({elic, p}) = p
    BY <2>1, MaxOfTwo
  <2>4. p \in -1 .. MaxPktNum
    BY <1>1, AcktrConstants DEF PktNums
  <2> QED
    BY <2>1, <2>2, <2>3, <2>4
<1>9. ack.max_pkt_num \in Int /\ ack'.max_pkt_num \in Int
      /\ ack.max_pkt_num <= ack'.max_pkt_num /\ p <= ack'.max_pkt_num
  <2>1. ack.max_pkt_num \in Int
    BY AcktrConstants DEF AcktrInv, TypesOK, FlagType
  <2> QED
    BY <1>1, <1>2, <2>1
<1>10. RingOK(acks', Len(log'.sent), ack'.max_pkt_num)
  <2>1. acks' = KeptAcks(A)
    BY DEF RecvPkt, KeptAcks
  <2>2. RingOK(acks', Len(log.sent), ack.max_pkt_num)
    BY <2>1, AckProcessed
  <2>3. acks' \in Seq(SlotType)
    BY <2>2 DEF RingOK, RingSound
  <2>4. \A i \in DOMAIN acks' : acks'[i].largest_ack \in Int
    <3>1. DOMAIN acks' = 1 .. Len(acks')
      BY <2>3, LenProperties
    <3>2. \A i \in DOMAIN acks' : acks'[i] \in SlotType
      BY <2>3, <3>1, ElementOfSeq
    <3> QED
      BY <3>2, AcktrConstants DEF SlotType, PktNums
  <2>5. \A i \in DOMAIN acks' : acks'[i].largest_ack <= ack'.max_pkt_num
    BY <1>9, <2>2, <2>4 DEF RingOK, RingSound
  <2> QED
    BY <1>3, <2>2, <2>5 DEF RingOK, RingSound
<1>11. due' \in BOOLEAN
  <2>1. due \in BOOLEAN
    BY DEF AcktrInv, TypesOK
  <2>2. due' = due \/ due' = FALSE
    BY Zenon DEF RecvPkt
  <2> QED
    BY <2>1, <2>2, Zenon
<1>12. TypesOK'
  BY <1>1, <1>2, <1>3, <1>4, <1>5, <1>7, <1>8, <1>10, <1>11, SMTT(60) DEF TypesOK
<1>13. ack'.max_pkt_num \in log'.received /\ \A q \in log'.received : q <= ack'.max_pkt_num
  <2>1. CASE log.received = {}
    <3>1. ack.max_pkt_num = -1
      BY <2>1 DEF AcktrInv, ReceivedOK
    <3>2. ack'.max_pkt_num = p
      BY <1>1, <1>2, <3>1
    <3> QED
      BY <1>1, <1>3, <2>1, <3>2
  <2>2. CASE log.received # {}
    <3>1. ack.max_pkt_num \in log.received /\ \A q \in log.received : q <= ack.max_pkt_num
      BY <2>2 DEF AcktrInv, ReceivedOK
    <3>2. \A q \in log.received : q \in Int
      BY AcktrConstants DEF AcktrInv, TypesOK, LogOK, PktNums
    <3> QED
      BY <1>1, <1>2, <1>3, <1>9, <3>1, <3>2, SMTT(60)
  <2> QED
    BY <2>1, <2>2
<1>14. pngap' \cap log'.received = {}
  BY <1>3, <1>7 DEF AcktrInv, ReceivedOK
<1>15. ReceivedOK'
  BY <1>3, <1>4, <1>5, <1>13, <1>14, SMTT(60) DEF ReceivedOK
<1> QED
  BY <1>4, <1>5, <1>12, <1>15

\* A packet keeps the record of what waits for an ACK frame.
LEMMA RecvPktWaiting ==
    ASSUME AcktrInv, NEW p \in pngap, NEW r \in BOOLEAN, NEW ce \in BOOLEAN,
           NEW A, A \subseteq 1 .. Len(log.sent), RecvPkt(p, r, ce, A)
    PROVE  /\ WaitingOK'
           /\ elic' = IF r /\ p >= elic THEN p ELSE elic
<1>1. p \in Int /\ p \in Nat /\ elic \in Int
  BY AcktrConstants DEF AcktrInv, TypesOK, PktNums
<1>2. /\ log'.base = log.base
      /\ log'.received = log.received \cup {p}
      /\ log'.pending = IF r THEN log.pending \cup {p} ELSE log.pending
  <2>1. LogStep(p, r, A)
    BY LogAfter, Zenon
  <2> QED
    BY <2>1 DEF LogStep
<1>3. elic' = IF r THEN (IF elic >= p THEN elic ELSE p) ELSE elic
  BY <1>1, MaxOfTwo DEF RecvPkt
<1>4. elic' = IF r /\ p >= elic THEN p ELSE elic
  BY <1>1, <1>3
<1>5. WaitingOK
  BY DEF AcktrInv
<1>6. \A q \in log.pending : q \in Int
  BY AcktrConstants DEF AcktrInv, TypesOK, LogOK, PktNums
<1>7. log.base \in Int
  BY AcktrConstants DEF AcktrInv, TypesOK, LogOK
<1>8. CASE r
  <2>1. elic' = (IF elic >= p THEN elic ELSE p) /\ log'.pending = log.pending \cup {p}
    BY <1>2, <1>3, <1>8, SMTT(60)
  <2>2. log'.pending \subseteq log'.received /\ (elic' # -1 => elic' \in log'.received)
    BY <1>2, <1>5, <2>1 DEF WaitingOK
  <2>3. \A q \in log'.pending : q <= elic'
    BY <1>1, <1>5, <1>6, <2>1 DEF WaitingOK
  <2>4. log'.base <= elic'
    BY <1>1, <1>2, <1>5, <1>7, <2>1 DEF WaitingOK
  <2>5. log'.pending # {}
    BY <2>1
  <2> QED
    BY <1>4, <2>2, <2>3, <2>4, <2>5, SMTT(60) DEF WaitingOK
<1>9. CASE ~r
  BY <1>2, <1>3, <1>4, <1>5, <1>9 DEF WaitingOK
<1> QED
  BY <1>8, <1>9

\* After a packet an ACK is pending exactly when ack-eliciting packets wait.
LEMMA RecvPktPending ==
    ASSUME AcktrInv, NEW p \in pngap, NEW r \in BOOLEAN, NEW ce \in BOOLEAN,
           NEW A, A \subseteq 1 .. Len(log.sent), RecvPkt(p, r, ce, A)
    PROVE  /\ PendingMatches'
           /\ IsFiniteSet(log.pending)
           /\ r => Cardinality(log'.pending) = ack.rx_npkt + 1
           /\ ~r => Cardinality(log'.pending) = ack.rx_npkt
<1>1. p \in PktNums
  BY DEF AcktrInv, TypesOK
<1>2. /\ ack'.active <=> (ack.active \/ r)
      /\ ack'.cancel = ack.cancel
      /\ ack'.rx_npkt = IF r THEN ack.rx_npkt + 1 ELSE ack.rx_npkt
      /\ ack'.immediate => ack.immediate \/ r
  BY <1>1, FlagsAfter, Zenon
<1>3. log'.pending = IF r THEN log.pending \cup {p} ELSE log.pending
  <2>1. LogStep(p, r, A)
    BY LogAfter, Zenon
  <2> QED
    BY <2>1 DEF LogStep
<1>4. ents' # {}
  BY RecvPktTypes, Zenon
<1>5. due' = due \/ due' = FALSE
  BY Zenon DEF RecvPkt
<1>6. /\ ack.active <=> log.pending # {}
      /\ ack.immediate \/ ack.cancel \/ due => ack.active
      /\ ack.rx_npkt = Cardinality(log.pending)
  BY DEF AcktrInv, PendingSound, PendingMatches
<1>7. IsFiniteSet(log.pending) /\ p \notin log.pending
  <2>1. log.pending \subseteq 0 .. MaxPktNum
    BY DEF AcktrInv, TypesOK, LogOK, PktNums
  <2>2. IsFiniteSet(0 .. MaxPktNum)
    <3> DEFINE a == 0
    <3>1. a \in Int /\ MaxPktNum \in Int
      BY AcktrConstants
    <3> HIDE DEF a
    <3>2. IsFiniteSet(a .. MaxPktNum)
      BY <3>1, FS_Interval
    <3> QED
      BY <3>2 DEF a
  <2>3. p \notin log.received /\ log.pending \subseteq log.received
    BY DEF AcktrInv, ReceivedOK, WaitingOK
  <2> QED
    BY <2>1, <2>2, <2>3, FS_Subset, Zenon
<1>8. Cardinality(log'.pending) = IF r THEN ack.rx_npkt + 1 ELSE ack.rx_npkt
  <2>1. Cardinality(log.pending \cup {p}) = Cardinality(log.pending) + 1
    BY <1>7, FS_AddElement, Zenon
  <2>2. CASE r
    BY <1>3, <1>6, <2>1, <2>2
  <2>3. CASE ~r
    BY <1>3, <1>6, <2>3
  <2> QED
    BY <2>2, <2>3
<1>9. CASE r
  <2>1. log'.pending # {} /\ ack'.active
    BY <1>2, <1>3, <1>9, Zenon
  <2>2. ack'.rx_npkt = Cardinality(log'.pending)
    BY <1>2, <1>8
  <2> QED
    BY <1>4, <1>7, <1>8, <1>9, <2>1, <2>2, Zenon DEF PendingMatches
<1>10. CASE ~r
  <2>1. log'.pending = log.pending /\ (ack'.active <=> ack.active)
    BY <1>2, <1>3, <1>10, Zenon
  <2>2. ack'.rx_npkt = Cardinality(log'.pending)
    BY <1>2, <1>8
  <2>3. ack'.immediate \/ ack'.cancel \/ due' => ack'.active
    BY <1>2, <1>5, <1>6, <1>10, Zenon
  <2> QED
    BY <1>4, <1>6, <1>7, <1>8, <1>10, <2>1, <2>2, <2>3, Zenon DEF PendingMatches
<1> QED
  BY <1>9, <1>10

\* The packets from which an ACK that is held back speaks.
From(base, pending) == IF base = -1 THEN Min(pending) ELSE base

\* An ACK is held back by a packet only when nothing is out of order.
LEMMA RecvPktHeldBack ==
    ASSUME AcktrInv, NEW p \in pngap, NEW r \in BOOLEAN, NEW ce \in BOOLEAN,
           NEW A, A \subseteq 1 .. Len(log.sent), RecvPkt(p, r, ce, A)
    PROVE  HeldBackInOrder'
<1> DEFINE new == From(log'.base, log'.pending)
           old == From(log.base, log.pending)
<1> SUFFICES ASSUME ack'.active, ~ack'.immediate
             PROVE  /\ Cardinality(log'.pending) < AckThresh
                    /\ \A q \in log'.pending : q >= new
                    /\ \A g \in pngap' : ~(new < g /\ g < elic')
  BY Zenon DEF HeldBackInOrder, From
<1>1. p \in PktNums /\ p \in Nat /\ p \in Int /\ elic \in Int /\ elic >= -1
  BY AcktrConstants DEF AcktrInv, TypesOK, PktNums
<1>2. /\ ack'.active <=> (ack.active \/ r)
      /\ ~ack.immediate
      /\ r => ~OutOfOrder(p, Pushed(pngap, p)) /\ ~ThreshReached(ack.rx_npkt + 1)
  BY <1>1, FlagsAfter, Zenon
<1>3. /\ log'.base = log.base
      /\ log'.pending = IF r THEN log.pending \cup {p} ELSE log.pending
  <2>1. LogStep(p, r, A)
    BY LogAfter, Zenon
  <2> QED
    BY <2>1 DEF LogStep
<1>4. elic' = IF r /\ p >= elic THEN p ELSE elic
  BY RecvPktWaiting, Zenon
<1>5. pngap' = Pushed(pngap, p) /\ pngap' \subseteq pngap /\ \A g \in pngap : g \in Int
  <2>1. pngap' = Pushed(pngap, p)
    BY DEF RecvPkt
  <2>2. pngap \subseteq PktNums /\ Cardinality(GapStarts(pngap)) <= MaxGaps
    BY DEF AcktrInv, TypesOK
  <2>3. pngap' \subseteq pngap
    BY <1>1, <2>1, <2>2, PushedOK, Zenon
  <2> QED
    BY <2>1, <2>2, <2>3, AcktrConstants DEF PktNums
<1>6. WaitingOK /\ HeldBackInOrder /\ (ack.active <=> log.pending # {})
  BY DEF AcktrInv, PendingSound, PendingMatches
<1>7. ack.active => /\ Cardinality(log.pending) < AckThresh
                    /\ \A q \in log.pending : q >= old
                    /\ \A g \in pngap : ~(old < g /\ g < elic)
  BY <1>2, <1>6, Zenon DEF HeldBackInOrder, From
<1>8. log.base \in Int /\ log.base >= -1 /\ \A q \in log.pending : q \in Nat /\ q \in Int
  BY AcktrConstants DEF AcktrInv, TypesOK, LogOK, PktNums
<1>9. CASE ~r
  <2>1. log'.pending = log.pending /\ elic' = elic /\ ack.active
    BY <1>2, <1>3, <1>4, <1>9, Zenon
  <2>2. new = old
    BY <1>3, <2>1, Zenon
  <2> HIDE DEF new, old
  <2> QED
    BY <1>5, <1>7, <2>1, <2>2
<1>10. CASE r
  <2>1. log'.pending = log.pending \cup {p}
    BY <1>3, <1>10
  <2>2. Cardinality(log'.pending) < AckThresh
    <3>1. Cardinality(log'.pending) = ack.rx_npkt + 1 /\ ~ThreshReached(ack.rx_npkt + 1)
      BY <1>2, <1>10, RecvPktPending, Zenon
    <3>2. ack.rx_npkt \in Nat
      BY DEF AcktrInv, TypesOK, FlagType
    <3> QED
      BY <3>1, <3>2, AcktrConstants DEF ThreshReached
  <2>3. elic = -1 \/ (p >= elic /\ (p = elic + 1 \/ \A g \in pngap' : ~(elic < g /\ g < p)))
    BY <1>1, <1>2, <1>5, <1>10 DEF OutOfOrder, GapBefore
  <2>4. elic' = p
    BY <1>1, <1>4, <1>10, <2>3
  <2>5. elic # -1 => elic \notin pngap
    BY <1>6 DEF AcktrInv, ReceivedOK, WaitingOK
  <2>6. \A g \in pngap' : ~(elic < g /\ g < p) \/ elic = -1
    BY <1>1, <1>5, <2>3
  <2>7. CASE elic = -1
    <3>1. log.pending = {} /\ log.base = -1
      <4>1. \A q \in log.pending : q <= -1
        BY <1>6, <2>7 DEF WaitingOK
      <4>2. log.pending = {}
        BY <1>8, <4>1
      <4>3. log.base <= -1
        BY <1>6, <2>7 DEF WaitingOK
      <4> QED
        BY <1>8, <4>2, <4>3, SMTT(60)
    <3>2. log'.pending = {p}
      BY <2>1, <3>1
    <3>3. Min({p}) = p
      <4>1. Min({p}) \in {p}
        BY <1>1, MinOf
      <4> QED
        BY <4>1
    <3>4. new = p
      BY <1>3, <3>1, <3>2, <3>3, SMTT(60) DEF From
    <3> HIDE DEF new
    <3> QED
      BY <1>1, <1>5, <2>2, <2>4, <3>2, <3>4, SMTT(60)
  <2>8. CASE elic # -1 /\ log.pending = {}
    <3>1. log.base = elic
      BY <1>6, <2>8 DEF WaitingOK
    <3>2. new = elic
      BY <1>3, <2>8, <3>1 DEF From
    <3>3. p >= elic
      BY <2>3, <2>8
    <3> HIDE DEF new
    <3> QED
      BY <2>1, <2>2, <2>4, <2>6, <2>8, <3>2, <3>3, SMTT(60)
  <2>9. CASE elic # -1 /\ log.pending # {}
    <3>1. \A q \in log.pending : q <= elic /\ q <= p
      BY <1>1, <1>6, <1>8, <2>3, <2>9 DEF WaitingOK
    <3>2. new = old /\ old <= p /\ old \in Int
      <4>1. CASE log.base # -1
        <5>1. new = log.base /\ old = log.base
          BY <1>3, <4>1 DEF From
        <5>2. log.base <= elic /\ p >= elic
          BY <1>6, <2>3, <2>9 DEF WaitingOK
        <5> HIDE DEF new, old
        <5> QED
          BY <1>1, <1>8, <5>1, <5>2
      <4>2. CASE log.base = -1
        <5> DEFINE Q == log.pending \cup {p}
        <5>1. new = Min(Q) /\ old = Min(log.pending)
          BY <1>3, <2>1, <4>2, Zenon DEF From
        <5>2. log.pending \subseteq Nat /\ Q \subseteq Nat /\ Q # {}
          BY <1>1, <1>8
        <5>3. Min(log.pending) \in Nat /\ Min(log.pending) \in log.pending
              /\ \A y \in log.pending : Min(log.pending) <= y
          BY <5>2, <2>9, MinOf
        <5> HIDE DEF Q
        <5>4. Min(Q) \in Nat /\ Min(Q) \in Q /\ \A y \in Q : Min(Q) <= y
          BY <5>2, MinOf, Zenon
        <5> HIDE DEF new, old
        <5>5. \A y \in log.pending : y \in Q
          BY DEF Q
        <5>6. Min(Q) \in Int /\ Min(log.pending) \in Int
          BY <5>3, <5>4
        <5>7. Min(log.pending) <= p
          BY <3>1, <5>3
        <5>8. Min(log.pending) <= Min(Q)
          BY <5>3, <5>4, <5>7 DEF Q
        <5>9. Min(Q) <= Min(log.pending)
          BY <5>3, <5>4, <5>5
        <5> QED
          BY <5>1, <5>6, <5>7, <5>8, <5>9
      <4> QED
        BY <4>1, <4>2
    <3>3. ack.active
      BY <1>6, <2>9, Zenon
    <3> HIDE DEF new, old
    <3>4. \A q \in log'.pending : q >= new
      BY <1>7, <2>1, <3>2, <3>3
    <3>5. ASSUME NEW g \in pngap', new < g, g < elic'
          PROVE  FALSE
      <4>1. g \in pngap /\ g \in Int
        BY <1>5
      <4>2. ~(old < g /\ g < elic) /\ g # elic /\ ~(elic < g /\ g < p)
        BY <1>7, <2>5, <2>6, <2>9, <3>3, <4>1
      <4> QED
        BY <1>1, <2>4, <3>2, <3>5, <4>1, <4>2, SMTT(60)
    <3> QED
      BY <2>2, <3>4, <3>5
  <2> QED
    BY <2>7, <2>8, <2>9
<1> QED
  BY <1>9, <1>10

-----------------------------------------------------------------------------
(* The other steps *)

\* An ACK frame speaks of the largest packet received, and starts the count anew.
LEMMA WriteAckStep ==
    ASSUME AcktrInv, WriteAck
    PROVE  AcktrInv' /\ log'.evicted = log.evicted
<1> DEFINE LogType == [ received : SUBSET PktNums, pending : SUBSET PktNums,
                        base : -1 .. MaxPktNum, evicted : SUBSET PktNums,
                        sent : Seq(Range(log.sent)), confirmed : SUBSET Nat ]
           sent == Append(log.sent, Acknowledges(CreateAckFrame))
<1>1. ents # {}
  BY DEF AcktrInv, PendingSound, PendingMatches, WriteAck
<1>2. /\ ack' = CommitAck /\ due' = FALSE /\ pngap' = pngap /\ elic' = elic /\ ents' = ents
      /\ acks' = AddAck(Len(log.sent) + 1, CreateAckFrame.largest_ack)
      /\ log' = [log EXCEPT !.sent = sent, !.pending = {}, !.base = elic]
      /\ Len(log.sent) < MaxAcks
  BY <1>1 DEF WriteAck
<1>3. CreateAckFrame.largest_ack = ack.max_pkt_num
  BY DEF CreateAckFrame, Frame
<1>4. log \in LogType /\ log.sent \in Seq(Range(log.sent)) /\ Len(log.sent) \in Nat
  <2>1. log \in LogType
    BY DEF AcktrInv, TypesOK, LogOK
  <2> QED
    BY <2>1, LenProperties
<1>5. /\ sent \in Seq(Range(log.sent) \cup {Acknowledges(CreateAckFrame)})
      /\ Len(sent) = Len(log.sent) + 1
  <2> DEFINE x == Acknowledges(CreateAckFrame)
             T == Range(log.sent) \cup {x}
  <2>1. log.sent \in Seq(T) /\ x \in T
    BY <1>4, SeqMonotonic
  <2> HIDE DEF x, T
  <2>2. Append(log.sent, x) \in Seq(T) /\ Len(Append(log.sent, x)) = Len(log.sent) + 1
    BY <2>1, AppendProperties
  <2> QED
    BY <2>2 DEF x, T
<1>6. sent \in Seq(Range(sent))
  <2>1. DOMAIN sent = 1 .. Len(sent) /\ Len(sent) \in Nat
        /\ sent \in [1 .. Len(sent) -> Range(log.sent) \cup {Acknowledges(CreateAckFrame)}]
    BY <1>5, LenProperties, Zenon
  <2> HIDE DEF sent
  <2>2. sent \in [1 .. Len(sent) -> Range(sent)]
    BY <2>1 DEF Range
  <2> QED
    BY <2>1, <2>2, SeqDef
<1> HIDE DEF sent
<1>7. /\ log'.sent = sent /\ log'.pending = {} /\ log'.base = elic
      /\ log'.received = log.received /\ log'.evicted = log.evicted
  BY <1>2, <1>4
<1>8. LogOK'
  <2>1. elic \in -1 .. MaxPktNum
    BY DEF AcktrInv, TypesOK
  <2>2. log' \in [ received : SUBSET PktNums, pending : SUBSET PktNums,
                   base : -1 .. MaxPktNum, evicted : SUBSET PktNums,
                   sent : Seq(Range(sent)), confirmed : SUBSET Nat ]
    BY <1>2, <1>4, <1>6, <2>1, Zenon
  <2> QED
    BY <1>7, <2>2 DEF LogOK
<1>9. /\ ack' \in FlagType /\ ack'.max_pkt_num = ack.max_pkt_num /\ ack'.rx_npkt = 0
      /\ ack'.active = FALSE /\ ack'.immediate = FALSE /\ ack'.cancel = FALSE
  <2>1. ack \in FlagType
    BY DEF AcktrInv, TypesOK
  <2> QED
    BY <1>2, <2>1, Zenon DEF CommitAck, FlagType
<1>10. RingOK(acks', Len(log'.sent), ack'.max_pkt_num)
  <2>1. Len(log.sent) \in 0 .. MaxAcks - 1
    BY <1>2, <1>4, AcktrConstants
  <2>2. ack.max_pkt_num \in PktNums
    <3>1. PICK e \in ents : e \in EntryType
      BY <1>1 DEF AcktrInv, TypesOK, EntsOK
    <3>2. e.pkt_num \in Span(e)
      BY <3>1, AcktrConstants DEF EntryType, PktNums, Span
    <3>3. log.received # {}
      BY <3>1, <3>2 DEF AcktrInv, ReceivedOK, Covered
    <3> QED
      BY <1>4, <3>3 DEF AcktrInv, ReceivedOK
  <2>3. RingOK(acks, Len(log.sent), ack.max_pkt_num)
    BY DEF AcktrInv, TypesOK
  <2>4. RingOK(AddAck(Len(log.sent) + 1, ack.max_pkt_num), Len(log.sent) + 1, ack.max_pkt_num)
    BY <2>1, <2>2, <2>3, AddAckOK
  <2> QED
    BY <1>2, <1>3, <1>5, <1>7, <1>9, <2>4
<1>11. TypesOK'
  BY <1>2, <1>8, <1>9, <1>10, Zenon DEF AcktrInv, TypesOK
<1>12. ReceivedOK'
  BY <1>2, <1>7, <1>9 DEF AcktrInv, ReceivedOK
<1>13. WaitingOK'
  <2>1. elic \in Int
    BY AcktrConstants DEF AcktrInv, TypesOK
  <2> QED
    BY <1>2, <1>7, <2>1 DEF AcktrInv, WaitingOK
<1>14. PendingSound'
  <2>1. Cardinality({}) = 0
    BY FS_EmptySet
  <2>2. PendingMatches'
    BY <1>2, <1>7, <1>9, <2>1, Zenon DEF PendingMatches
  <2>3. HeldBackInOrder'
    BY <1>9, Zenon DEF HeldBackInOrder
  <2> QED
    BY <2>2, <2>3 DEF PendingSound
<1> QED
  BY <1>7, <1>11, <1>12, <1>13, <1>14 DEF AcktrInv

\* A packet keeps the invariant, and what it evicts is older than what stays.
LEMMA RecvPktStep ==
    ASSUME AcktrInv, NEW p \in PktNums, NEW r \in BOOLEAN, NEW ce \in BOOLEAN,
           NEW A \in SUBSET (1 .. Len(log.sent)), RecvPkt(p, r, ce, A)
    PROVE  /\ AcktrInv'
           /\ \A x \in log'.evicted \ log.evicted, y \in Covered(ents') : x < y
<1>1. p \in pngap /\ A \subseteq 1 .. Len(log.sent)
  BY DEF RecvPkt
<1>2. TypesOK' /\ ReceivedOK'
  BY <1>1, RecvPktTypes, Zenon
<1>3. WaitingOK'
  BY <1>1, RecvPktWaiting, Zenon
<1>4. PendingMatches'
  BY <1>1, RecvPktPending, Zenon
<1>5. HeldBackInOrder'
  BY <1>1, RecvPktHeldBack, Zenon
<1> DEFINE all == Added(Kept(A), p)
           new == all \ Evicted(all)
<1>6. \A x \in Covered(Evicted(all)), y \in Covered(new) : x < y
  BY <1>1, EntriesAfter, Zenon
<1>7. ents' = new
  BY DEF RecvPkt, Kept
<1>8. log'.evicted = log.evicted \cup Covered(Evicted(all))
  <2>1. LogStep(p, r, A)
    BY <1>1, LogAfter, Zenon
  <2> QED
    BY <2>1 DEF LogStep
<1> HIDE DEF all, new
<1> QED
  BY <1>2, <1>3, <1>4, <1>5, <1>6, <1>7, <1>8 DEF AcktrInv, PendingSound

\* The passage of time keeps the invariant.
LEMMA TimeStep ==
    ASSUME AcktrInv, DelayElapses \/ CancelExpiredAckDelayTimer
    PROVE  AcktrInv' /\ log' = log
<1>1. /\ pngap' = pngap /\ elic' = elic /\ ents' = ents /\ acks' = acks /\ log' = log
      /\ ack.active
  BY DEF DelayElapses, CancelExpiredAckDelayTimer
<1>2. ack \in FlagType /\ due \in BOOLEAN /\ PendingMatches /\ HeldBackInOrder
  BY DEF AcktrInv, TypesOK, PendingSound
<1>3. /\ ack' \in FlagType /\ due' \in BOOLEAN
      /\ ack'.active = ack.active /\ ack'.immediate = ack.immediate
      /\ ack'.rx_npkt = ack.rx_npkt /\ ack'.max_pkt_num = ack.max_pkt_num
  <2>1. CASE DelayElapses
    BY <1>2, <2>1, Zenon DEF DelayElapses
  <2>2. CASE CancelExpiredAckDelayTimer
    <3>1. ack' = [ack EXCEPT !.cancel = TRUE] /\ due' = due
      BY <2>2 DEF CancelExpiredAckDelayTimer
    <3> QED
      BY <1>2, <3>1, Zenon DEF FlagType
  <2> QED
    BY <2>1, <2>2
<1>4. PendingMatches'
  BY <1>1, <1>2, <1>3, Zenon DEF PendingMatches
<1>5. HeldBackInOrder'
  BY <1>1, <1>2, <1>3, ZenonT(40) DEF HeldBackInOrder
<1>6. TypesOK' /\ ReceivedOK' /\ WaitingOK'
  BY <1>1, <1>3 DEF AcktrInv, TypesOK, ReceivedOK, WaitingOK, LogOK
<1> QED
  BY <1>1, <1>4, <1>5, <1>6 DEF AcktrInv, PendingSound

\* At first nothing was received.
LEMMA InitAcktrOK == InitAcktr => AcktrInv
<1> SUFFICES ASSUME InitAcktr
             PROVE  AcktrInv
  OBVIOUS
<1>1. /\ pngap = PktNums /\ elic = -1 /\ ents = {} /\ acks = <<>> /\ due = FALSE
      /\ ack.active = FALSE /\ ack.immediate = FALSE /\ ack.cancel = FALSE
      /\ ack.rx_npkt = 0 /\ ack.max_pkt_num = -1
      /\ log.received = {} /\ log.pending = {} /\ log.base = -1 /\ log.sent = <<>>
  BY SMTT(60) DEF InitAcktr
<1>2. ack \in FlagType
  BY AcktrConstants, SMTT(60) DEF InitAcktr, FlagType
<1>3. LogOK
  BY AcktrConstants DEF InitAcktr, LogOK
<1>4. EntsOK({}) /\ Cardinality({}) = 0 /\ Covered({}) = {}
  BY FS_EmptySet DEF EntsOK, Apart, Covered
<1>5. RingOK(<<>>, 0, -1)
  BY AcktrConstants DEF RingOK, RingSound, RingInOrder
<1>6. Cardinality(GapStarts(PktNums)) <= MaxGaps
  <2>1. GapStarts(PktNums) \subseteq {0}
    BY AcktrConstants DEF GapStarts, PktNums
  <2>2. IsFiniteSet({0}) /\ Cardinality({0}) = 1
    BY FS_Singleton, Zenon
  <2>3. IsFiniteSet(GapStarts(PktNums)) /\ Cardinality(GapStarts(PktNums)) <= 1
    BY <2>1, <2>2, FS_Subset
  <2>4. Cardinality(GapStarts(PktNums)) \in Nat
    BY <2>3, FS_CardinalityType
  <2> QED
    BY <2>3, <2>4, AcktrConstants
<1>7. TypesOK
  <2>1. Len(<<>>) = 0 /\ MaxEnt \in Nat
    BY AcktrConstants DEF MaxEnt
  <2>2. elic \in -1 .. MaxPktNum
    BY <1>1, AcktrConstants
  <2>3. EntsOK(ents) /\ Cardinality(ents) <= MaxEnt
    BY <1>1, <1>4, <2>1
  <2>4. RingOK(acks, Len(log.sent), ack.max_pkt_num)
    BY <1>1, <1>5, <2>1
  <2>5. pngap \subseteq PktNums /\ Cardinality(GapStarts(pngap)) <= MaxGaps
    BY <1>1, <1>6
  <2> QED
    BY <1>1, <1>2, <1>3, <2>2, <2>3, <2>4, <2>5, Zenon DEF TypesOK
<1>8. ReceivedOK /\ WaitingOK
  BY <1>1, <1>4 DEF ReceivedOK, WaitingOK
<1>9. PendingSound
  BY <1>1, <1>4, Zenon DEF PendingSound, PendingMatches, HeldBackInOrder
<1> QED
  BY <1>7, <1>8, <1>9 DEF AcktrInv

-----------------------------------------------------------------------------
(* The theorems *)

\* Every step of NextAcktr keeps the invariant, and evicts only what is older
\* than everything that stays tracked.
LEMMA AcktrStep ==
    ASSUME AcktrInv, [NextAcktr]_ackVars
    PROVE  /\ AcktrInv'
           /\ \A x \in log'.evicted \ log.evicted, y \in Covered(ents') : x < y
<1>1. CASE \E p \in PktNums, r, ce \in BOOLEAN, A \in SUBSET (1 .. Len(log.sent)) :
              RecvPkt(p, r, ce, A)
  BY <1>1, RecvPktStep
<1>2. CASE WriteAck
  BY <1>2, WriteAckStep
<1>3. CASE DelayElapses \/ CancelExpiredAckDelayTimer
  BY <1>3, TimeStep
<1>4. CASE UNCHANGED ackVars
  <2>1. AcktrInv'
    BY <1>4, SMTT(60) DEF ackVars, AcktrInv, TypesOK, ReceivedOK, WaitingOK, PendingSound,
                PendingMatches, HeldBackInOrder, LogOK
  <2> QED
    BY <1>4, <2>1, SMTT(60) DEF ackVars
<1> QED
  BY <1>1, <1>2, <1>3, <1>4 DEF NextAcktr

\* The invariant says that the state has its types: an entry is no longer than
\* the range of packet numbers, for its packets were received.
LEMMA InvTyped == AcktrInv => TypeOK
<1> SUFFICES ASSUME AcktrInv
             PROVE  TypeOK
  OBVIOUS
<1>1. /\ EntsOK(ents) /\ Cardinality(ents) <= MaxEnt /\ ack \in FlagType
      /\ Covered(ents) \subseteq PktNums
  BY DEF AcktrInv, TypesOK, ReceivedOK, LogOK
<1>2. ASSUME NEW e \in ents
      PROVE  e \in [pkt_num : PktNums, len : 1 .. MaxPktNum + 1, tstamp : PktNums]
  <2>1. e \in EntryType
    BY <1>1 DEF EntsOK
  <2>2. e.pkt_num \in Nat /\ e.len \in Nat \ {0} /\ MaxPktNum \in Nat /\ e.pkt_num <= MaxPktNum
    BY <2>1, AcktrConstants DEF EntryType, PktNums
  <2>3. e.pkt_num - e.len + 1 \in Span(e)
    BY <2>2 DEF Span
  <2>4. e.pkt_num - e.len + 1 \in PktNums
    BY <1>1, <2>3 DEF Covered
  <2>5. e.len \in 1 .. MaxPktNum + 1
    BY <2>2, <2>4, SMTT(60) DEF PktNums
  <2> QED
    BY <2>1, <2>5 DEF EntryType
<1>3. acks \in Seq(SlotType) /\ Len(acks) <= AckRing
  BY DEF AcktrInv, TypesOK, RingOK, RingSound
<1>4. ack.rx_npkt \in Nat /\ ack.max_pkt_num \in -1 .. MaxPktNum
  BY <1>1 DEF FlagType
<1> QED
  BY <1>1, <1>2, <1>3, <1>4 DEF TypeOK, AcktrInv, TypesOK, SlotType

\* The invariant of the tracker (types, what was received, what waits for an ACK)
\* holds at first and after every packet received, ACK written and timer event.
THEOREM AcktrInductive == SpecAcktr => []AcktrInv
<1>1. InitAcktr => AcktrInv
  BY InitAcktrOK
<1>2. AcktrInv /\ [NextAcktr]_ackVars => AcktrInv'
  BY AcktrStep
<1> QED
  BY <1>1, <1>2, PTL DEF SpecAcktr

\* ngtcp2_acktr_add, acktr_on_ack and pktns_commit_recv_pkt_num keep the ranges
\* sound: nothing is received twice, the entries are separate runs of received
\* packets within their limit, and the ring is in the order of sending.
THEOREM RangesAlwaysSound == SpecAcktr => []RangesSound
<1>1. AcktrInv => RangesSound
  <2> SUFFICES ASSUME AcktrInv
               PROVE  RangesSound
    OBVIOUS
  <2>1. TypeOK
    BY InvTyped
  <2>2. NoDuplicates
    BY DEF AcktrInv, ReceivedOK, NoDuplicates
  <2>3. EntriesSound
    BY Zenon DEF AcktrInv, TypesOK, ReceivedOK, EntsOK, Apart, EntriesSound
  <2>4. RingOrdered
    BY Zenon DEF AcktrInv, TypesOK, RingOK, RingSound, RingInOrder, RingOrdered
  <2> QED
    BY <2>1, <2>2, <2>3, <2>4 DEF RangesSound
<1> QED
  BY <1>1, AcktrInductive, PTL

\* An ACK is pending exactly while ack-eliciting packets wait for one, and held
\* back only while nothing is out of order (ngtcp2_acktr_immediate_ack and the
\* threshold), for every number of packets.
THEOREM PendingAlwaysSound == SpecAcktr => []PendingSound
<1>1. AcktrInv => PendingSound
  BY DEF AcktrInv
<1> QED
  BY <1>1, AcktrInductive, PTL

\* At the limit on entries ngtcp2_acktr_add evicts only packets older than every
\* one it keeps.
THEOREM OldestEvicted == SpecAcktr => EvictsOldest
<1>1. AcktrInv /\ [NextAcktr]_ackVars
        => [\A p \in log'.evicted \ log.evicted, q \in Covered(ents') : p < q]_ackVars
  BY AcktrStep
<1> QED
  BY <1>1, AcktrInductive, PTL DEF SpecAcktr, EvictsOldest
=============================================================================
