------------------------------- MODULE Queues -------------------------------
(***************************************************************************)
(* The two queues of the library: the heap (pq.c) that orders streams by   *)
(* their cycle, whose entries know their place in it, and the ring buffer  *)
(* (ringbuf.c) that overwrites its far end when it is full.  Indices count *)
(* from 0 as in the code.                                                  *)
(***************************************************************************)
EXTENDS Integers, SequencesExt

CONSTANTS
    Items,      \* bound: entries of the heap
    Weights,    \* what the heap orders them by
    RingLen     \* slots of the ring buffer, a power of 2

VARIABLES
    pq,         \* [q, index, weight]: the heap, and each entry's index and weight
    inq,        \* the entries pushed and not yet popped or removed
    rb,         \* [buf, first, len]
    deq         \* the entries a bounded double-ended queue would hold

pqVars == <<pq, inq>>
ringVars == <<rb, deq>>

BadIndex == -1

At(p, i) == p.q[i + 1]
Less(p, a, b) == p.weight[a] < p.weight[b]
Place(p, i, e) == [p EXCEPT !.q[i + 1] = e, !.index[e] = i]

\* swap
Swap(p, i, j) == LET a == At(p, i) b == At(p, j) IN Place(Place(p, i, b), j, a)

RECURSIVE BubbleUp(_, _)
RECURSIVE BubbleDown(_, _)

\* bubble_up
BubbleUp(p, i) ==
    LET parent == (i - 1) \div 2
    IN IF i = 0 THEN p
       ELSE IF ~Less(p, At(p, i), At(p, parent)) THEN p
       ELSE BubbleUp(Swap(p, parent, i), parent)

\* bubble_down: the smaller child, the left one when they tie
BubbleDown(p, i) ==
    LET Better(j, m) == IF j < Len(p.q) THEN IF Less(p, At(p, j), At(p, m)) THEN j ELSE m ELSE m
        min == Better((2 * i) + 2, Better((2 * i) + 1, i))
    IN IF min = i THEN p ELSE BubbleDown(Swap(p, i, min), min)

\* ngtcp2_pq_push
Enqueue(p, e) == BubbleUp([p EXCEPT !.q = Append(@, e), !.index[e] = Len(p.q)], Len(p.q))

Shorter(p) == [p EXCEPT !.q = Front(@)]

\* ngtcp2_pq_pop
Dequeue(p) == LET p1 == Shorter(Place(p, 0, Last(p.q))) IN IF p1.q = <<>> THEN p1 ELSE BubbleDown(p1, 0)

\* ngtcp2_pq_remove without the step up
RemoveItemDown(p, e) ==
    LET i == p.index[e]
    IN IF i = 0 THEN Dequeue(p) ELSE IF i = Len(p.q) - 1 THEN Shorter(p)
       ELSE BubbleDown(Shorter(Place(p, i, Last(p.q))), i)

\* ngtcp2_pq_remove
RemoveItem(p, e) ==
    LET i == p.index[e]
        p1 == Shorter(Place(p, i, Last(p.q)))
    IN IF i = 0 THEN Dequeue(p)
       ELSE IF i = Len(p.q) - 1 THEN Shorter(p)
       ELSE IF Less(p1, e, At(p1, i)) THEN BubbleDown(p1, i) ELSE BubbleUp(p1, i)

PqInit == pq = [q |-> <<>>, index |-> [e \in Items |-> BadIndex], weight |-> [e \in Items |-> 0]] /\ inq = {}

\* Callers set the weight of an entry that is not in the heap, and push it
PqPush(e, w) ==
    /\ pq.index[e] = BadIndex
    /\ pq' = Enqueue([pq EXCEPT !.weight[e] = w], e) /\ inq' = inq \cup {e}

\* ngtcp2_pq_top, ngtcp2_pq_pop; callers reset the index, the weight is set anew by a push
PqPop ==
    /\ pq.q # <<>>
    /\ pq' = [Dequeue(pq) EXCEPT !.index[At(pq, 0)] = BadIndex, !.weight[At(pq, 0)] = 0] /\ inq' = inq \ {At(pq, 0)}

PqRemove(e) ==
    /\ pq.index[e] # BadIndex
    /\ pq' = [RemoveItem(pq, e) EXCEPT !.index[e] = BadIndex, !.weight[e] = 0] /\ inq' = inq \ {e}

PqNext == (\E e \in Items : (\E w \in Weights : PqPush(e, w)) \/ PqRemove(e)) \/ PqPop

\* The heap holds what was put in and not taken out, each entry's index is
\* where it is, and the top weighs no more than any other entry
TopIsLeast ==
    /\ ToSet(pq.q) = inq /\ Len(pq.q) = Cardinality(inq)
    /\ \A e \in inq : pq.index[e] \in 0 .. Len(pq.q) - 1 /\ At(pq, pq.index[e]) = e
    /\ \A e \in inq : ~Less(pq, e, pq.q[1])
-----------------------------------------------------------------------------
Ring(i) == i % RingLen

\* The slot ngtcp2_ringbuf_push_front, _push_back give, filled by the caller
PushFront(r, v) ==
    LET f == Ring(r.first + RingLen - 1)
    IN [buf |-> [r.buf EXCEPT ![f + 1] = v], first |-> f, len |-> IF r.len < RingLen THEN r.len + 1 ELSE r.len]

PushBack(r, v) ==
    [buf |-> [r.buf EXCEPT ![Ring(r.first + r.len) + 1] = v],
     first |-> IF r.len = RingLen THEN Ring(r.first + 1) ELSE r.first,
     len |-> IF r.len = RingLen THEN r.len ELSE r.len + 1]

\* ngtcp2_ringbuf_get
Get(r, i) == r.buf[Ring(r.first + i) + 1]

RingInit == rb = [buf |-> [i \in 1 .. RingLen |-> 0], first |-> 0, len |-> 0] /\ deq = <<>>

RingPushFront(v) == rb' = PushFront(rb, v) /\ deq' = <<v>> \o SubSeq(deq, 1, IF Len(deq) = RingLen THEN RingLen - 1 ELSE Len(deq))

RingPushBack(v) ==
    /\ rb' = PushBack(rb, v)
    /\ deq' = IF Len(deq) = RingLen THEN Tail(deq) \o <<v>> ELSE Append(deq, v)

\* ngtcp2_ringbuf_pop_front
RingPopFront == rb.len > 0 /\ rb' = [rb EXCEPT !.first = Ring(@ + 1), !.len = @ - 1] /\ deq' = Tail(deq)

\* ngtcp2_ringbuf_pop_back, and ngtcp2_ringbuf_resize to fewer entries
RingResize(n) == rb.len > n /\ rb' = [rb EXCEPT !.len = n] /\ deq' = SubSeq(deq, 1, n)

RingNext ==
    \/ \E v \in Weights : RingPushFront(v) \/ RingPushBack(v)
    \/ RingPopFront
    \/ \E n \in 0 .. RingLen - 1 : RingResize(n)

RingIsDeque == rb.len = Len(deq) /\ \A i \in DOMAIN deq : Get(rb, i - 1) = deq[i]

\* Whichever entries are removed from its middle, the heap gives the least one
\* next and its entries know where they are (ngtcp2_pq_remove asserts it); the
\* ring reads as a double-ended queue of at most its size that drops its far
\* end when an entry is pushed on a full one, wherever its first slot is.
QueuesOrdered == TopIsLeast /\ RingIsDeque

=============================================================================
