---------------------------- MODULE ReorderLoop ----------------------------
(***************************************************************************)
(* The loops of lib/ngtcp2_reorder.c on the linked list they walk, here a  *)
(* sequence of byte ranges.  Module Reorder states what the loops find as  *)
(* relations on the set of ranges; this module has the walks themselves,   *)
(* in the order conn_recv_stream calls them, and compares the two in every *)
(* list that can be built.                                                 *)
(***************************************************************************)
EXTENDS Reorder, Sequences, SequencesExt

CONSTANT MaxOffset      \* bound on stream offsets

ASSUME MaxOffset \in Nat

VARIABLES
    list,   \* reorder->head and its successors
    cont    \* strm->rx.cont_offset

reorderVars == <<list, cont>>

StreamOffsets == 0 .. MaxOffset

RECURSIVE PushWalk(_, _, _, _), GapWalk(_, _, _), PrefixWalk(_, _), EmitWalk(_, _)

\* The for loop of ngtcp2_reorder_push from the i-th entry on, and the insertion
\* at the entry it stops at.
PushWalkKeepEnd(l, i, begin, end) ==
    IF i > Len(l) \/ (l[i].end > begin /\ (end <= l[i].begin \/ begin < l[i].begin))
    THEN InsertAt(l, i, ByteRange(begin, end))
    ELSE IF l[i].end <= begin
    THEN PushWalk(l, i + 1, begin, end)
    ELSE IF end <= l[i].end THEN l ELSE PushWalk(l, i + 1, l[i].end, end)

PushWalk(l, i, begin, end) ==
    IF i > Len(l) \/ (l[i].end > begin /\ end <= l[i].begin)
    THEN InsertAt(l, i, ByteRange(begin, end))
    ELSE IF l[i].end <= begin
    THEN PushWalk(l, i + 1, begin, end)
    ELSE IF l[i].begin <= begin
    THEN IF end <= l[i].end THEN l ELSE PushWalk(l, i + 1, l[i].end, end)
    ELSE InsertAt(l, i, ByteRange(begin, l[i].begin))

\* ngtcp2_reorder_push for a buffer [b, e).
PushLoop(l, c, b, e) ==
    IF e <= c THEN l ELSE PushWalk(l, 1, IF b < c THEN c ELSE b, e)

\* ngtcp2_reorder_first_gap_offset from the i-th entry on.
GapWalk(l, i, offset) ==
    IF i > Len(l) \/ (offset < l[i].end /\ offset < l[i].begin) THEN offset
    ELSE GapWalk(l, i + 1, IF offset < l[i].end THEN l[i].end ELSE offset)

\* ngtcp2_reorder_remove_prefix
PrefixWalk(l, o) ==
    IF l = <<>> \/ o <= Head(l).begin THEN l
    ELSE IF o < Head(l).end THEN <<ByteRange(o, Head(l).end)>> \o Tail(l)
    ELSE PrefixWalk(Tail(l), o)

\* conn_emit_pending_stream_data: ngtcp2_reorder_data_at and
\* ngtcp2_reorder_pop, entry by entry, until there is no data at the offset.
\* Everything up to the offset was removed from the list before.
EmitWalk(l, o) ==
    IF l = <<>> \/ o < Head(l).begin THEN [list |-> l, cont |-> o]
    ELSE EmitWalk(Tail(l), Head(l).end)

-----------------------------------------------------------------------------
ReorderInit == list = <<>> /\ cont = 0

\* conn_recv_reordering with a frame behind a gap.
ReorderPush(b, e) ==
    /\ GapWalk(list, 1, cont) < b
    /\ b < e
    /\ list' = PushLoop(list, cont, b, e)
    /\ UNCHANGED cont

\* conn_recv_stream with data from the first missing byte up to o: drop what
\* the frame brought again, then pass on what it uncovered.
InOrder(o) ==
    /\ GapWalk(list, 1, cont) < o
    /\ LET r == EmitWalk(PrefixWalk(list, o), o)
       IN list' = r.list /\ cont' = r.cont

\* conn_shutdown_stream_read (ngtcp2_strm_discard_reordered_data).
Discard ==
    /\ list # <<>>
    /\ cont' = GapWalk(list, 1, cont)
    /\ list' = <<>>

ReorderNext ==
    \/ \E b, e \in StreamOffsets : ReorderPush(b, e)
    \/ \E o \in StreamOffsets : InOrder(o)
    \/ Discard

-----------------------------------------------------------------------------
(* Properties *)

\* Whatever range arrives next, the walk of ngtcp2_reorder_push stores exactly
\* the range PushStores allows, or nothing when all of it is held.
PushMatchesRelation ==
    \A b, e \in StreamOffsets : b < e =>
        LET R  == ToSet(list)
            R2 == ToSet(PushLoop(list, cont, b, e))
        IN  IF PushAbsorbed(R, cont, b, e)
            THEN R2 = R
            ELSE \E nb, ne \in StreamOffsets :
                    /\ PushStores(R, cont, b, e, nb, ne)
                    /\ R2 = R \cup {ByteRange(nb, ne)}

\* ngtcp2_reorder_first_gap_offset finds the first offset no entry holds.
GapMatchesRelation == IsFirstGap(ToSet(list), cont, GapWalk(list, 1, cont))

\* ngtcp2_reorder_remove_prefix removes exactly the bytes below the offset.
PrefixMatchesRelation ==
    \A o \in cont .. MaxOffset :
        ToSet(PrefixWalk(list, o)) = RemovePrefix(ToSet(list), o)

\* The three walks compute what the relations of Reorder, on which StreamRecv is
\* built, say of ngtcp2_reorder_push, _first_gap_offset and _remove_prefix.
WalksMatchRelations == PushMatchesRelation /\ GapMatchesRelation /\ PrefixMatchesRelation

\* The assertions of ngtcp2_reorder_data_at and ngtcp2_reorder_pop: the list is
\* sorted, and the entry found at the delivered offset begins there, after
\* every delivery that could follow.
EmitAssertions ==
    /\ \A i, j \in DOMAIN list : i < j => list[i].end <= list[j].begin
    /\ \A o \in cont .. MaxOffset :
         LET l == PrefixWalk(list, o)
         IN  \A i \in DOMAIN l : l[i].begin <= o => i = 1 /\ l[i].begin = o
=============================================================================
