------------------------------ MODULE Reorder ------------------------------
(***************************************************************************)
(* The receive-side reordering storage of lib/ngtcp2_reorder.c.            *)
(*                                                                         *)
(* The code keeps a singly linked list of entries, sorted by offset and    *)
(* pairwise disjoint, each with the half-open byte range of the stream it  *)
(* holds.  Here the list is the set of those ranges: the order is the one  *)
(* of the range starts.  Offsets found by walking the list are stated by   *)
(* what the walk finds, as predicates on the offset; module ReorderLoop    *)
(* has the loops themselves and compares the two.                          *)
(***************************************************************************)
EXTENDS Integers, FiniteSets

\* A byte range [begin, end), struct ngtcp2_range.
ByteRange(b, e) == [begin |-> b, end |-> e]

\* Some entry of the list R holds the byte at offset x.
Covered(R, x) == \E ent \in R : ent.begin <= x /\ x < ent.end

\* ngtcp2_reorder_first_gap_offset: g is the first offset at or after c that
\* no entry holds.
IsSomeGap(R, c, g) == c <= g /\ ~Covered(R, g)

IsFirstGap(R, c, g) ==
    /\ c <= g
    /\ ~Covered(R, g)
    /\ \A x \in c .. (g - 1) : Covered(R, x)

\* ngtcp2_reorder_push: every byte of [b, e) at or after the delivered offset
\* is held already, the buffer is released and nothing is stored.
PushAbsorbed(R, c, b, e) == \A x \in b .. (e - 1) : x < c \/ Covered(R, x)

\* ngtcp2_reorder_push: of the buffer [b, e), with everything below c
\* delivered, the list stores [nb, ne).  nb is the first byte that is not held;
\* ne is where the walk stops, at the next entry or at the end of the buffer.
\* Bytes of the buffer behind that next entry are not stored.
PushStoresUncut(R, c, b, e, nb, ne) ==
    /\ IsFirstGap(R, IF b < c THEN c ELSE b, nb)
    /\ nb < ne
    /\ ne = e

PushStores(R, c, b, e, nb, ne) ==
    /\ IsFirstGap(R, IF b < c THEN c ELSE b, nb)
    /\ nb < ne
    /\ ne <= e
    /\ \A x \in nb .. (ne - 1) : ~Covered(R, x)
    /\ ne = e \/ Covered(R, ne)

\* ngtcp2_reorder_remove_prefix: entries below o are released, the one that
\* straddles o loses its front.
RemovePrefix(R, o) ==
    { ByteRange(IF ent.begin < o THEN o ELSE ent.begin, ent.end) :
        ent \in {f \in R : o < f.end} }

\* The list is well formed: no empty range, no two entries share a byte.
WellFormed(R) ==
    /\ \A ent \in R : ent.begin < ent.end
    /\ \A d, f \in R : d # f => d.end <= f.begin \/ f.end <= d.begin
=============================================================================
