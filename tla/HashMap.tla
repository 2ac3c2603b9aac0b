------------------------------- MODULE HashMap -------------------------------
(***************************************************************************)
(* The hash table from identifiers to objects (map.c): open addressing     *)
(* where an entry far from its home slot takes the place of one closer to  *)
(* its own, removal shifts entries back, and the table doubles at 7/8 full *)
(* or when an entry is stored far from home.                               *)
(*                                                                         *)
(* A slot is [key, data, psl]: psl is 0 for an empty slot, and otherwise   *)
(* one more than the distance from home, in a uint8_t (PslMod values).     *)
(* The code leaves key and data of an emptied slot as they were; it looks  *)
(* at neither while psl is 0, so the model clears them.                    *)
(***************************************************************************)
EXTENDS Integers, Sequences, FiniteSets

CONSTANTS
    MapKeys,        \* bound: keys
    Hash,           \* the hash of each key: the seed is chosen at random
    HashWidth,      \* bits of a hash
    InitialBits,    \* NGTCP2_INITIAL_HASHBITS
    PslResizeThresh,\* NGTCP2_MAX_PSL_RESIZE_THRESH
    PslMod          \* values of a uint8_t

VARIABLES
    map,    \* [bits, tab, size]
    mset,   \* the keys a map without slots would hold
    mok     \* whether every call has returned what that map returns

mapVars == <<map, mset, mok>>

Empty == [key |-> 0, data |-> 0, psl |-> 0]

\* map_index
MapIndex(m, key) == Hash[key] \div (2 ^ (HashWidth - m.bits))

Slot(m, idx) == m.tab[idx + 1]
NextIdx(m, idx) == (idx + 1) % (2 ^ m.bits)

\* map_set_entry
SetEntry(m, idx, key, data, psl) ==
    [m EXCEPT !.tab[idx + 1] = [key |-> key, data |-> data, psl |-> psl % PslMod]]

RECURSIVE ProbeInsert(_, _, _, _, _)

\* map_insert from a slot on
ProbeInsert(m, idx, key, data, psl) ==
    LET here == Slot(m, idx)
    IN IF here.psl = 0
       THEN [m |-> [SetEntry(m, idx, key, data, psl) EXCEPT !.size = @ + 1], ok |-> TRUE, idx |-> idx]
       ELSE IF psl > here.psl
       THEN ProbeInsert(SetEntry(m, idx, key, data, psl), NextIdx(m, idx), here.key, here.data, here.psl + 1)
       ELSE IF here.key = key THEN [m |-> m, ok |-> FALSE, idx |-> idx]
       ELSE ProbeInsert(m, NextIdx(m, idx), key, data, psl + 1)

\* map_insert
MapInsert(m, key, data) == ProbeInsert(m, MapIndex(m, key), key, data, 1)

RECURSIVE Rehash(_, _, _)
Rehash(m, tab, i) ==
    IF i > Len(tab) THEN m
    ELSE Rehash(IF tab[i].psl = 0 THEN m ELSE MapInsert(m, tab[i].key, tab[i].data).m, tab, i + 1)

\* map_resize
Resize(m, bits) ==
    Rehash([bits |-> bits, tab |-> <<>> \o [i \in 1 .. 2 ^ bits |-> Empty], size |-> 0], m.tab, 1)

\* ngtcp2_map_insert
InsertEntry(m, key, data) ==
    LET len == 2 ^ m.bits
        grown == Resize(m, IF m.bits = 0 THEN InitialBits ELSE m.bits + 1)
        r == MapInsert(m, key, data)
    IN IF m.size + 1 >= len - (len \div 8) THEN MapInsert(grown, key, data)
       ELSE IF ~r.ok \/ Slot(r.m, r.idx).psl - 1 < PslResizeThresh THEN r
       ELSE [r EXCEPT !.m = Resize(r.m, r.m.bits + 1)]

RECURSIVE Probe(_, _, _, _)

\* The search of ngtcp2_map_find and ngtcp2_map_remove: the slot, or -1
Probe(m, idx, key, psl) ==
    IF psl > Slot(m, idx).psl THEN -1
    ELSE IF Slot(m, idx).key = key THEN idx
    ELSE Probe(m, NextIdx(m, idx), key, psl + 1)

SlotOf(m, key) == IF m.size = 0 THEN -1 ELSE Probe(m, MapIndex(m, key), key, 1)

\* ngtcp2_map_find
Find(m, key) == LET idx == SlotOf(m, key) IN IF idx = -1 THEN 0 ELSE Slot(m, idx).data

\* The removal that leaves the slots after it where they are
ShiftBackNone(m, dest) == [m EXCEPT !.tab[dest + 1] = Empty]

RECURSIVE ShiftBack(_, _)

\* ngtcp2_map_remove: the entries after a freed slot move one slot home
ShiftBack(m, dest) ==
    LET idx == NextIdx(m, dest)
        next == Slot(m, idx)
    IN IF next.psl <= 1 THEN [m EXCEPT !.tab[dest + 1] = Empty]
       ELSE ShiftBack(SetEntry(m, dest, next.key, next.data, next.psl - 1), idx)

\* ngtcp2_map_remove
RemoveEntry(m, key) ==
    LET idx == SlotOf(m, key)
    IN IF idx = -1 THEN [m |-> m, ok |-> FALSE] ELSE [m |-> [ShiftBack(m, idx) EXCEPT !.size = @ - 1], ok |-> TRUE]

\* ngtcp2_map_clear
ClearAll(m) == [m EXCEPT !.tab = <<>> \o [i \in DOMAIN @ |-> Empty], !.size = 0]

\* ngtcp2_map_each: the data handed to the callback
Each(m) == [i \in {j \in DOMAIN m.tab : m.size > 0 /\ m.tab[j].psl > 0} |-> m.tab[i].data]
-----------------------------------------------------------------------------
MapInit == map = [bits |-> 0, tab |-> <<>>, size |-> 0] /\ mset = {} /\ mok = TRUE

MapInsertCall(k) ==
    LET r == InsertEntry(map, k, k)
    IN /\ map' = r.m
       /\ mok' = (mok /\ (r.ok <=> k \notin mset)) /\ mset' = mset \cup {k}

MapRemoveCall(k) ==
    LET r == RemoveEntry(map, k)
    IN /\ map' = r.m
       /\ mok' = (mok /\ (r.ok <=> k \in mset)) /\ mset' = mset \ {k}

MapClearCall == map.size > 0 /\ map' = ClearAll(map) /\ mset' = {} /\ UNCHANGED mok

MapNext == (\E k \in MapKeys : MapInsertCall(k) \/ MapRemoveCall(k)) \/ MapClearCall
-----------------------------------------------------------------------------
\* Through any sequence of insertions, removals, resizings and clearings the
\* table answers as a plain map: a key is found with its own data exactly
\* while it is in, ngtcp2_map_each meets every entry once, and every entry
\* records its distance from home.  A removal that left a hole would end a
\* later search too early.
MapAnswersAsMap ==
    LET used == {i \in DOMAIN map.tab : map.tab[i].psl > 0}
    IN /\ mok /\ map.size = Cardinality(mset)
       /\ \A k \in MapKeys : Find(map, k) = (IF k \in mset THEN k ELSE 0)
       /\ {Each(map)[i] : i \in DOMAIN Each(map)} = mset /\ Cardinality(used) = map.size
       /\ \A i \in used : (MapIndex(map, map.tab[i].key) + map.tab[i].psl) % (2 ^ map.bits) = i % (2 ^ map.bits)

Far(m) == \E i \in DOMAIN m.tab : m.tab[i].psl - 1 >= PslResizeThresh

\* What the comment on NGTCP2_MAX_PSL_RESIZE_THRESH says: an insertion that
\* puts an entry that far from home resizes the table.  ngtcp2_map_insert looks
\* only at the entry it stored last, which need not be the far one (map.c).
FarEntriesResize == [][Far(map') => Far(map) \/ map'.bits > map.bits]_mapVars

=============================================================================
