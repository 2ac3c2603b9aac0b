--------------------------------- MODULE Ksl ---------------------------------
(***************************************************************************)
(* The ordered container of the library (ksl.c): a tree of blocks with     *)
(* between MinNblk and MaxNblk entries whose leaves, and the blocks of     *)
(* every level, form a list.  The key of a subtree in its parent is no     *)
(* smaller than any key below it, and may be larger: removal does not      *)
(* lower it.                                                               *)
(*                                                                         *)
(* ksl.b maps the blocks in use to their contents; 0 stands for NULL.      *)
(* Indices count from 0 as in the code.  Allocation does not fail.         *)
(***************************************************************************)
EXTENDS Integers, SequencesExt, FiniteSetsExt, TLC

CONSTANTS
    Degr,       \* NGTCP2_KSL_DEGR
    KslKeys,    \* bound: keys
    KslEnd,     \* the position after the last entry
    MaxBlocks,  \* bound: blocks in use at once
    Preloads,   \* sequences of keys the container may start out with
    MaxOps,     \* bound: calls after those
    FreshKeys   \* whether keys move to numbers no inner block holds (gaptr, acktr)

VARIABLES
    ksl,        \* the container
    kres,       \* what the last call returned
    kdict,      \* the entries, as iteration meets them
    kops        \* calls made

kslVars == <<ksl, kres, kdict, kops>>

MaxNblk == 2 * Degr
MinNblk == Degr

Nth(s, id, i) == s.b[id].keys[i + 1]
Node(s, id, i) == s.b[id].nodes[i + 1]
N(s, id) == Len(s.b[id].keys)
Check(s, cond) == [s EXCEPT !.ok = @ /\ cond]
Fresh(s) == Min((1 .. MaxBlocks) \ DOMAIN s.b)
Put(s, id, blk) == [s EXCEPT !.b = (id :> blk) @@ @]
Free(s, id) == [s EXCEPT !.b = <<>> @@ Restrict(@, DOMAIN @ \ {id})]
SetNthKey(s, id, i, key) == [s EXCEPT !.b[id].keys[i + 1] = key]
LastKey(s, id) == Last(s.b[id].keys)

\* ngtcp2_ksl_init and ngtcp2_ksl_clear
EmptyKsl == [b |-> <<>>, root |-> 0, front |-> 0, back |-> 0, n |-> 0, ok |-> TRUE]

\* ksl_root_init
RootInit(s) ==
    LET id == Fresh(s)
    IN [Put(s, id, [keys |-> <<>>, nodes |-> <<>>, leaf |-> TRUE, next |-> 0, prev |-> 0])
          EXCEPT !.root = id, !.front = id, !.back = id]

\* ksl->search: entries of the block whose key is less
Search(s, id, key) == Cardinality({i \in DOMAIN s.b[id].keys : s.b[id].keys[i] < key})

\* The two halves, left entries of them in the old block
Halves(s, id, blk, rid, left) ==
    Put(Put(s, rid, [blk EXCEPT !.keys = SubSeq(@, left + 1, Len(@)), !.nodes = SubSeq(@, left + 1, Len(@)), !.prev = id]),
        id, [blk EXCEPT !.keys = SubSeq(@, 1, left), !.nodes = SubSeq(@, 1, left), !.next = rid])

\* The block after a new one is linked to it, or the list ends there
Linked(s, next, id, rid) ==
    IF next # 0 THEN [s EXCEPT !.b[next].prev = rid] ELSE IF s.back = id THEN [s EXCEPT !.back = rid] ELSE s

\* ksl_split_blk with the block after the new one left pointing to the old one
SplitBlkNoPrev(s, id) ==
    LET n == N(s, id)
        rid == Fresh(s)
    IN [s |-> Linked(Halves(s, id, s.b[id], rid, n - (n \div 2)), 0, id, rid), rid |-> rid]

\* ksl_split_blk: the new block is the right half
SplitBlk(s, id) ==
    LET n == N(s, id)
        rid == Fresh(s)
    IN [s |-> Check(Linked(Halves(s, id, s.b[id], rid, n - (n \div 2)), s.b[id].next, id, rid), n \div 2 >= MinNblk),
        rid |-> rid]

\* ksl_split_node
NodeInserted(s, id, i, rid) ==
    [s EXCEPT !.b[id].nodes = InsertAt(@, i + 2, rid), !.b[id].keys = InsertAt(@, i + 1, @[i + 1])]

NodeSplit(x, lid, id, i) == SetNthKey(NodeInserted(x.s, id, i, x.rid), id, i, LastKey(x.s, lid))

SplitNode(s, id, i) == NodeSplit(SplitBlk(s, Node(s, id, i)), Node(s, id, i), id, i)

\* ksl_split_root
RootSplit(x, lid) ==
    LET nid == Fresh(x.s)
        nroot == [keys |-> <<LastKey(x.s, lid), LastKey(x.s, x.rid)>>, nodes |-> <<lid, x.rid>>,
                  leaf |-> FALSE, next |-> 0, prev |-> 0]
    IN [Put(x.s, nid, nroot) EXCEPT !.root = nid]

SplitRoot(s) == RootSplit(SplitBlk(s, s.root), s.root)

\* ksl_insert_node, and the count of entries
InsertNode(s, id, i, key, data) ==
    [Check(s, N(s, id) < MaxNblk)
       EXCEPT !.b[id].keys = InsertAt(@, i + 1, key), !.b[id].nodes = InsertAt(@, i + 1, data), !.n = @ + 1]

RECURSIVE InsertLast(_, _, _, _)
RECURSIVE InsertFrom(_, _, _, _)

\* A full node is split before the descent enters it
Roomy(s, id, i) == IF N(s, Node(s, id, i)) = MaxNblk THEN SplitNode(s, id, i) ELSE s

EnterLast(s, id, key, data) ==
    InsertLast(SetNthKey(s, id, N(s, id) - 1, key), Node(s, id, N(s, id) - 1), key, data)

\* ngtcp2_ksl_insert: the new key extends the largest one of the subtree
InsertLast(s, id, key, data) ==
    IF s.b[id].leaf THEN [s |-> InsertNode(s, id, N(s, id), key, data), ok |-> TRUE, blk |-> id, i |-> N(s, id)]
    ELSE EnterLast(Roomy(s, id, N(s, id) - 1), id, key, data)

InsertIntoLeaf(s, id, i, key, data) ==
    IF (IF i < N(s, id) THEN Nth(s, id, i) = key ELSE FALSE)
    THEN [s |-> s, ok |-> FALSE, blk |-> s.back, i |-> N(s, s.back)]
    ELSE [s |-> InsertNode(s, id, i, key, data), ok |-> TRUE, blk |-> id, i |-> i]

\* Of a node that was split, the half whose keys may include the new one
Enter(s, id, i, key, data) ==
    InsertFrom(s, Node(s, id, IF Nth(s, id, i) < key THEN i + 1 ELSE i), key, data)

\* ngtcp2_ksl_insert: the descent to the leaf
InsertFrom(s, id, key, data) ==
    LET i == Search(s, id, key)
    IN IF s.b[id].leaf THEN InsertIntoLeaf(s, id, i, key, data)
       ELSE IF i = N(s, id) THEN InsertLast(s, id, key, data)
       ELSE Enter(Roomy(s, id, i), id, i, key, data)

InsertAtRoot(s, key, data) == InsertFrom(s, s.root, key, data)

\* ngtcp2_ksl_insert
Insert(s, key, data) ==
    IF s.root = 0 THEN InsertAtRoot(RootInit(s), key, data)
    ELSE InsertAtRoot(IF N(s, s.root) = MaxNblk THEN SplitRoot(s) ELSE s, key, data)

\* ksl_remove_node
RemoveNode(s, id, i) == [s EXCEPT !.b[id].keys = RemoveAt(@, i + 1), !.b[id].nodes = RemoveAt(@, i + 1)]

\* ksl_merge_node: nodes i and i + 1 of a block become one
MergeNode(s, id, i) ==
    LET lid == Node(s, id, i)
        rid == Node(s, id, i + 1)
        l == s.b[lid]
        r == s.b[rid]
        s1 == Put(s, lid, [l EXCEPT !.keys = @ \o r.keys, !.nodes = @ \o r.nodes, !.next = r.next])
        s2 == IF r.next # 0 THEN [s1 EXCEPT !.b[r.next].prev = lid]
              ELSE IF s.back = rid THEN [s1 EXCEPT !.back = lid] ELSE s1
        s3 == Check(Free(s2, rid), N(s, lid) + N(s, rid) <= MaxNblk)
    IN IF s.root = id /\ N(s, id) = 2 THEN [Free(s3, id) EXCEPT !.root = lid]
       ELSE SetNthKey(RemoveNode(s3, id, i + 1), id, i, LastKey(s3, lid))

\* The entries of nodes i and i + 1 of a block divided anew, m of them to the left
Divide(s, id, i, m) ==
    LET lid == Node(s, id, i)
        rid == Node(s, id, i + 1)
        keys == s.b[lid].keys \o s.b[rid].keys
        nodes == s.b[lid].nodes \o s.b[rid].nodes
        s1 == [s EXCEPT !.b[lid].keys = SubSeq(keys, 1, m), !.b[lid].nodes = SubSeq(nodes, 1, m),
                        !.b[rid].keys = SubSeq(keys, m + 1, Len(keys)), !.b[rid].nodes = SubSeq(nodes, m + 1, Len(nodes))]
    IN Check(SetNthKey(s1, id, i, keys[m]), m \in MinNblk .. MaxNblk /\ Len(keys) - m \in MinNblk .. MaxNblk)

\* ksl_shift_left: the first entries of node i go to node i - 1
ShiftLeft(s, id, i) ==
    LET l == N(s, Node(s, id, i - 1))
        r == N(s, Node(s, id, i))
        n == ((l + r + 1) \div 2) - l
    IN Check(Divide(s, id, i - 1, l + n), n > 0)

\* ksl_shift_right: the last entries of node i go to node i + 1
ShiftRight(s, id, i) ==
    LET l == N(s, Node(s, id, i))
        r == N(s, Node(s, id, i + 1))
        n == ((l + r + 1) \div 2) - r
    IN Check(Divide(s, id, i, l - n), n > 0)

\* A failed call gives back the end
Failed(s) == [s |-> s, ok |-> FALSE, blk |-> 0, i |-> 0]

\* The removal from a leaf with an iterator that stays in its block
RemoveFromLeafStay(s, id, i) == [s |-> [RemoveNode(s, id, i) EXCEPT !.n = @ - 1], ok |-> TRUE, blk |-> id, i |-> i]

\* The removal from a leaf and the iterator after it
RemoveFromLeaf(s, id, i) ==
    LET s1 == [RemoveNode(s, id, i) EXCEPT !.n = @ - 1]
        next == s1.b[id].next
    IN IF i = N(s1, id) /\ next # 0 THEN [s |-> s1, ok |-> TRUE, blk |-> next, i |-> 0]
       ELSE [s |-> s1, ok |-> TRUE, blk |-> id, i |-> i]

RECURSIVE RemoveFrom(_, _, _)

\* ngtcp2_ksl_remove: the descent; a block with too few entries is filled first
RemoveFrom(s, id, key) ==
    LET i == Search(s, id, key)
        kid == Node(s, id, i)
        More(j) == IF j \in 0 .. N(s, id) - 1 THEN N(s, Node(s, id, j)) > MinNblk ELSE FALSE
    IN IF i = N(s, id) THEN Failed(s)
       ELSE IF s.b[id].leaf THEN IF key < Nth(s, id, i) THEN Failed(s) ELSE RemoveFromLeaf(s, id, i)
       ELSE IF More(i) THEN RemoveFrom(s, kid, key)
       ELSE IF More(i + 1) THEN RemoveFrom(ShiftLeft(s, id, i + 1), kid, key)
       ELSE IF More(i - 1) THEN RemoveFrom(ShiftRight(s, id, i - 1), kid, key)
       ELSE IF i + 1 < N(s, id) THEN RemoveFrom(MergeNode(s, id, i), kid, key)
       ELSE IF i = 0 THEN Failed(Check(s, FALSE))
       ELSE RemoveFrom(MergeNode(s, id, i - 1), Node(s, id, i - 1), key)

\* ngtcp2_ksl_remove
RemoveKey(s, key) ==
    LET r == s.root
        short == ~s.b[r].leaf /\ N(s, r) = 2 /\ \A j \in 0 .. 1 : N(s, Node(s, r, j)) = MinNblk
        s1 == IF short THEN MergeNode(s, r, 0) ELSE s
    IN IF r = 0 THEN Failed(s) ELSE RemoveFrom(s1, s1.root, key)

\* ngtcp2_ksl_remove_hint
RemoveHint(s, it, key) ==
    IF it.blk # s.root /\ N(s, it.blk) = MinNblk THEN RemoveKey(s, key) ELSE RemoveFromLeaf(s, it.blk, it.i)

RECURSIVE LastLeaf(_, _)
RECURSIVE BoundFrom(_, _, _)
RECURSIVE UpdateFrom(_, _, _, _)

LastLeaf(s, id) == IF s.b[id].leaf THEN id ELSE LastLeaf(s, Last(s.b[id].nodes))

\* ngtcp2_ksl_lower_bound_search: the descent
BoundFrom(s, id, key) ==
    LET i == Search(s, id, key)
        leaf == LastLeaf(s, id)
        next == s.b[leaf].next
    IN IF ~s.b[id].leaf /\ i < N(s, id) THEN BoundFrom(s, Node(s, id, i), key)
       ELSE IF i < N(s, id) THEN [blk |-> id, i |-> i]
       ELSE IF next # 0 THEN [blk |-> next, i |-> 0]
       ELSE [blk |-> leaf, i |-> N(s, leaf)]

\* ngtcp2_ksl_lower_bound
LowerBound(s, key) == IF s.root = 0 THEN [blk |-> 0, i |-> 0] ELSE BoundFrom(s, s.root, key)

\* ngtcp2_ksl_update_key
UpdateFrom(s, id, old, new) ==
    LET i == Search(s, id, old)
        k == Nth(s, id, i)
    IN IF i = N(s, id) THEN Check(s, FALSE)
       ELSE IF s.b[id].leaf THEN SetNthKey(Check(s, k = old), id, i, new)
       ELSE UpdateFrom(IF k = old \/ k < new THEN SetNthKey(s, id, i, new) ELSE s, Node(s, id, i), old, new)

\* The key at an iterator
KeyAt(s, it) ==
    IF it.blk = 0 THEN KslEnd ELSE IF it.i = N(s, it.blk) THEN KslEnd ELSE Nth(s, it.blk, it.i)

RECURSIVE Forward(_, _)
RECURSIVE Backward(_, _, _)

\* ngtcp2_ksl_begin, ngtcp2_ksl_it_next: the entries from a leaf on
Forward(s, id) ==
    IF id = 0 THEN <<>>
    ELSE [i \in 1 .. N(s, id) |-> <<s.b[id].keys[i], s.b[id].nodes[i]>>] \o Forward(s, s.b[id].next)

\* ngtcp2_ksl_end, ngtcp2_ksl_it_prev: the keys before an iterator, last first
Backward(s, id, i) ==
    IF id = 0 THEN <<>>
    ELSE IF i > 0 THEN <<Nth(s, id, i - 1)>> \o Backward(s, id, i - 1)
    ELSE LET prev == s.b[id].prev IN Backward(s, prev, IF prev = 0 THEN 0 ELSE N(s, prev))

Entries(s) == Forward(s, s.front)
RECURSIVE AsDict(_)
AsDict(entries) == IF entries = <<>> THEN <<>> ELSE (Head(entries)[1] :> Head(entries)[2]) @@ AsDict(Tail(entries))
-----------------------------------------------------------------------------
RECURSIVE Load(_, _)
Load(s, keys) == IF keys = <<>> THEN s ELSE Load(Insert(s, Head(keys), Head(keys)).s, Tail(keys))

KslInit ==
    /\ \E keys \in Preloads : ksl = Load(EmptyKsl, keys)
    /\ kdict = AsDict(Entries(ksl)) /\ kres = [ok |-> TRUE, at |-> KslEnd] /\ kops = 0

\* A call's outcome becomes the state
Outcome(x) == ksl' = x.s /\ kdict' = AsDict(Entries(ksl')) /\ kres' = [ok |-> x.ok, at |-> KeyAt(x.s, x)]

\* Entries are inserted at even keys, each with its key as data; keys move up by one at most
KslInsert(k) == Outcome(Insert(ksl, k, k))

KslRemove(k) == Outcome(RemoveKey(ksl, k))

\* Users remove with the iterator they found the entry with
KslRemoveHint(k) == k \in DOMAIN kdict /\ Outcome(RemoveHint(ksl, LowerBound(ksl, k), k))

\* The numbers inner blocks hold
InnerKeys(s) == UNION {ToSet(s.b[id].keys) : id \in {x \in DOMAIN s.b : ~s.b[x].leaf}}

\* gaptr and acktr move the bound of a range.  The number it moves to was in
\* no entry before: it was in a gap (gaptr), or not yet received (acktr).
KslUpdateKey(old, new) ==
    /\ old \in DOMAIN kdict /\ new \notin DOMAIN kdict
    /\ FreshKeys => new \notin InnerKeys(ksl)
    /\ ksl' = UpdateFrom(ksl, ksl.root, old, new)
    /\ kdict' = AsDict(Entries(ksl')) /\ UNCHANGED kres

KslClear == ksl.root # 0 /\ ksl' = EmptyKsl /\ kdict' = <<>> /\ UNCHANGED kres

KslNext ==
    LET even == {x \in KslKeys : (x % 2) = 0}
    IN /\ kops < MaxOps /\ kops' = kops + 1
       /\ \/ \E k \in even : KslInsert(k) \/ KslUpdateKey(k, k + 1) \/ KslUpdateKey(k + 1, k)
          \/ \E k \in KslKeys : KslRemove(k) \/ KslRemoveHint(k)
          \/ KslClear
-----------------------------------------------------------------------------
Dict == INSTANCE Dictionary WITH Keys <- KslKeys, End <- KslEnd, dict <- kdict, res <- kres

\* Whatever the blocks are split, merged and balanced into, every call does
\* to the container what it does to a map from keys to data, and its
\* iterator stands where the map says (ngtcp2_ksl_insert, _remove,
\* _remove_hint, _update_key): no entry is lost, doubled or given the data
\* of another one.
KslIsDictionary == Dict!DictSpec

\* The assertions of ksl.c hold, iteration from either end meets the entries
\* in order and lower_bound finds the first entry not below its key, although
\* the keys of inner blocks may be larger than any key below them.
KslOrdered ==
    LET entries == Entries(ksl)
        keys == <<>> \o [i \in DOMAIN entries |-> entries[i][1]]
    IN /\ ksl.ok /\ ksl.n = Len(keys)
       /\ \A i, j \in DOMAIN keys : i < j => keys[i] < keys[j]
       /\ ksl.root # 0 => Backward(ksl, ksl.back, N(ksl, ksl.back)) = Reverse(keys)
       /\ \A k \in KslKeys : KeyAt(ksl, LowerBound(ksl, k)) = Dict!FirstFrom(ToSet(keys), k)

=============================================================================
