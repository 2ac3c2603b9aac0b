---------------------------- MODULE MCStorage ------------------------------
(***************************************************************************)
(* The containers of the library and the buffers of both directions, each  *)
(* used by itself: mode says which one a behaviour is about, and the       *)
(* others stay as they are.                                                *)
(***************************************************************************)
EXTENDS Ksl, HashMap, Queues, ReorderLoop, TxBuffers, RxBuffers

VARIABLE mode

\* Trees of height 1 to 3, built from either end, and one whose leaves differ in length
Evens(n) == [i \in 1 .. n |-> 2 * i]
MCPreloads == {<<>>, Evens(5), Evens(12), Reverse(Evens(12)), <<2, 8, 9, 10, 4>>}
MCKslKeys == 2 .. 27

\* Three keys at home in one slot, others in the slots behind it and in the last one
MCMapKeys == 1 .. 8
MCHash == <<8, 8, 9, 10, 13, 18, 60, 61>>

containerVars == <<kslVars, mapVars, pqVars, ringVars, reorderVars>>

vars == <<mode, containerVars, t, r>>

Init ==
    /\ mode \in {"ksl", "map", "heap", "ring", "reorder", "tx", "rx"}
    /\ KslInit
    /\ mode # "ksl" => ksl = EmptyKsl
    /\ MapInit /\ PqInit /\ RingInit
    /\ IF mode = "reorder" THEN ReorderInit ELSE list = <<>> /\ cont = MaxOffset
    /\ IF mode = "tx" THEN InitTx ELSE t = 0
    /\ IF mode = "rx" THEN InitRx ELSE r = 0

Next ==
    /\ UNCHANGED mode
    /\ \/ /\ UNCHANGED <<t, r>>
          /\ \/ mode = "ksl" /\ KslNext /\ UNCHANGED <<mapVars, pqVars, ringVars, reorderVars>>
             \/ mode = "map" /\ MapNext /\ UNCHANGED <<kslVars, pqVars, ringVars, reorderVars>>
             \/ mode = "heap" /\ PqNext /\ UNCHANGED <<kslVars, mapVars, ringVars, reorderVars>>
             \/ mode = "ring" /\ RingNext /\ UNCHANGED <<kslVars, mapVars, pqVars, reorderVars>>
             \/ mode = "reorder" /\ ReorderNext /\ UNCHANGED <<kslVars, mapVars, pqVars, ringVars>>
       \/ mode = "tx" /\ NextTx /\ UNCHANGED <<containerVars, r>>
       \/ mode = "rx" /\ NextRx /\ UNCHANGED <<containerVars, t>>

Spec == Init /\ [][Next]_vars

-----------------------------------------------------------------------------

\* The skip list, the hash map, the heap, the ring and the walks of reorder.c do
\* what their callers take them to do: ordered and balanced after any sequence of
\* operations (KslOrdered), a map (MapAnswersAsMap), a priority queue and a
\* double-ended queue (QueuesOrdered), the relations the stream model uses
\* (WalksMatchRelations), without a failing assertion (EmitAssertions).
ContainersSound ==
    /\ mode = "ksl" => KslOrdered
    /\ mode = "map" => MapAnswersAsMap
    /\ mode \in {"heap", "ring"} => QueuesOrdered
    /\ mode = "reorder" => WalksMatchRelations /\ EmitAssertions

\* Every reference that is taken on a buffer is given back exactly once, whatever
\* fails, is lost, split, copied or deleted on the way (TxRefsExact, RxRefsExact),
\* and every queued or sent frame reads the bytes the application submitted for
\* its offsets (TxBytesIntact).
BuffersSound ==
    /\ mode = "tx" => TxRefsExact /\ TxBytesIntact
    /\ mode = "rx" => RxRefsExact
=============================================================================
