----------------------------- MODULE Dictionary -----------------------------
(***************************************************************************)
(* What an ordered container promises its users (ksl.h): a finite map from *)
(* keys to data.  Insertion refuses a key that is present, removal refuses *)
(* one that is absent; an iterator given back by either stands at the new  *)
(* entry, or at the entry after the removed one.                           *)
(***************************************************************************)
EXTENDS Integers, FiniteSetsExt, Functions

CONSTANTS Keys, End

VARIABLES
    dict,   \* the entries
    res     \* what the last call returned: success, and the key at its iterator

dictVars == <<dict, res>>

DictInit == DOMAIN dict \subseteq Keys /\ res = [ok |-> TRUE, at |-> End]

\* The first key of a set that is at least k
FirstFrom(keys, k) ==
    LET above == {x \in keys : x >= k} IN IF above = {} THEN End ELSE Min(above)

DictInsert(k, v) ==
    \/ /\ res' = [ok |-> FALSE, at |-> End] /\ UNCHANGED dict
       /\ k \in DOMAIN dict
    \/ /\ res' = [ok |-> TRUE, at |-> k]
       /\ k \notin DOMAIN dict
       /\ dict' = [x \in DOMAIN dict \cup {k} |-> IF x = k THEN v ELSE dict[x]]

DictRemove(k) ==
    \/ /\ res' = [ok |-> FALSE, at |-> End] /\ UNCHANGED dict
       /\ k \notin DOMAIN dict
    \/ /\ k \in DOMAIN dict
       /\ res' = [ok |-> TRUE, at |-> FirstFrom(DOMAIN dict \ {k}, k)]
       /\ dict' = Restrict(dict, DOMAIN dict \ {k})

\* A key may move between its neighbours, with its data
DictUpdateKey(old, new) ==
    /\ UNCHANGED res
    /\ ~\E x \in DOMAIN dict \ {old} : (old < x /\ x <= new) \/ (new <= x /\ x < old)
    /\ dict' = [x \in (DOMAIN dict \ {old}) \cup {new} |-> IF x = new THEN dict[old] ELSE dict[x]]

DictClear == dict' = <<>> /\ UNCHANGED res

DictNext ==
    \/ \E k \in Keys : DictInsert(k, k) \/ DictRemove(k)
    \/ \E old \in DOMAIN dict \ DOMAIN dict', new \in DOMAIN dict' \ DOMAIN dict : DictUpdateKey(old, new)
    \/ DictClear

DictSpec == DictInit /\ [][DictNext]_dictVars

=============================================================================
