----------------------------- MODULE MCEndpoint -----------------------------
(***************************************************************************)
(* Parts of a connection that share no state, each explored on its own:    *)
(* `part' says which one moves, the others stay in an initial state.       *)
(***************************************************************************)
EXTENDS Acktr, KeyUpdate, Scid, StreamLimits, Accept, ConnClose

VARIABLE part

vars == <<part, ackVars, keyVars, sid, lim, acc, cl>>

MCAddrs == {<<1, 1>>, <<1, 2>>, <<2, 1>>}

Parts == {"acks", "keys", "scid", "limits", "accept", "close"}

Init ==
    /\ part \in Parts
    /\ InitAcktr
    /\ InitKeys
    /\ InitClose
    /\ IF part = "scid" THEN InitScid ELSE sid = NewScid(FALSE)
    /\ IF part = "limits" THEN InitLimits ELSE lim = NewLimits("local")
    /\ IF part = "accept" THEN InitAccept ELSE acc = NewAccept(TRUE, <<1, 1>>, NoToken)

Next ==
    \/ part = "acks" /\ NextAcktr /\ UNCHANGED <<part, keyVars, sid, lim, acc, cl>>
    \/ part = "keys" /\ NextKeys /\ UNCHANGED <<part, ackVars, sid, lim, acc, cl>>
    \/ part = "scid" /\ NextScid /\ UNCHANGED <<part, ackVars, keyVars, lim, acc, cl>>
    \/ part = "limits" /\ NextLimits /\ UNCHANGED <<part, ackVars, keyVars, sid, acc, cl>>
    \/ part = "accept" /\ NextAccept /\ UNCHANGED <<part, ackVars, keyVars, sid, lim, cl>>
    \/ part = "close" /\ NextClose /\ UNCHANGED <<part, ackVars, keyVars, sid, lim, acc>>

Spec == Init /\ [][Next]_vars
=============================================================================
