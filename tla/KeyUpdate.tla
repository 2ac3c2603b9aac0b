----------------------------- MODULE KeyUpdate -----------------------------
(***************************************************************************)
(* 1-RTT key update between two endpoints over a network that loses,       *)
(* delays, duplicates and reorders packets.  A key is a generation number; *)
(* its phase bit is the parity, which is all a packet header shows.  The   *)
(* AEAD opens a packet exactly under the generation that sealed it.  Time  *)
(* enters only as "less than a PTO, a PTO, three PTOs since confirmed_ts". *)
(***************************************************************************)
EXTENDS Integers, FiniteSets

CONSTANTS
    MaxKeyPktNum,             \* bound: packet numbers each endpoint may use
    MaxGen,                \* bound: key generations
    MaxEncryption,         \* crypto.ctx.max_encryption
    MaxDecryptionFailure   \* crypto.ctx.max_decryption_failure

ASSUME KeyConstants ==
    /\ {MaxKeyPktNum, MaxGen, MaxDecryptionFailure} \subseteq Nat
    /\ MaxEncryption \in Nat \ {0}

VARIABLES
    conn,   \* the key update state of each endpoint
    net     \* every packet ever sent: delivering one leaves it there

keyVars == <<conn, net>>

Endpoint == {"client", "server"}
OtherEnd(e) == IF e = "client" THEN "server" ELSE "client"

NoKey == -1
Inf == MaxKeyPktNum + 1      \* NGTCP2_MAX_PKT_NUM: above every packet number
Phase(gen) == gen % 2

\* ngtcp2_crypto_km: the generation and the lowest packet number seen with it
Km(gen, num) == [gen |-> gen, num |-> num]

Initial(e) ==
    [rx |-> Km(0, -1), tx |-> Km(0, -1), uses |-> 0,
     old |-> NoKey, newrx |-> NoKey, newtx |-> NoKey,
     notConfirmed |-> FALSE, initiator |-> FALSE, since |-> 3,
     hsConfirmed |-> e = "server", last |-> -1, recvd |-> {},
     failures |-> 0, err |-> "none"]

InitKeys == conn = [e \in Endpoint |-> Initial(e)] /\ net = {}

MaxRecvd(c) == IF c.recvd = {} THEN -1
               ELSE CHOOSE n \in c.recvd : \A m \in c.recvd : m <= n

-----------------------------------------------------------------------------
(* Installing, rotating and confirming keys. *)

RotateKeys(c, num, initiator) ==
    [c EXCEPT !.old = c.rx.gen,
              !.rx = Km(c.newrx, num), !.newrx = NoKey,
              !.tx = Km(c.newtx, c.last + 1), !.newtx = NoKey, !.uses = 0,
              !.notConfirmed = TRUE,
              !.initiator = @ \/ initiator]

MayInitiate(c) ==
    /\ c.hsConfirmed
    /\ ~c.notConfirmed
    /\ c.newrx # NoKey /\ c.newtx # NoKey
    /\ c.since >= 3

InitiateKeyUpdate(c) == RotateKeys(c, Inf, TRUE)

\* ngtcp2_crypto_update_key: the keys of the next generation
UpdateKey(c) == [c EXCEPT !.newrx = c.rx.gen + 1, !.newtx = c.tx.gen + 1]

NotYet(c) == c.notConfirmed \/ c.since < 1 \/ c.newrx # NoKey

\* Mutant: the keys before the current ones are kept when new ones are made.
DeriveKeepsOld(c) == IF NotYet(c) THEN c ELSE UpdateKey(c)

DeriveNew(c) == IF NotYet(c) THEN c ELSE [UpdateKey(c) EXCEPT !.old = NoKey]

\* Mutant: the AEAD limit is not tested.
PrepareNoLimit(c) == DeriveNew(c)

PrepareKeyUpdate(c) ==
    IF c.hsConfirmed /\ c.uses >= MaxEncryption
    THEN IF MayInitiate(c) THEN DeriveNew(InitiateKeyUpdate(c))
         ELSE [c EXCEPT !.err = "AEAD_LIMIT_REACHED"]
    ELSE DeriveNew(c)

\* conn_handle_unconfirmed_key_update_from_remote, on writing an ACK frame
HandleUnconfirmedFromRemote(c, largest) ==
    IF c.notConfirmed /\ ~c.initiator /\ largest >= c.rx.num
    THEN [c EXCEPT !.notConfirmed = FALSE, !.since = 0] ELSE c

\* Mutant: an ACK of a packet sealed with the former key confirms the update.
ConfirmAnyAck(c, largest) ==
    IF c.notConfirmed /\ c.initiator /\ largest >= 0
    THEN [c EXCEPT !.notConfirmed = FALSE, !.initiator = FALSE, !.since = 0]
    ELSE c

\* the head of ngtcp2_rtb_recv_ack
ConfirmByAck(c, largest) ==
    IF c.notConfirmed /\ c.initiator /\ largest >= c.tx.num
    THEN [c EXCEPT !.notConfirmed = FALSE, !.initiator = FALSE, !.since = 0]
    ELSE c

-----------------------------------------------------------------------------
(* Choosing the key of a received packet. *)

KeyPhaseChanged(c, p) == Phase(c.rx.gen) # p.phase

\* The generation conn_recv_pkt decrypts with; NoKey forces a failure.
ChooseKey(c, p) ==
    IF ~KeyPhaseChanged(c, p) THEN c.rx.gen
    ELSE IF c.rx.num > p.num THEN c.old
    ELSE IF MaxRecvd(c) < p.num THEN c.newrx
    ELSE NoKey

DecryptFailed(c) ==
    [c EXCEPT !.failures = @ + 1,
              !.err = IF c.failures + 1 >= MaxDecryptionFailure
                      THEN "AEAD_LIMIT_REACHED" ELSE @]

\* Mutant: the boundary of the phases stays where the first packet was.
LowerNone(c, key, num) ==
    IF key = c.newrx THEN RotateKeys(c, num, FALSE) ELSE c

\* (the packet number kept with the old key is never read again)
AfterFrames(c, key, num) ==
    IF key = c.newrx THEN RotateKeys(c, num, FALSE)
    ELSE IF key = c.rx.gen /\ c.rx.num > num THEN [c EXCEPT !.rx.num = num]
    ELSE c

\* Decrypting, dropping duplicates, the ACK and HANDSHAKE_DONE frames, then
\* the rotation and the received packet number.
Process(c, p) ==
    LET key == ChooseKey(c, p)
        acked == IF p.ack >= 0 THEN ConfirmByAck(c, p.ack) ELSE c
        done == [acked EXCEPT !.hsConfirmed = @ \/ p.done]
    IN  IF key = NoKey \/ key # p.gen THEN DecryptFailed(c)
        ELSE IF p.num \in c.recvd THEN c
        ELSE [AfterFrames(done, key, p.num) EXCEPT !.recvd = @ \cup {p.num}]

-----------------------------------------------------------------------------
(* The calls of the application. *)

Up(e) == conn[e].err = "none"

ReadPkt(e, p) ==
    /\ Up(e) /\ p.to = e
    /\ LET c == PrepareKeyUpdate(conn[e])
       IN  conn' = [conn EXCEPT ![e] = IF c.err = "none" THEN Process(c, p) ELSE c]
    /\ UNCHANGED net

WriteVmsg(e, withAck) ==
    /\ Up(e) /\ conn[e].last < MaxKeyPktNum
    /\ LET c == PrepareKeyUpdate(conn[e])
           a == IF withAck THEN HandleUnconfirmedFromRemote(c, MaxRecvd(c)) ELSE c
           n == c.last + 1
       IN  IF c.err # "none"
           THEN conn' = [conn EXCEPT ![e] = c] /\ UNCHANGED net
           ELSE /\ conn' = [conn EXCEPT ![e] =
                              [a EXCEPT !.last = n, !.uses = @ + 1]]
                /\ net' = net \cup
                     {[to |-> OtherEnd(e), num |-> n, gen |-> c.tx.gen,
                       phase |-> Phase(c.tx.gen), done |-> e = "server" /\ n = 0,
                       ack |-> IF withAck THEN MaxRecvd(c) ELSE -1,
                       confirmed |-> c.hsConfirmed]}

InitiateCall(e) ==
    /\ Up(e) /\ MayInitiate(conn[e]) /\ conn[e].newtx <= MaxGen
    /\ conn' = [conn EXCEPT ![e] = InitiateKeyUpdate(conn[e])]
    /\ UNCHANGED net

\* Another PTO passes since confirmed_ts: after one, and after three.
TimePasses(e) ==
    /\ Up(e) /\ conn[e].since < 3
    /\ conn' = [conn EXCEPT ![e].since = IF @ = 0 THEN 1 ELSE 3]
    /\ UNCHANGED net

NextKeys ==
    \E e \in Endpoint :
        \/ \E p \in net : ReadPkt(e, p)
        \/ \E withAck \in BOOLEAN : WriteVmsg(e, withAck)
        \/ InitiateCall(e)
        \/ TimePasses(e)

SpecKeys == InitKeys /\ [][NextKeys]_keyVars

-----------------------------------------------------------------------------
(* Properties. *)

\* A packet, however late or reordered, whose key the receiver still holds (or
\* has already derived) is opened with that key: the phase bit and the
\* comparison of packet numbers in conn_recv_pkt never point at another one,
\* so data is lost to a key update only when its key is really gone.
HeldKeyIsChosen ==
    \A e \in Endpoint : \A p \in net :
        LET c == conn[e]
        IN  p.to = e /\ p.gen \in {c.old, c.rx.gen, c.newrx} =>
                ChooseKey(c, p) = p.gen

\* The assertions of conn_rotate_keys, conn_prepare_key_update and
\* conn_recv_pkt: old and new keys never coexist, the new keys come in pairs,
\* and a packet that starts a new phase is above the boundary of the current.
RotationAssertionsHold ==
    \A e \in Endpoint :
        LET c == conn[e]
        IN  /\ c.newrx # NoKey => c.old = NoKey
            /\ (c.newrx = NoKey) = (c.newtx = NoKey)
            /\ \A p \in net : p.to = e /\ KeyPhaseChanged(c, p) /\ MaxRecvd(c) < p.num
                                /\ c.rx.num <= p.num => c.rx.num < p.num

\* However many times both sides update, also at once, neither is ever more
\* than one generation ahead of the other, and each sends and receives in the
\* same one.
GenerationsClose ==
    /\ \A e \in Endpoint : conn[e].rx.gen = conn[e].tx.gen
    /\ conn["client"].tx.gen - conn["server"].tx.gen \in -1..1

\* Once the handshake is confirmed no key seals a packet beyond what its AEAD
\* allows: conn_prepare_key_update rotates or fails before every packet.
\* (Packets sealed before confirmation are counted, but not stopped; the field
\* confirmed of a packet is history, not part of its header.)
EncryptionLimit ==
    \A p \in net : p.confirmed =>
        Cardinality({q \in net : q.to = p.to /\ q.gen = p.gen /\ q.num <= p.num})
            <= MaxEncryption

\* A key update goes as its assertions say, keeps both sides within one
\* generation, and comes before a key is used up.
KeysSound == RotationAssertionsHold /\ GenerationsClose /\ EncryptionLimit
=============================================================================
