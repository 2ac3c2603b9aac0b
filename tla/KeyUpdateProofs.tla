--------------------------- MODULE KeyUpdateProofs ---------------------------
(***************************************************************************)
(* Key updates for any number of packets and generations: a packet whose   *)
(* key is still held is opened with it, both sides stay within one         *)
(* generation of each other, and no key is used beyond its limit.          *)
(***************************************************************************)
EXTENDS KeyUpdate, SetSums

KmType == [gen : Nat, num : Int]
ConnType ==
    [rx : KmType, tx : KmType, uses : Nat,
     old : Int, newrx : Int, newtx : Int,
     notConfirmed : BOOLEAN, initiator : BOOLEAN, since : {0, 1, 3},
     hsConfirmed : BOOLEAN, last : -1 .. MaxKeyPktNum, recvd : SUBSET (0 .. MaxKeyPktNum),
     failures : Nat, err : {"none", "AEAD_LIMIT_REACHED"}]
PktType ==
    [to : Endpoint, num : 0 .. MaxKeyPktNum, gen : Nat, phase : {0, 1}, done : BOOLEAN,
     ack : -1 .. MaxKeyPktNum, confirmed : BOOLEAN]

\* The packets sealed with the key of generation g that e has sent.
SealedBy(e, g, N) == {q \in N : q.to = OtherEnd(e) /\ q.gen = g}

\* The keys an endpoint holds: the current generation, the one before it or the
\* one after it.
HeldOK(c) ==
    /\ c.rx.gen = c.tx.gen
    /\ c.newtx = c.newrx
    /\ c.newrx = NoKey \/ (c.newrx = c.rx.gen + 1 /\ c.old = NoKey /\ ~c.notConfirmed)
    /\ c.old = NoKey \/ (c.old = c.rx.gen - 1 /\ c.rx.gen > 0)
    /\ c.initiator => c.notConfirmed

\* What an endpoint has sent: the numbers from tx.num on are of its generation.
SentOK(e, c, N) ==
    /\ c.tx.num <= c.last + 1
    /\ \A p \in N : p.to = OtherEnd(e) =>
          p.num <= c.last /\ p.gen <= c.tx.gen /\ (p.num >= c.tx.num <=> p.gen = c.tx.gen)
    /\ c.uses = Cardinality(SealedBy(e, c.tx.gen, N))

\* The boundary rx.num of the phases: a packet of the current generation that
\* was received, unless none was, and above all packets of former generations.
BoundaryOK(e, c, N) ==
    /\ \/ c.rx.gen = 0 /\ c.rx.num = -1
       \/ c.rx.gen > 0 /\ c.rx.num = Inf /\ c.notConfirmed /\ c.initiator
       \/ \E p \in N : p.to = e /\ p.gen = c.rx.gen /\ p.num = c.rx.num
    /\ \A p \in N : p.to = e /\ p.gen < c.rx.gen => p.num < c.rx.num
    /\ \A n \in c.recvd : \E p \in N : p.to = e /\ p.num = n /\ p.gen <= c.rx.gen

EndOK(e, c, N) ==
    /\ c \in ConnType
    /\ HeldOK(c)
    /\ SentOK(e, c, N)
    /\ BoundaryOK(e, c, N)

\* The packets: the generations grow with the numbers, and the sender of an ACK
\* has reached the generation of what it acknowledges.
NetOK(N) ==
    /\ IsFiniteSet(N)
    /\ N \subseteq PktType
    /\ \A p \in N : p.phase = Phase(p.gen)
    /\ \A p, q \in N : p.to = q.to /\ p.num <= q.num => p.gen <= q.gen
    /\ \A p \in N : p.ack >= 0 =>
          \E q \in N : q.to = OtherEnd(p.to) /\ q.num = p.ack /\ q.gen <= p.gen
    /\ \A p \in N : p.confirmed =>
          Cardinality({q \in N : q.to = p.to /\ q.gen = p.gen /\ q.num <= p.num})
            <= MaxEncryption

\* The inductive invariant.
KeyInv ==
    /\ conn = [e \in Endpoint |-> conn[e]]
    /\ NetOK(net)
    /\ \A e \in Endpoint : EndOK(e, conn[e], net)
    /\ \A e \in Endpoint : conn[e].rx.gen <= conn[OtherEnd(e)].rx.gen + 1

-----------------------------------------------------------------------------
(* Generations and boundaries *)

\* Two generations next to each other differ in their phase bit.
LEMMA PhasesDiffer ==
    ASSUME NEW g \in Nat
    PROVE  Phase(g) # Phase(g + 1) /\ Phase(g) \in {0, 1}
BY DEF Phase

\* The largest number received is one that was, and nothing is above it.
LEMMA MaxRecvdIs ==
    ASSUME NEW c \in ConnType
    PROVE  /\ MaxRecvd(c) \in -1 .. MaxKeyPktNum
           /\ MaxRecvd(c) = -1 \/ MaxRecvd(c) \in c.recvd
           /\ \A n \in c.recvd : n <= MaxRecvd(c)
<1>1. c.recvd \subseteq 0 .. MaxKeyPktNum /\ MaxKeyPktNum \in Nat
  BY KeyConstants DEF ConnType
<1>2. CASE c.recvd = {}
  BY <1>1, <1>2 DEF MaxRecvd
<1>3. CASE c.recvd # {}
  <2>1. c.recvd \subseteq Int /\ \A y \in c.recvd : y <= MaxKeyPktNum
    BY <1>1
  <2>2. \E x \in c.recvd : \A y \in c.recvd : y <= x
    BY <1>1, <1>3, <2>1, GreatestElement
  <2>3. MaxRecvd(c) \in c.recvd /\ \A m \in c.recvd : m <= MaxRecvd(c)
    BY <1>3, <2>2 DEF MaxRecvd
  <2> QED
    BY <1>1, <2>3
<1> QED
  BY <1>2, <1>3

\* Unless an update of its own is unconfirmed, an endpoint has received a packet
\* of its generation (or is in the first one): packets of a later generation are
\* above its boundary and above everything it has received.
LEMMA LaterIsAbove ==
    ASSUME NEW N, NetOK(N), NEW e \in Endpoint, NEW c, EndOK(e, c, N), ~c.notConfirmed,
           NEW p \in N, p.to = e, p.gen > c.rx.gen
    PROVE  c.rx.num < p.num /\ MaxRecvd(c) < p.num
<1>1. /\ c \in ConnType /\ p \in PktType /\ c.rx.gen \in Nat /\ c.rx.num \in Int
      /\ p.num \in Nat /\ p.gen \in Nat
  BY KeyConstants DEF NetOK, EndOK, ConnType, KmType, PktType
<1>2. ASSUME NEW q \in N, q.to = e, q.gen <= c.rx.gen PROVE q.num < p.num
  <2>1. q.num \in Nat /\ q.gen \in Nat
    BY KeyConstants DEF NetOK, PktType
  <2>2. p.num <= q.num => p.gen <= q.gen
    BY <1>2 DEF NetOK
  <2> QED
    BY <1>1, <1>2, <2>1, <2>2
<1>3. c.rx.num < p.num
  <2>1. \/ c.rx.gen = 0 /\ c.rx.num = -1
        \/ \E q \in N : q.to = e /\ q.gen = c.rx.gen /\ q.num = c.rx.num
    BY DEF EndOK, BoundaryOK
  <2> QED
    BY <1>1, <1>2, <2>1
<1>4. MaxRecvd(c) < p.num
  <2>1. MaxRecvd(c) = -1 \/ MaxRecvd(c) \in c.recvd
    BY <1>1, MaxRecvdIs
  <2>2. \A n \in c.recvd : \E q \in N : q.to = e /\ q.num = n /\ q.gen <= c.rx.gen
    BY DEF EndOK, BoundaryOK
  <2> QED
    BY <1>1, <1>2, <2>1, <2>2
<1> QED
  BY <1>3, <1>4

\* The peer of an endpoint that has received a packet of its own generation is in
\* that generation or a later one.
LEMMA PeerCaughtUp ==
    ASSUME NEW N, NEW e \in Endpoint, NEW c, EndOK(e, c, N), NEW o, EndOK(OtherEnd(e), o, N),
           c.rx.num # Inf \/ ~c.notConfirmed \/ ~c.initiator
    PROVE  c.rx.gen <= o.rx.gen
<1>1. c.rx.gen \in Nat /\ o.rx.gen \in Nat /\ o.rx.gen = o.tx.gen
  BY DEF EndOK, ConnType, KmType, HeldOK
<1>2. OtherEnd(OtherEnd(e)) = e
  BY DEF OtherEnd, Endpoint
<1>3. \A p \in N : p.to = e => p.gen <= o.tx.gen
  BY <1>2 DEF EndOK, SentOK
<1>4. \/ c.rx.gen = 0
      \/ \E p \in N : p.to = e /\ p.gen = c.rx.gen
  BY DEF EndOK, BoundaryOK
<1> QED
  BY <1>1, <1>3, <1>4

\* EndOK does not depend on the other fields.
LEMMA SameKeys ==
    ASSUME NEW N, NEW e, NEW c, EndOK(e, c, N), NEW d \in ConnType,
           d.rx = c.rx, d.tx = c.tx, d.uses = c.uses, d.old = c.old, d.newrx = c.newrx,
           d.newtx = c.newtx, d.notConfirmed = c.notConfirmed, d.initiator = c.initiator,
           d.last = c.last, d.recvd = c.recvd
    PROVE  EndOK(e, d, N)
BY DEF EndOK, HeldOK, SentOK, BoundaryOK

-----------------------------------------------------------------------------
(* The operations on one endpoint *)

\* conn_rotate_keys, by a call (num is Inf) or by packet num of the next
\* generation.
ByCall(c, num, d) == num = Inf /\ d = RotateKeys(c, num, TRUE)
ByPacket(c, num, d) == d = RotateKeys(c, num, FALSE)

\* The keys of the next generation become the current ones.
LEMMA Rotated ==
    ASSUME NEW N, NetOK(N), NEW e \in Endpoint, NEW c, EndOK(e, c, N), c.newrx # NoKey,
           NEW num, NEW d,
           \/ ByCall(c, num, d)
           \/ /\ \E p \in N : p.to = e /\ p.gen = c.newrx /\ p.num = num
              /\ ByPacket(c, num, d)
    PROVE  /\ EndOK(e, d, N)
           /\ d.rx.gen = c.rx.gen + 1 /\ d.tx.gen = c.tx.gen + 1 /\ d.rx.num = num
           /\ d.notConfirmed /\ d.last = c.last /\ d.recvd = c.recvd
           /\ d.hsConfirmed = c.hsConfirmed /\ d.err = c.err /\ d.uses = 0
           /\ ~c.notConfirmed
<1>0. PICK initiator \in BOOLEAN :
        /\ d = RotateKeys(c, num, initiator)
        /\ \/ num = Inf /\ initiator
           \/ \E p \in N : p.to = e /\ p.gen = c.newrx /\ p.num = num
  BY Zenon DEF ByCall, ByPacket
<1>1. /\ c \in ConnType /\ c.rx \in KmType /\ c.tx \in KmType /\ c.rx.gen \in Nat
      /\ c.last \in Int /\ MaxKeyPktNum \in Nat
      /\ N \subseteq PktType /\ NoKey = -1 /\ Inf = MaxKeyPktNum + 1
  BY KeyConstants DEF EndOK, ConnType, KmType, NetOK, NoKey, Inf
<1>2. /\ c.rx.gen = c.tx.gen /\ c.newrx = c.rx.gen + 1 /\ c.newtx = c.newrx
      /\ c.old = NoKey /\ ~c.notConfirmed /\ ~c.initiator
  BY DEF EndOK, HeldOK
<1>3. num \in Int
  BY <1>0, <1>1 DEF PktType
<1>4. /\ d \in ConnType
      /\ d.rx = Km(c.rx.gen + 1, num) /\ d.tx = Km(c.rx.gen + 1, c.last + 1)
      /\ d.uses = 0 /\ d.old = c.rx.gen /\ d.newrx = NoKey /\ d.newtx = NoKey
      /\ d.notConfirmed = TRUE /\ d.initiator = initiator /\ d.last = c.last
      /\ d.recvd = c.recvd /\ d.hsConfirmed = c.hsConfirmed /\ d.err = c.err
  <2>1. Km(c.rx.gen + 1, num) \in KmType /\ Km(c.rx.gen + 1, c.last + 1) \in KmType
    BY <1>1, <1>3 DEF Km, KmType
  <2>2. d = [c EXCEPT !.old = c.rx.gen, !.rx = Km(c.rx.gen + 1, num), !.newrx = NoKey,
                      !.tx = Km(c.rx.gen + 1, c.last + 1), !.newtx = NoKey, !.uses = 0,
                      !.notConfirmed = TRUE, !.initiator = initiator]
    BY <1>0, <1>2, Zenon DEF RotateKeys
  <2>3. NoKey \in Int /\ c.rx.gen \in Int
    BY <1>1
  <2>4. d \in ConnType
    BY <1>1, <2>1, <2>2, <2>3, ZenonT(40) DEF ConnType
  <2> QED
    BY <1>1, <2>2, <2>4 DEF ConnType
<1>5. /\ d.rx.gen = c.rx.gen + 1 /\ d.rx.num = num
      /\ d.tx.gen = c.rx.gen + 1 /\ d.tx.num = c.last + 1
  BY <1>4 DEF Km
<1>6. HeldOK(d)
  BY <1>1, <1>4, <1>5 DEF HeldOK
<1>7. SentOK(e, d, N)
  <2>1. \A p \in N : p.to = OtherEnd(e) => p.num <= c.last /\ p.gen <= c.rx.gen
    BY <1>2 DEF EndOK, SentOK
  <2>2. \A p \in N : p.num \in Nat /\ p.gen \in Nat
    BY <1>1 DEF PktType
  <2>3. SealedBy(e, c.rx.gen + 1, N) = {}
    BY <1>1, <2>1, <2>2 DEF SealedBy
  <2>4. \A p \in N : p.to = OtherEnd(e) =>
           p.num <= d.last /\ p.gen <= d.tx.gen /\ (p.num >= d.tx.num <=> p.gen = d.tx.gen)
    BY <1>1, <1>4, <1>5, <2>1, <2>2
  <2>5. d.uses = Cardinality(SealedBy(e, d.tx.gen, N))
    BY <1>4, <1>5, <2>3, FS_EmptySet
  <2> QED
    BY <1>1, <1>4, <1>5, <2>4, <2>5 DEF SentOK
<1>8. BoundaryOK(e, d, N)
  <2>1. \/ d.rx.gen > 0 /\ d.rx.num = Inf /\ d.notConfirmed /\ d.initiator
        \/ \E p \in N : p.to = e /\ p.gen = d.rx.gen /\ p.num = d.rx.num
    BY <1>0, <1>1, <1>2, <1>4, <1>5
  <2>2. ASSUME NEW q \in N, q.to = e, q.gen < d.rx.gen PROVE q.num < num
    <3>1. q.num \in 0 .. MaxKeyPktNum /\ q.gen \in Nat
      BY <1>1 DEF PktType
    <3>2. CASE num = Inf
      BY <1>1, <3>1, <3>2
    <3>3. ASSUME NEW p \in N, p.to = e, p.gen = c.newrx, p.num = num PROVE q.num < num
      <4>1. p.num \in Nat /\ p.gen \in Nat
        BY <1>1 DEF PktType
      <4>2. p.num <= q.num => p.gen <= q.gen
        BY <2>2, <3>3 DEF NetOK
      <4> QED
        BY <1>1, <1>2, <1>5, <2>2, <3>1, <3>3, <4>1, <4>2
    <3> QED
      BY <1>0, <3>2, <3>3
  <2>3. \A n \in d.recvd : \E p \in N : p.to = e /\ p.num = n /\ p.gen <= d.rx.gen
    <3>1. \A n \in c.recvd : \E p \in N : p.to = e /\ p.num = n /\ p.gen <= c.rx.gen
      BY DEF EndOK, BoundaryOK
    <3>2. \A p \in N : p.gen \in Nat
      BY <1>1 DEF PktType
    <3>3. \A p \in N : p.gen <= c.rx.gen => p.gen <= d.rx.gen
      BY <1>1, <1>5, <3>2
    <3> QED
      BY <1>4, <3>1, <3>3
  <2> QED
    BY <1>5, <2>1, <2>2, <2>3 DEF BoundaryOK
<1> QED
  BY <1>2, <1>4, <1>5, <1>6, <1>7, <1>8 DEF EndOK

\* ngtcp2_crypto_update_key when the old key may go.
LEMMA Derived ==
    ASSUME NEW N, NEW e \in Endpoint, NEW c, EndOK(e, c, N)
    PROVE  LET d == DeriveNew(c)
           IN  /\ EndOK(e, d, N)
               /\ d.rx = c.rx /\ d.tx = c.tx /\ d.last = c.last /\ d.recvd = c.recvd
               /\ d.hsConfirmed = c.hsConfirmed /\ d.err = c.err /\ d.uses = c.uses
<1>1. CASE NotYet(c)
  BY <1>1 DEF DeriveNew
<1>2. CASE ~NotYet(c)
  <2> DEFINE d == DeriveNew(c)
  <2>1. /\ c \in ConnType /\ HeldOK(c) /\ SentOK(e, c, N) /\ BoundaryOK(e, c, N)
        /\ c.rx.gen \in Nat
    BY DEF EndOK, ConnType, KmType
  <2>2. c.rx.gen = c.tx.gen /\ ~c.notConfirmed
    BY <1>2, <2>1 DEF NotYet, HeldOK
  <2>3. /\ d \in ConnType /\ d.rx = c.rx /\ d.tx = c.tx /\ d.last = c.last
        /\ d.recvd = c.recvd /\ d.hsConfirmed = c.hsConfirmed /\ d.err = c.err
        /\ d.uses = c.uses /\ d.newrx = c.rx.gen + 1 /\ d.newtx = c.rx.gen + 1
        /\ d.old = NoKey /\ d.notConfirmed = c.notConfirmed /\ d.initiator = c.initiator
    <3>1. d = [[c EXCEPT !.newrx = c.rx.gen + 1, !.newtx = c.rx.gen + 1] EXCEPT !.old = NoKey]
      BY <1>2, <2>2 DEF DeriveNew, UpdateKey
    <3>2. NoKey \in Int /\ c.rx.gen + 1 \in Int
      BY <2>1 DEF NoKey
    <3> QED
      BY <2>1, <3>1, <3>2, ZenonT(40) DEF ConnType
  <2> HIDE DEF d
  <2>4. HeldOK(d)
    BY <2>1, <2>2, <2>3 DEF HeldOK
  <2>5. SentOK(e, d, N) /\ BoundaryOK(e, d, N)
    BY <2>1, <2>3 DEF SentOK, BoundaryOK
  <2> QED
    BY <2>3, <2>4, <2>5 DEF EndOK, d
<1> QED
  BY <1>1, <1>2

\* conn_prepare_key_update: the key is changed or the connection fails before a
\* key is used up.
LEMMA Prepared ==
    ASSUME NEW N, NetOK(N), NEW e \in Endpoint, NEW c, EndOK(e, c, N)
    PROVE  LET d == PrepareKeyUpdate(c)
           IN  /\ EndOK(e, d, N)
               /\ d.rx.gen = c.rx.gen \/ (d.rx.gen = c.rx.gen + 1 /\ ~c.notConfirmed)
               /\ d.last = c.last /\ d.recvd = c.recvd
               /\ d.err = "none" /\ d.hsConfirmed => d.uses < MaxEncryption
<1>1. CASE ~(c.hsConfirmed /\ c.uses >= MaxEncryption)
  <2>1. PrepareKeyUpdate(c) = DeriveNew(c)
    BY <1>1 DEF PrepareKeyUpdate
  <2>2. c.uses \in Nat /\ MaxEncryption \in Nat
    BY KeyConstants DEF EndOK, ConnType
  <2> QED
    BY <1>1, <2>1, <2>2, Derived
<1>2. CASE c.hsConfirmed /\ c.uses >= MaxEncryption /\ MayInitiate(c)
  <2> DEFINE i == InitiateKeyUpdate(c)
  <2>1. PrepareKeyUpdate(c) = DeriveNew(i)
    BY <1>2 DEF PrepareKeyUpdate
  <2>2. /\ EndOK(e, i, N) /\ i.rx.gen = c.rx.gen + 1 /\ i.last = c.last /\ i.recvd = c.recvd
        /\ i.uses = 0 /\ ~c.notConfirmed
    <3>1. c.newrx # NoKey
      BY <1>2 DEF MayInitiate
    <3>2. ByCall(c, Inf, i)
      BY DEF InitiateKeyUpdate, ByCall
    <3> HIDE DEF i
    <3> QED
      BY <3>1, <3>2, Rotated
  <2> HIDE DEF i
  <2> QED
    BY <2>1, <2>2, Derived, KeyConstants
<1>3. CASE c.hsConfirmed /\ c.uses >= MaxEncryption /\ ~MayInitiate(c)
  <2> DEFINE d == [c EXCEPT !.err = "AEAD_LIMIT_REACHED"]
  <2>1. PrepareKeyUpdate(c) = d
    BY <1>3 DEF PrepareKeyUpdate
  <2>2. c \in ConnType
    BY DEF EndOK
  <2>3. /\ d \in ConnType /\ d.err = "AEAD_LIMIT_REACHED"
        /\ d.rx = c.rx /\ d.tx = c.tx /\ d.uses = c.uses /\ d.old = c.old /\ d.newrx = c.newrx
        /\ d.newtx = c.newtx /\ d.notConfirmed = c.notConfirmed /\ d.initiator = c.initiator
        /\ d.last = c.last /\ d.recvd = c.recvd
    BY <2>2 DEF ConnType
  <2> HIDE DEF d
  <2>4. EndOK(e, d, N)
    BY <2>3, SameKeys
  <2> QED
    BY <2>1, <2>3, <2>4
<1> QED
  BY <1>1, <1>2, <1>3

\* A packet of a generation an endpoint has reached is recorded as received.
Received(c, n) == [c EXCEPT !.recvd = @ \cup {n}]

\* Recording a packet number changes nothing else.
LEMMA AddReceived ==
    ASSUME NEW N, NetOK(N), NEW e \in Endpoint, NEW c, EndOK(e, c, N),
           NEW p \in N, p.to = e, p.gen <= c.rx.gen
    PROVE  EndOK(e, Received(c, p.num), N) /\ Received(c, p.num).rx = c.rx
<1> DEFINE d == Received(c, p.num)
<1>1. c \in ConnType /\ p.num \in 0 .. MaxKeyPktNum
  BY DEF EndOK, NetOK, PktType
<1>2. /\ d \in ConnType /\ d.rx = c.rx /\ d.tx = c.tx /\ d.uses = c.uses /\ d.old = c.old
      /\ d.newrx = c.newrx /\ d.newtx = c.newtx /\ d.notConfirmed = c.notConfirmed
      /\ d.initiator = c.initiator /\ d.last = c.last /\ d.recvd = c.recvd \cup {p.num}
  BY <1>1 DEF ConnType, Received
<1> HIDE DEF d
<1>3. HeldOK(d) /\ SentOK(e, d, N)
  BY <1>2 DEF EndOK, HeldOK, SentOK
<1>4. BoundaryOK(e, d, N)
  BY <1>2 DEF EndOK, BoundaryOK
<1> QED
  BY <1>2, <1>3, <1>4 DEF EndOK, d

\* The lowest packet number of the current generation, and the confirmation of an
\* update by an ACK, once a packet of that generation is opened.
LEMMA Lowered ==
    ASSUME NEW N, NetOK(N), NEW e \in Endpoint, NEW c, EndOK(e, c, N),
           NEW p \in N, p.to = e, p.gen = c.rx.gen,
           NEW d \in ConnType,
           d.tx = c.tx, d.uses = c.uses, d.old = c.old, d.newrx = c.newrx,
           d.newtx = c.newtx, d.last = c.last, d.recvd = c.recvd,
           d.rx.gen = c.rx.gen,
           d.rx.num = IF c.rx.num > p.num THEN p.num ELSE c.rx.num,
           \/ d.notConfirmed = c.notConfirmed /\ d.initiator = c.initiator
           \/ c.notConfirmed /\ ~d.notConfirmed /\ ~d.initiator
    PROVE  EndOK(e, d, N)
<1>1. /\ c \in ConnType /\ c.rx.num \in Int /\ c.rx.gen \in Nat
      /\ p.num \in 0 .. MaxKeyPktNum /\ MaxKeyPktNum \in Nat /\ Inf = MaxKeyPktNum + 1
      /\ c.notConfirmed \in BOOLEAN
  BY KeyConstants DEF EndOK, NetOK, PktType, ConnType, KmType, Inf
<1>2. HeldOK(d)
  BY DEF EndOK, HeldOK
<1>3. SentOK(e, d, N)
  BY DEF EndOK, SentOK
<1>4. \A q \in N : q.to = e /\ q.gen < c.rx.gen => q.num < d.rx.num
  <2>1. ASSUME NEW q \in N, q.to = e, q.gen < c.rx.gen PROVE q.num < d.rx.num
    <3>1. q.num \in Nat /\ q.gen \in Nat /\ (p.num <= q.num => p.gen <= q.gen)
      BY <2>1, KeyConstants DEF NetOK, PktType
    <3>2. q.num < c.rx.num
      BY <2>1 DEF EndOK, BoundaryOK
    <3> QED
      BY <1>1, <2>1, <3>1, <3>2
  <2> QED
    BY <2>1
<1>5. \/ d.rx.gen = 0 /\ d.rx.num = -1
      \/ d.rx.gen > 0 /\ d.rx.num = Inf /\ d.notConfirmed /\ d.initiator
      \/ \E q \in N : q.to = e /\ q.gen = d.rx.gen /\ q.num = d.rx.num
  <2>1. CASE c.rx.num > p.num
    BY <2>1
  <2>2. CASE ~(c.rx.num > p.num)
    <3>1. c.rx.num # Inf /\ d.rx.num = c.rx.num
      BY <1>1, <2>2
    <3> QED
      BY <3>1 DEF EndOK, BoundaryOK
  <2> QED
    BY <2>1, <2>2
<1>6. BoundaryOK(e, d, N)
  BY <1>4, <1>5 DEF EndOK, BoundaryOK
<1> QED
  BY <1>2, <1>3, <1>6 DEF EndOK

\* Only the ACK of a packet of its own generation confirms an endpoint's update.
LEMMA AckIsOfCurrent ==
    ASSUME NEW N, NetOK(N), NEW e \in Endpoint, NEW c, EndOK(e, c, N),
           NEW p \in N, p.to = e, p.ack >= 0, p.ack >= c.tx.num
    PROVE  c.rx.gen <= p.gen
<1>1. PICK q \in N : q.to = OtherEnd(p.to) /\ q.num = p.ack /\ q.gen <= p.gen
  BY DEF NetOK
<1>2. q.gen = c.tx.gen
  BY <1>1 DEF EndOK, SentOK
<1> QED
  BY <1>1, <1>2 DEF EndOK, HeldOK

\* The ACK and HANDSHAKE_DONE frames of a packet.
AfterAck(c, p) ==
    [(IF p.ack >= 0 THEN ConfirmByAck(c, p.ack) ELSE c) EXCEPT !.hsConfirmed = @ \/ p.done]

\* They change no key; an update they confirm is that of the packet or a former one.
LEMMA AckProcessed ==
    ASSUME NEW N, NetOK(N), NEW e \in Endpoint, NEW c, EndOK(e, c, N),
           NEW p \in N, p.to = e
    PROVE  LET d == AfterAck(c, p)
           IN  /\ d \in ConnType /\ d.rx = c.rx /\ d.tx = c.tx /\ d.uses = c.uses
               /\ d.old = c.old /\ d.newrx = c.newrx /\ d.newtx = c.newtx
               /\ d.last = c.last /\ d.recvd = c.recvd
               /\ \/ d.notConfirmed = c.notConfirmed /\ d.initiator = c.initiator
                  \/ /\ c.notConfirmed /\ ~d.notConfirmed /\ ~d.initiator
                     /\ c.rx.gen <= p.gen
<1>1. c \in ConnType /\ p.done \in BOOLEAN
  BY DEF EndOK, NetOK, PktType
<1>2. CASE p.ack >= 0 /\ c.notConfirmed /\ c.initiator /\ p.ack >= c.tx.num
  <2>1. c.rx.gen <= p.gen
    BY <1>2, AckIsOfCurrent
  <2> QED
    BY <1>1, <1>2, <2>1, Zenon DEF AfterAck, ConfirmByAck, ConnType
<1>3. CASE ~(p.ack >= 0 /\ c.notConfirmed /\ c.initiator /\ p.ack >= c.tx.num)
  <2>1. AfterAck(c, p) = [c EXCEPT !.hsConfirmed = @ \/ p.done]
    BY <1>3 DEF AfterAck, ConfirmByAck
  <2> QED
    BY <1>1, <2>1 DEF ConnType
<1> QED
  BY <1>2, <1>3

\* conn_recv_pkt: a packet is opened or not, its frames are processed, and the
\* keys are rotated when it is the first of the next generation.
LEMMA Processed ==
    ASSUME NEW N, NetOK(N), NEW e \in Endpoint, NEW c, EndOK(e, c, N),
           NEW p \in N, p.to = e
    PROVE  /\ EndOK(e, Process(c, p), N)
           /\ \/ Process(c, p).rx.gen = c.rx.gen
              \/ Process(c, p).rx.gen = c.rx.gen + 1 /\ p.gen = c.rx.gen + 1
<1> DEFINE key == ChooseKey(c, p)
           d == AfterAck(c, p)
           f == AfterFrames(d, key, p.num)
           r == Received(f, p.num)
<1>1. /\ c \in ConnType /\ c.rx.gen \in Nat /\ p.gen \in Nat /\ p.num \in Nat /\ NoKey = -1
      /\ c.rx \in KmType /\ HeldOK(c)
  BY KeyConstants DEF EndOK, NetOK, PktType, ConnType, KmType, NoKey
<1>2. CASE key = NoKey \/ key # p.gen
  <2> DEFINE x == DecryptFailed(c)
  <2>1. Process(c, p) = x
    BY <1>2 DEF Process
  <2>2. /\ x \in ConnType
        /\ x.rx = c.rx /\ x.tx = c.tx /\ x.uses = c.uses /\ x.old = c.old /\ x.newrx = c.newrx
        /\ x.newtx = c.newtx /\ x.notConfirmed = c.notConfirmed /\ x.initiator = c.initiator
        /\ x.last = c.last /\ x.recvd = c.recvd
    <3> DEFINE err == IF c.failures + 1 >= MaxDecryptionFailure
                      THEN "AEAD_LIMIT_REACHED" ELSE c.err
    <3>1. x = [c EXCEPT !.failures = c.failures + 1, !.err = err]
      BY DEF DecryptFailed
    <3>2. c.failures + 1 \in Nat /\ err \in {"none", "AEAD_LIMIT_REACHED"}
      BY <1>1 DEF ConnType
    <3> HIDE DEF err
    <3> QED
      BY <1>1, <3>1, <3>2, ZenonT(40) DEF ConnType
  <2> HIDE DEF x
  <2>3. EndOK(e, x, N)
    BY <2>2, SameKeys
  <2> QED
    BY <2>1, <2>2, <2>3
<1>3. CASE ~(key = NoKey \/ key # p.gen) /\ p.num \in c.recvd
  <2>1. Process(c, p) = c
    BY <1>3 DEF Process
  <2> QED
    BY <2>1
<1>4. CASE ~(key = NoKey \/ key # p.gen) /\ p.num \notin c.recvd
  <2>1. Process(c, p) = r
    BY <1>4 DEF Process, AfterAck, Received
  <2>2. key = p.gen /\ key \in {c.old, c.rx.gen, c.newrx} /\ key # NoKey
    BY <1>4 DEF ChooseKey
  <2>3. /\ d \in ConnType /\ d.rx = c.rx /\ d.tx = c.tx /\ d.uses = c.uses
        /\ d.old = c.old /\ d.newrx = c.newrx /\ d.newtx = c.newtx
        /\ d.last = c.last /\ d.recvd = c.recvd
        /\ \/ d.notConfirmed = c.notConfirmed /\ d.initiator = c.initiator
           \/ c.notConfirmed /\ ~d.notConfirmed /\ ~d.initiator /\ c.rx.gen <= p.gen
    BY AckProcessed
  <2> HIDE DEF d, key
  <2>4. CASE key = c.newrx
    <3>1. ~c.notConfirmed /\ c.newrx = c.rx.gen + 1
      BY <1>1, <2>2, <2>4 DEF HeldOK
    <3>2. EndOK(e, d, N)
      BY <2>3, <3>1, SameKeys
    <3>3. ByPacket(d, p.num, f)
      BY <2>3, <2>4 DEF AfterFrames, ByPacket
    <3>4. EndOK(e, f, N) /\ f.rx.gen = d.rx.gen + 1
      <4>1. d.newrx # NoKey /\ \E q \in N : q.to = e /\ q.gen = d.newrx /\ q.num = p.num
        BY <2>2, <2>3, <2>4, Zenon
      <4> HIDE DEF f
      <4> QED
        BY <3>2, <3>3, <4>1, Rotated
    <3> HIDE DEF f
    <3>5. EndOK(e, r, N) /\ r.rx = f.rx
      <4>1. p.gen <= f.rx.gen
        BY <1>1, <2>2, <2>3, <2>4, <3>1, <3>4
      <4> QED
        BY <3>4, <4>1, AddReceived
    <3> QED
      BY <2>1, <2>2, <2>3, <2>4, <3>1, <3>4, <3>5
  <2>5. CASE key # c.newrx /\ key = c.rx.gen
    <3>1. /\ f = IF c.rx.num > p.num THEN [d EXCEPT !.rx.num = p.num] ELSE d
      BY <2>3, <2>5 DEF AfterFrames
    <3>2. /\ f \in ConnType /\ f.tx = c.tx /\ f.uses = c.uses /\ f.old = c.old
          /\ f.newrx = c.newrx /\ f.newtx = c.newtx /\ f.last = c.last /\ f.recvd = c.recvd
          /\ f.rx.gen = c.rx.gen
          /\ f.rx.num = IF c.rx.num > p.num THEN p.num ELSE c.rx.num
          /\ f.notConfirmed = d.notConfirmed /\ f.initiator = d.initiator
      BY <1>1, <2>3, <3>1 DEF ConnType, KmType
    <3> HIDE DEF f
    <3>3. EndOK(e, f, N)
      BY <2>2, <2>3, <2>5, <3>2, Lowered, Zenon
    <3>4. EndOK(e, r, N) /\ r.rx = f.rx
      <4>1. p.gen <= f.rx.gen
        BY <1>1, <2>2, <2>5, <3>2
      <4> QED
        BY <3>3, <4>1, AddReceived
    <3> QED
      BY <2>1, <3>2, <3>4
  <2>6. CASE key # c.newrx /\ key # c.rx.gen
    <3>1. key = c.old /\ c.old = c.rx.gen - 1
      BY <1>1, <2>2, <2>6 DEF HeldOK
    <3>2. f = d
      BY <2>3, <2>6 DEF AfterFrames
    <3>3. EndOK(e, d, N)
      BY <1>1, <2>2, <2>3, <3>1, SameKeys
    <3> HIDE DEF f
    <3>4. EndOK(e, r, N) /\ r.rx = f.rx
      <4>1. p.gen <= f.rx.gen
        BY <1>1, <2>2, <2>3, <3>1, <3>2
      <4> QED
        BY <3>2, <3>3, <4>1, AddReceived
    <3> QED
      BY <2>1, <2>3, <3>2, <3>4
  <2> QED
    BY <2>4, <2>5, <2>6
<1> QED
  BY <1>2, <1>3, <1>4

\* What an endpoint that writes a packet becomes, and the packet.
Written(c, withAck) ==
    [(IF withAck THEN HandleUnconfirmedFromRemote(c, MaxRecvd(c)) ELSE c)
       EXCEPT !.last = c.last + 1, !.uses = @ + 1]
NewPkt(e, c, withAck) ==
    [to |-> OtherEnd(e), num |-> c.last + 1, gen |-> c.tx.gen,
     phase |-> Phase(c.tx.gen), done |-> e = "server" /\ c.last + 1 = 0,
     ack |-> IF withAck THEN MaxRecvd(c) ELSE -1,
     confirmed |-> c.hsConfirmed]

\* Writing a packet changes no key.
LEMMA WrittenFields ==
    ASSUME NEW c \in ConnType, c.last < MaxKeyPktNum, NEW withAck \in BOOLEAN
    PROVE  LET d == Written(c, withAck)
           IN  /\ d \in ConnType /\ d.rx = c.rx /\ d.tx = c.tx /\ d.uses = c.uses + 1
               /\ d.old = c.old /\ d.newrx = c.newrx /\ d.newtx = c.newtx
               /\ d.last = c.last + 1 /\ d.recvd = c.recvd /\ d.initiator = c.initiator
               /\ d.notConfirmed = c.notConfirmed \/ (~d.notConfirmed /\ ~c.initiator)
<1>1. c.last + 1 \in -1 .. MaxKeyPktNum /\ c.uses + 1 \in Nat
  BY KeyConstants DEF ConnType
<1>2. CASE withAck /\ c.notConfirmed /\ ~c.initiator /\ MaxRecvd(c) >= c.rx.num
  <2>1. Written(c, withAck) = [c EXCEPT !.notConfirmed = FALSE, !.since = 0,
                                        !.last = c.last + 1, !.uses = c.uses + 1]
    BY <1>2, Zenon DEF Written, HandleUnconfirmedFromRemote, ConnType
  <2>2. Written(c, withAck) \in ConnType
    BY <1>1, <2>1, Zenon DEF ConnType
  <2> QED
    BY <1>1, <1>2, <2>1, <2>2, ZenonT(40) DEF ConnType
<1>3. CASE ~(withAck /\ c.notConfirmed /\ ~c.initiator /\ MaxRecvd(c) >= c.rx.num)
  <2>1. Written(c, withAck) = [c EXCEPT !.last = c.last + 1, !.uses = @ + 1]
    BY <1>3, Zenon DEF Written, HandleUnconfirmedFromRemote
  <2> QED
    BY <1>1, <2>1, Zenon DEF ConnType
<1> QED
  BY <1>2, <1>3

\* A packet an endpoint writes, for the endpoint itself.
LEMMA WriterOK ==
    ASSUME NEW N, NetOK(N), NEW e \in Endpoint, NEW c, EndOK(e, c, N),
           c.last < MaxKeyPktNum, NEW withAck \in BOOLEAN
    PROVE  EndOK(e, Written(c, withAck), N \cup {NewPkt(e, c, withAck)})
<1> DEFINE d == Written(c, withAck)
           P == NewPkt(e, c, withAck)
           M == N \cup {P}
<1>1. /\ c \in ConnType /\ c.last \in Int /\ c.tx.gen \in Nat /\ c.rx.gen \in Nat
      /\ c.tx.num \in Int /\ HeldOK(c) /\ SentOK(e, c, N) /\ BoundaryOK(e, c, N)
  BY KeyConstants DEF EndOK, ConnType, KmType
<1>2. /\ d \in ConnType /\ d.rx = c.rx /\ d.tx = c.tx /\ d.uses = c.uses + 1
      /\ d.old = c.old /\ d.newrx = c.newrx /\ d.newtx = c.newtx
      /\ d.last = c.last + 1 /\ d.recvd = c.recvd /\ d.initiator = c.initiator
      /\ d.notConfirmed = c.notConfirmed \/ (~d.notConfirmed /\ ~c.initiator)
  BY <1>1, WrittenFields
<1>3. P.to = OtherEnd(e) /\ P.num = c.last + 1 /\ P.gen = c.tx.gen /\ P.to # e
  BY DEF NewPkt, OtherEnd, Endpoint
<1> HIDE DEF d, P
<1>4. HeldOK(d)
  BY <1>1, <1>2 DEF HeldOK
<1>5. \A p \in N : p.num \in Nat /\ p.gen \in Nat
  BY KeyConstants DEF NetOK, PktType
<1>6. SentOK(e, d, M)
  <2>1. \A p \in N : p.to = OtherEnd(e) =>
          p.num <= c.last /\ p.gen <= c.tx.gen /\ (p.num >= c.tx.num <=> p.gen = c.tx.gen)
    BY <1>1 DEF SentOK
  <2>2. c.tx.num <= c.last + 1 /\ c.uses = Cardinality(SealedBy(e, c.tx.gen, N))
    BY <1>1 DEF SentOK
  <2>3. \A p \in M : p.to = OtherEnd(e) =>
          p.num <= d.last /\ p.gen <= d.tx.gen /\ (p.num >= d.tx.num <=> p.gen = d.tx.gen)
    BY <1>1, <1>2, <1>3, <1>5, <2>1, <2>2
  <2>4. /\ SealedBy(e, d.tx.gen, M) = SealedBy(e, c.tx.gen, N) \cup {P}
        /\ P \notin SealedBy(e, c.tx.gen, N)
    BY <1>1, <1>2, <1>3, <1>5, <2>1 DEF SealedBy
  <2>5. IsFiniteSet(SealedBy(e, c.tx.gen, N))
    BY FS_Subset DEF SealedBy, NetOK
  <2>6. Cardinality(SealedBy(e, d.tx.gen, M)) = Cardinality(SealedBy(e, c.tx.gen, N)) + 1
    BY <2>4, <2>5, FS_AddElement, Zenon
  <2> QED
    BY <1>1, <1>2, <2>2, <2>3, <2>6 DEF SentOK
<1>7. BoundaryOK(e, d, M)
  <2>1. \/ d.rx.gen = 0 /\ d.rx.num = -1
        \/ d.rx.gen > 0 /\ d.rx.num = Inf /\ d.notConfirmed /\ d.initiator
        \/ \E p \in M : p.to = e /\ p.gen = d.rx.gen /\ p.num = d.rx.num
    BY <1>1, <1>2 DEF BoundaryOK
  <2>2. \A p \in M : p.to = e /\ p.gen < d.rx.gen => p.num < d.rx.num
    BY <1>1, <1>2, <1>3 DEF BoundaryOK
  <2>3. \A n \in d.recvd : \E p \in M : p.to = e /\ p.num = n /\ p.gen <= d.rx.gen
    BY <1>1, <1>2, SMTT(60) DEF BoundaryOK
  <2> QED
    BY <2>1, <2>2, <2>3 DEF BoundaryOK
<1> QED
  BY <1>2, <1>4, <1>6, <1>7 DEF EndOK, d, P

\* A packet an endpoint writes, for its peer.  A peer that is a generation ahead
\* has received nothing of that generation, so its boundary is still open.
LEMMA ReaderOK ==
    ASSUME NEW N, NetOK(N), NEW e \in Endpoint, NEW c, EndOK(e, c, N),
           NEW o, EndOK(OtherEnd(e), o, N),
           c.last < MaxKeyPktNum, NEW withAck \in BOOLEAN
    PROVE  EndOK(OtherEnd(e), o, N \cup {NewPkt(e, c, withAck)})
<1> DEFINE P == NewPkt(e, c, withAck)
           M == N \cup {P}
           u == OtherEnd(e)
<1>1. /\ o \in ConnType /\ o.rx.gen \in Nat /\ o.rx.num \in Int /\ c.tx.gen \in Nat
      /\ HeldOK(o) /\ SentOK(u, o, N) /\ BoundaryOK(u, o, N)
      /\ c.last \in Int /\ MaxKeyPktNum \in Nat /\ Inf = MaxKeyPktNum + 1
  BY KeyConstants DEF EndOK, ConnType, KmType, Inf
<1>2. /\ P.to = u /\ P.num = c.last + 1 /\ P.gen = c.tx.gen
      /\ OtherEnd(u) = e /\ u # e
  BY DEF NewPkt, OtherEnd, Endpoint
<1> HIDE DEF P, u
<1>3. SentOK(u, o, M)
  <2>1. SealedBy(u, o.tx.gen, M) = SealedBy(u, o.tx.gen, N)
    BY <1>2 DEF SealedBy
  <2> QED
    BY <1>1, <1>2, <2>1 DEF SentOK
<1>4. P.gen < o.rx.gen => P.num < o.rx.num
  <2>1. \A p \in N : p.to = u => p.gen <= c.tx.gen /\ p.gen \in Nat
    BY DEF EndOK, SentOK, NetOK, PktType, u
  <2>2. c.tx.gen < o.rx.gen => o.rx.num = Inf
    BY <1>1, <2>1 DEF BoundaryOK
  <2> QED
    BY <1>1, <1>2, <2>2
<1>5. BoundaryOK(u, o, M)
  <2>1. \/ o.rx.gen = 0 /\ o.rx.num = -1
        \/ o.rx.gen > 0 /\ o.rx.num = Inf /\ o.notConfirmed /\ o.initiator
        \/ \E p \in M : p.to = u /\ p.gen = o.rx.gen /\ p.num = o.rx.num
    BY <1>1 DEF BoundaryOK
  <2>2. \A p \in M : p.to = u /\ p.gen < o.rx.gen => p.num < o.rx.num
    BY <1>1, <1>4 DEF BoundaryOK
  <2>3. \A n \in o.recvd : \E p \in M : p.to = u /\ p.num = n /\ p.gen <= o.rx.gen
    BY <1>1 DEF BoundaryOK
  <2> QED
    BY <2>1, <2>2, <2>3 DEF BoundaryOK
<1> QED
  BY <1>1, <1>3, <1>5 DEF EndOK, P, u

\* A packet an endpoint writes, among all the packets.
LEMMA NetWritten ==
    ASSUME NEW N, NetOK(N), NEW e \in Endpoint, NEW c, EndOK(e, c, N),
           c.last < MaxKeyPktNum, NEW withAck \in BOOLEAN,
           c.hsConfirmed => c.uses < MaxEncryption
    PROVE  NetOK(N \cup {NewPkt(e, c, withAck)})
<1> DEFINE P == NewPkt(e, c, withAck)
           M == N \cup {P}
           u == OtherEnd(e)
           Below(p, S) == {q \in S : q.to = p.to /\ q.gen = p.gen /\ q.num <= p.num}
<1>1. /\ c \in ConnType /\ c.last \in -1 .. MaxKeyPktNum /\ MaxKeyPktNum \in Nat
      /\ c.tx.gen \in Nat /\ c.rx.gen = c.tx.gen /\ MaxEncryption \in Nat /\ c.uses \in Nat
      /\ IsFiniteSet(N) /\ N \subseteq PktType
  BY KeyConstants DEF EndOK, ConnType, KmType, HeldOK, NetOK
<1>2. /\ P.to = u /\ P.num = c.last + 1 /\ P.gen = c.tx.gen /\ OtherEnd(u) = e /\ u # e
      /\ P.phase = Phase(P.gen) /\ P.confirmed = c.hsConfirmed
      /\ P.ack = IF withAck THEN MaxRecvd(c) ELSE -1
  BY DEF NewPkt, OtherEnd, Endpoint
<1>3. P \in PktType
  <2>1. MaxRecvd(c) \in -1 .. MaxKeyPktNum
    BY <1>1, MaxRecvdIs
  <2>2. c.last + 1 \in 0 .. MaxKeyPktNum /\ Phase(c.tx.gen) \in {0, 1} /\ u \in Endpoint
    BY <1>1, PhasesDiffer DEF OtherEnd, Endpoint
  <2>3. c.hsConfirmed \in BOOLEAN /\ (e = "server" /\ c.last + 1 = 0) \in BOOLEAN
    BY <1>1 DEF ConnType
  <2>4. (IF withAck THEN MaxRecvd(c) ELSE -1) \in -1 .. MaxKeyPktNum
    BY <1>1, <2>1
  <2> QED
    BY <1>1, <2>2, <2>3, <2>4 DEF NewPkt, PktType
<1> HIDE DEF P, u
<1>4. \A p \in N : p.num \in Nat /\ p.gen \in Nat
  BY <1>1 DEF PktType
<1>5. \A p \in N : p.to = u => p.num <= c.last /\ p.gen <= c.tx.gen
  BY DEF EndOK, SentOK, u
<1>6. IsFiniteSet(M) /\ M \subseteq PktType /\ \A p \in M : p.phase = Phase(p.gen)
  BY <1>1, <1>2, <1>3, FS_AddElement DEF NetOK
<1>7. \A p, q \in M : p.to = q.to /\ p.num <= q.num => p.gen <= q.gen
  <2>1. \A p, q \in N : p.to = q.to /\ p.num <= q.num => p.gen <= q.gen
    BY DEF NetOK
  <2> QED
    BY <1>1, <1>2, <1>4, <1>5, <2>1
<1>8. \A p \in M : p.ack >= 0 =>
        \E q \in M : q.to = OtherEnd(p.to) /\ q.num = p.ack /\ q.gen <= p.gen
  <2>1. P.ack >= 0 => \E q \in N : q.to = e /\ q.num = P.ack /\ q.gen <= c.rx.gen
    <3>1. SUFFICES ASSUME P.ack >= 0
                   PROVE  \E q \in N : q.to = e /\ q.num = P.ack /\ q.gen <= c.rx.gen
      OBVIOUS
    <3>2. P.ack \in c.recvd
      BY <1>1, <1>2, <3>1, MaxRecvdIs
    <3> QED
      BY <3>2 DEF EndOK, BoundaryOK
  <2> QED
    BY <1>1, <1>2, <2>1 DEF NetOK
<1>9. \A p \in M : p.confirmed => Cardinality(Below(p, M)) <= MaxEncryption
  <2>1. ASSUME NEW p \in N, p.confirmed PROVE Cardinality(Below(p, M)) <= MaxEncryption
    <3>1. Below(p, M) = Below(p, N)
      BY <1>1, <1>2, <1>4, <1>5
    <3>2. Cardinality(Below(p, N)) <= MaxEncryption
      BY <2>1 DEF NetOK
    <3> QED
      BY <3>1, <3>2, SMTT(60)
  <2>2. ASSUME P.confirmed PROVE Cardinality(Below(P, M)) <= MaxEncryption
    <3>1. /\ Below(P, M) = SealedBy(e, c.tx.gen, N) \cup {P}
          /\ P \notin SealedBy(e, c.tx.gen, N)
      BY <1>1, <1>2, <1>4, <1>5 DEF SealedBy, u
    <3>2. IsFiniteSet(SealedBy(e, c.tx.gen, N))
      BY <1>1, FS_Subset DEF SealedBy
    <3>3. Cardinality(Below(P, M)) = Cardinality(SealedBy(e, c.tx.gen, N)) + 1
      BY <3>1, <3>2, FS_AddElement, Zenon
    <3>4. c.uses = Cardinality(SealedBy(e, c.tx.gen, N))
      BY DEF EndOK, SentOK
    <3> QED
      BY <1>1, <1>2, <2>2, <3>3, <3>4
  <2> QED
    BY <2>1, <2>2
<1> QED
  BY <1>6, <1>7, <1>8, <1>9 DEF NetOK, P

-----------------------------------------------------------------------------
(* The steps *)

\* A step of one endpoint that writes no packet: its keys stay sound, and it goes
\* a generation ahead only from one its peer has reached.
LEMMA EndStep ==
    ASSUME KeyInv, NEW e \in Endpoint, NEW d, conn' = [conn EXCEPT ![e] = d], net' = net,
           EndOK(e, d, net), conn[e].rx.gen <= d.rx.gen,
           d.rx.gen <= conn[OtherEnd(e)].rx.gen + 1
    PROVE  KeyInv'
<1>1. \A x \in Endpoint : conn'[x] = IF x = e THEN d ELSE conn[x]
  BY DEF KeyInv
<1>2. \A x \in Endpoint : EndOK(x, conn'[x], net')
  BY <1>1 DEF KeyInv
<1>3. \A x \in Endpoint : conn[x].rx.gen \in Nat /\ conn'[x].rx.gen \in Nat
  BY <1>2 DEF KeyInv, EndOK, ConnType, KmType
<1>4. \A x \in Endpoint : OtherEnd(x) \in Endpoint /\ OtherEnd(x) # x
                          /\ (x # e => OtherEnd(x) = e)
  BY DEF OtherEnd, Endpoint
<1>5. \A x \in Endpoint : conn'[x].rx.gen <= conn'[OtherEnd(x)].rx.gen + 1
  <2>1. \A x \in Endpoint : conn[x].rx.gen <= conn[OtherEnd(x)].rx.gen + 1
    BY DEF KeyInv
  <2> QED
    BY <1>1, <1>3, <1>4, <2>1
<1>6. conn' = [x \in Endpoint |-> conn'[x]] /\ NetOK(net')
  BY DEF KeyInv
<1> QED
  BY <1>2, <1>5, <1>6 DEF KeyInv

\* An endpoint whose last update is confirmed, or that has received a packet of its
\* generation, is not ahead of its peer.
LEMMA NotAhead ==
    ASSUME KeyInv, NEW e \in Endpoint, ~conn[e].notConfirmed
    PROVE  conn[e].rx.gen <= conn[OtherEnd(e)].rx.gen
<1>1. EndOK(e, conn[e], net) /\ EndOK(OtherEnd(e), conn[OtherEnd(e)], net)
  BY DEF KeyInv, OtherEnd, Endpoint
<1> QED
  BY <1>1, PeerCaughtUp

\* ngtcp2_conn_read_pkt.
LEMMA ReadStep ==
    ASSUME KeyInv, NEW e \in Endpoint, NEW p \in net, ReadPkt(e, p)
    PROVE  KeyInv'
<1> DEFINE c == PrepareKeyUpdate(conn[e])
           d == IF c.err = "none" THEN Process(c, p) ELSE c
           o == conn[OtherEnd(e)]
<1>1. p.to = e /\ conn' = [conn EXCEPT ![e] = d] /\ net' = net
  BY DEF ReadPkt
<1>2. NetOK(net) /\ EndOK(e, conn[e], net) /\ EndOK(OtherEnd(e), o, net)
      /\ conn[e].rx.gen <= o.rx.gen + 1
  BY DEF KeyInv, OtherEnd, Endpoint
<1>3. /\ EndOK(e, c, net)
      /\ c.rx.gen = conn[e].rx.gen \/ (c.rx.gen = conn[e].rx.gen + 1 /\ ~conn[e].notConfirmed)
  BY <1>2, Prepared
<1>4. conn[e].rx.gen \in Nat /\ c.rx.gen \in Nat /\ o.rx.gen \in Nat /\ o.rx.gen = o.tx.gen
  BY <1>2, <1>3, Zenon DEF EndOK, ConnType, KmType, HeldOK
<1>5. ~conn[e].notConfirmed => conn[e].rx.gen <= o.rx.gen
  BY NotAhead
<1> HIDE DEF c, o
<1>6. /\ EndOK(e, d, net)
      /\ d.rx.gen = c.rx.gen \/ (d.rx.gen = c.rx.gen + 1 /\ p.gen = c.rx.gen + 1)
  BY <1>1, <1>2, <1>3, Processed, SMTT(60)
<1>7. p.gen <= o.tx.gen
  <2>1. OtherEnd(OtherEnd(e)) = e
    BY DEF OtherEnd, Endpoint
  <2> QED
    BY <1>1, <1>2, <2>1 DEF EndOK, SentOK
<1> HIDE DEF d
<1>8. conn[e].rx.gen <= d.rx.gen /\ d.rx.gen <= o.rx.gen + 1
  BY <1>2, <1>3, <1>4, <1>5, <1>6, <1>7, SMTT(60)
<1> QED
  BY <1>1, <1>6, <1>8, EndStep, Zenon DEF o

\* ngtcp2_conn_initiate_key_update.
LEMMA InitiateStep ==
    ASSUME KeyInv, NEW e \in Endpoint, InitiateCall(e)
    PROVE  KeyInv'
<1> DEFINE d == InitiateKeyUpdate(conn[e])
           o == conn[OtherEnd(e)]
<1>1. conn' = [conn EXCEPT ![e] = d] /\ net' = net /\ ~conn[e].notConfirmed
      /\ conn[e].newrx # NoKey
  BY DEF InitiateCall, MayInitiate
<1>2. NetOK(net) /\ EndOK(e, conn[e], net) /\ EndOK(OtherEnd(e), o, net)
  BY DEF KeyInv, OtherEnd, Endpoint
<1>3. ByCall(conn[e], Inf, d)
  BY DEF InitiateKeyUpdate, ByCall
<1> HIDE DEF d
<1>4. EndOK(e, d, net) /\ d.rx.gen = conn[e].rx.gen + 1
  BY <1>1, <1>2, <1>3, Rotated
<1>5. conn[e].rx.gen <= o.rx.gen /\ conn[e].rx.gen \in Nat /\ o.rx.gen \in Nat
  BY <1>1, <1>2, NotAhead DEF EndOK, ConnType, KmType
<1>6. conn[e].rx.gen <= d.rx.gen /\ d.rx.gen <= o.rx.gen + 1
  BY <1>4, <1>5
<1> QED
  BY <1>1, <1>4, <1>6, EndStep, Zenon DEF o

\* Time passes after an update was confirmed.
LEMMA TimeStep ==
    ASSUME KeyInv, NEW e \in Endpoint, TimePasses(e)
    PROVE  KeyInv'
<1> DEFINE c == conn[e]
           since == IF c.since = 0 THEN 1 ELSE 3
           d == [c EXCEPT !.since = since]
<1>1. NetOK(net) /\ EndOK(e, c, net) /\ c \in ConnType /\ c.rx.gen \in Nat
      /\ c.rx.gen <= conn[OtherEnd(e)].rx.gen + 1
  BY Zenon DEF KeyInv, EndOK, ConnType, KmType
<1>2. conn' = [conn EXCEPT ![e] = d] /\ net' = net
  BY DEF TimePasses, KeyInv
<1>3. since \in {0, 1, 3}
  OBVIOUS
<1> HIDE DEF since
<1>4. /\ d \in ConnType
      /\ d.rx = c.rx /\ d.tx = c.tx /\ d.uses = c.uses /\ d.old = c.old /\ d.newrx = c.newrx
      /\ d.newtx = c.newtx /\ d.notConfirmed = c.notConfirmed /\ d.initiator = c.initiator
      /\ d.last = c.last /\ d.recvd = c.recvd
  BY <1>1, <1>3 DEF ConnType
<1> HIDE DEF d, c
<1>5. EndOK(e, d, net) /\ c.rx.gen <= d.rx.gen
  BY <1>1, <1>4, SameKeys
<1> QED
  BY <1>1, <1>2, <1>4, <1>5, EndStep, Zenon DEF c

\* ngtcp2_conn_write_vmsg.
LEMMA WriteStep ==
    ASSUME KeyInv, NEW e \in Endpoint, NEW withAck \in BOOLEAN, WriteVmsg(e, withAck)
    PROVE  KeyInv'
<1> DEFINE c == PrepareKeyUpdate(conn[e])
           o == conn[OtherEnd(e)]
           d == Written(c, withAck)
           P == NewPkt(e, c, withAck)
<1>1. NetOK(net) /\ EndOK(e, conn[e], net) /\ EndOK(OtherEnd(e), o, net)
      /\ conn[e].rx.gen <= o.rx.gen + 1
  BY DEF KeyInv, OtherEnd, Endpoint
<1>2. /\ EndOK(e, c, net) /\ c.last = conn[e].last
      /\ c.rx.gen = conn[e].rx.gen \/ (c.rx.gen = conn[e].rx.gen + 1 /\ ~conn[e].notConfirmed)
      /\ c.err = "none" /\ c.hsConfirmed => c.uses < MaxEncryption
  BY <1>1, Prepared, SMTT(60)
<1>3. conn[e].rx.gen \in Nat /\ c.rx.gen \in Nat /\ o.rx.gen \in Nat /\ c \in ConnType
  BY <1>1, <1>2 DEF EndOK, ConnType, KmType
<1>4. ~conn[e].notConfirmed => conn[e].rx.gen <= o.rx.gen
  BY NotAhead, SMTT(60)
<1>5. conn[e].rx.gen <= c.rx.gen /\ c.rx.gen <= o.rx.gen + 1
  BY <1>1, <1>2, <1>3, <1>4, SMTT(60)
<1>6. CASE c.err # "none"
  <2>1. conn' = [conn EXCEPT ![e] = c] /\ net' = net
    BY <1>6 DEF WriteVmsg
  <2> HIDE DEF c
  <2> QED
    BY <1>2, <1>5, <2>1, EndStep, Zenon
<1>7. CASE c.err = "none"
  <2>1. conn' = [conn EXCEPT ![e] = d] /\ net' = net \cup {P} /\ c.last < MaxKeyPktNum
    BY <1>2, <1>7 DEF WriteVmsg, Written, NewPkt
  <2>2. /\ EndOK(e, d, net \cup {P}) /\ EndOK(OtherEnd(e), o, net \cup {P})
        /\ NetOK(net \cup {P}) /\ d.rx = c.rx
    <3> HIDE DEF c
    <3> QED
      BY <1>1, <1>2, <1>3, <1>7, <2>1, WriterOK, ReaderOK, NetWritten, WrittenFields
  <2> HIDE DEF c, d, P
  <2>3. \A x \in Endpoint : conn'[x] = IF x = e THEN d ELSE conn[x]
    BY <2>1 DEF KeyInv
  <2>4. \A x \in Endpoint : x = e \/ x = OtherEnd(e)
    BY DEF OtherEnd, Endpoint
  <2>5. OtherEnd(OtherEnd(e)) = e /\ OtherEnd(e) # e /\ OtherEnd(e) \in Endpoint
    BY DEF OtherEnd, Endpoint
  <2>6. \A x \in Endpoint : EndOK(x, conn'[x], net')
    BY <2>1, <2>2, <2>3, <2>4, <2>5
  <2>7. conn'[e].rx.gen = c.rx.gen /\ conn'[OtherEnd(e)].rx.gen = o.rx.gen
    BY <2>2, <2>3, <2>5
  <2>8. o.rx.gen <= conn[e].rx.gen + 1
    BY <2>5 DEF KeyInv
  <2>9. /\ conn'[e].rx.gen <= conn'[OtherEnd(e)].rx.gen + 1
        /\ conn'[OtherEnd(e)].rx.gen <= conn'[e].rx.gen + 1
    <3> HIDE DEF o
    <3> QED
      BY <1>3, <1>5, <2>7, <2>8
  <2>10. \A x \in Endpoint : conn'[x].rx.gen <= conn'[OtherEnd(x)].rx.gen + 1
    BY <2>4, <2>5, <2>9
  <2>11. conn' = [x \in Endpoint |-> conn'[x]]
    BY <2>1 DEF KeyInv
  <2> QED
    BY <2>1, <2>2, <2>6, <2>10, <2>11, Zenon DEF KeyInv
<1> QED
  BY <1>6, <1>7

\* The first state.
LEMMA InitKeyInv ==
    ASSUME InitKeys
    PROVE  KeyInv
<1>1. net = {} /\ NetOK({})
  BY FS_EmptySet, SMTT(60) DEF InitKeys, NetOK
<1>2. ASSUME NEW e \in Endpoint
      PROVE  EndOK(e, Initial(e), {}) /\ Initial(e).rx.gen = 0
  <2>1. MaxKeyPktNum \in Nat
    BY KeyConstants
  <2>2. Initial(e) \in ConnType
    BY <2>1 DEF Initial, ConnType, KmType, Km, NoKey
  <2>3. HeldOK(Initial(e))
    BY DEF Initial, HeldOK, Km, NoKey
  <2>4. SealedBy(e, Initial(e).tx.gen, {}) = {}
    BY DEF SealedBy
  <2>5. SentOK(e, Initial(e), {})
    BY <2>4, FS_EmptySet DEF SentOK, Initial, Km
  <2>6. BoundaryOK(e, Initial(e), {})
    BY DEF BoundaryOK, Initial, Km
  <2> QED
    BY <2>2, <2>3, <2>5, <2>6 DEF EndOK, Initial, Km
<1>3. \A e \in Endpoint : conn[e] = Initial(e) /\ OtherEnd(e) \in Endpoint
  BY DEF InitKeys, OtherEnd, Endpoint
<1> QED
  BY <1>1, <1>2, <1>3 DEF KeyInv, InitKeys

\* Every step.
LEMMA KeyStep ==
    ASSUME KeyInv, [NextKeys]_keyVars
    PROVE  KeyInv'
<1>1. CASE UNCHANGED keyVars
  BY <1>1 DEF keyVars, KeyInv
<1>2. CASE NextKeys
  BY <1>2, ReadStep, WriteStep, InitiateStep, TimeStep DEF NextKeys
<1> QED
  BY <1>1, <1>2

-----------------------------------------------------------------------------
(* Theorems *)

\* The inductive invariant holds for every number of packets and generations.
THEOREM KeysInductive == SpecKeys => []KeyInv
<1>1. InitKeys => KeyInv
  BY InitKeyInv
<1>2. KeyInv /\ [NextKeys]_keyVars => KeyInv'
  BY KeyStep
<1> QED
  BY <1>1, <1>2, PTL DEF SpecKeys

\* However packets are lost, delayed, duplicated or reordered, conn_recv_pkt opens
\* a packet with the key it was sealed with whenever that key is held.
THEOREM HeldKeyAlwaysChosen == SpecKeys => []HeldKeyIsChosen
<1>1. ASSUME KeyInv, NEW e \in Endpoint, NEW p \in net, p.to = e,
             p.gen \in {conn[e].old, conn[e].rx.gen, conn[e].newrx}
      PROVE  ChooseKey(conn[e], p) = p.gen
  <2> DEFINE c == conn[e]
  <2>1. /\ EndOK(e, c, net) /\ NetOK(net) /\ HeldOK(c) /\ BoundaryOK(e, c, net)
        /\ c.rx.gen \in Nat /\ c.rx.num \in Int /\ c \in ConnType
        /\ p.gen \in Nat /\ p.num \in Nat /\ p.phase = Phase(p.gen) /\ NoKey = -1
    BY <1>1, KeyConstants DEF KeyInv, EndOK, NetOK, PktType, ConnType, KmType, NoKey
  <2> SUFFICES ChooseKey(c, p) = p.gen
    BY SMTT(60)
  <2> HIDE DEF c
  <2>2. CASE p.gen = c.rx.gen
    BY <2>1, <2>2 DEF ChooseKey, KeyPhaseChanged
  <2>3. CASE p.gen = c.old
    <3>1. c.rx.gen = p.gen + 1 /\ p.num < c.rx.num
      BY <1>1, <2>1, <2>3 DEF HeldOK, BoundaryOK
    <3>2. KeyPhaseChanged(c, p)
      BY <2>1, <3>1, PhasesDiffer DEF KeyPhaseChanged
    <3> QED
      BY <2>1, <2>3, <3>1, <3>2, SMTT(60) DEF ChooseKey
  <2>4. CASE p.gen = c.newrx
    <3>1. p.gen = c.rx.gen + 1 /\ ~c.notConfirmed
      BY <2>1, <2>4 DEF HeldOK
    <3>2. KeyPhaseChanged(c, p)
      BY <2>1, <3>1, PhasesDiffer DEF KeyPhaseChanged
    <3>3. c.rx.num < p.num /\ MaxRecvd(c) < p.num
      BY <1>1, <2>1, <3>1, LaterIsAbove
    <3> QED
      BY <2>1, <2>4, <3>2, <3>3 DEF ChooseKey
  <2> QED
    BY <1>1, <2>2, <2>3, <2>4 DEF c
<1>2. KeyInv => HeldKeyIsChosen
  BY <1>1 DEF HeldKeyIsChosen
<1> QED
  BY <1>2, KeysInductive, PTL

\* The assertions of the key update hold, both sides stay within one generation of
\* each other, and no key seals a packet beyond the limit of its AEAD.
THEOREM KeysAlwaysSound == SpecKeys => []KeysSound
<1>1. KeyInv => RotationAssertionsHold
  <2>1. ASSUME KeyInv, NEW e \in Endpoint
        PROVE  /\ conn[e].newrx # NoKey => conn[e].old = NoKey
               /\ (conn[e].newrx = NoKey) = (conn[e].newtx = NoKey)
    BY <2>1 DEF KeyInv, EndOK, HeldOK
  <2>2. ASSUME KeyInv, NEW e \in Endpoint, NEW p \in net, p.to = e,
               KeyPhaseChanged(conn[e], p), conn[e].rx.num <= p.num
        PROVE  conn[e].rx.num < p.num
    <3> DEFINE c == conn[e]
    <3>1. /\ c.rx.num \in Int /\ p.num \in 0 .. MaxKeyPktNum /\ p.phase = Phase(p.gen)
          /\ MaxKeyPktNum \in Nat /\ Inf = MaxKeyPktNum + 1 /\ p.gen \in Nat
          /\ NetOK(net) /\ BoundaryOK(e, c, net) /\ c.rx.gen \in Nat
      BY <2>2, KeyConstants DEF KeyInv, EndOK, NetOK, PktType, ConnType, KmType, Inf
    <3>2. ASSUME NEW q \in net, q.to = e, q.gen = c.rx.gen, q.num = p.num PROVE FALSE
      <4>1. q.gen \in Nat /\ p.gen <= q.gen /\ q.gen <= p.gen
        BY <2>2, <3>1, <3>2 DEF NetOK, PktType
      <4>2. p.gen = c.rx.gen
        BY <3>1, <3>2, <4>1
      <4> QED
        BY <2>2, <3>1, <4>2 DEF KeyPhaseChanged
    <3> QED
      BY <2>2, <3>1, <3>2 DEF BoundaryOK
  <2> QED
    BY <2>1, <2>2 DEF RotationAssertionsHold
<1>2. KeyInv => GenerationsClose
  <2>1. ASSUME KeyInv
        PROVE  /\ conn["client"].rx.gen <= conn["server"].rx.gen + 1
               /\ conn["server"].rx.gen <= conn["client"].rx.gen + 1
    BY <2>1 DEF KeyInv, OtherEnd, Endpoint
  <2>2. ASSUME KeyInv, NEW e \in Endpoint
        PROVE  conn[e].rx.gen = conn[e].tx.gen /\ conn[e].tx.gen \in Nat
    BY <2>2 DEF KeyInv, EndOK, HeldOK, ConnType, KmType
  <2> QED
    BY <2>1, <2>2 DEF GenerationsClose, Endpoint
<1>3. KeyInv => EncryptionLimit
  BY DEF KeyInv, NetOK, EncryptionLimit
<1> QED
  BY <1>1, <1>2, <1>3, KeysInductive, PTL DEF KeysSound
=============================================================================
