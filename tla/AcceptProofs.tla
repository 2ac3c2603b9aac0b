---------------------------- MODULE AcceptProofs ----------------------------
(***************************************************************************)
(* Address validation holds for every set of addresses, every lifetime of  *)
(* a token and every number of attempts.                                   *)
(***************************************************************************)
EXTENDS Accept, TLAPS

Secrets == {0, 1}

RetryTokens == [type : {"retry"}, key : Secrets, aad : Nat, addr : Addrs, odcid : Nat, ts : Nat]

RegularTokens == [type : {"regular"}, key : Secrets, aad : {a[1] : a \in Addrs}, ts : Nat]

PlainTokens == {NoToken, OtherToken} \cup RegularTokens

Tokens == PlainTokens \cup RetryTokens

Msgs == [addr : Addrs, dcid : Nat, tok : Tokens]

RetryPkts == [addr : Addrs, odcid : Nat, rscid : Nat, tok : RetryTokens]

Conns == [dcid : Nat, addr : Addrs, type : {"retry", "new_token", "unknown"}, proven : BOOLEAN,
          original : Nat, retry : Nat, lost : BOOLEAN]

AcceptType ==
    [validate : BOOLEAN, secret : Secrets, now : Nat, cid : Nat,
     addr : Addrs, odcid : Nat, dcid : Nat, rscid : Nat, tok : Tokens, saved : PlainTokens,
     attempts : Nat, over : BOOLEAN, moves : Nat, sent : SUBSET Msgs,
     retries : SUBSET RetryPkts, conns : SUBSET Conns,
     issued : [{"retry", "regular"} \X Addrs -> Int]]

\* A token says when it was issued, and the history agrees.
Dated(s, t) ==
    /\ t.type = "retry" => t.ts <= s.issued[<<"retry", t.addr>>]
    /\ t.type = "regular" =>
          \E a \in Addrs : a[1] = t.aad /\ t.ts <= s.issued[<<"regular", a>>]

TokensDated(s) ==
    /\ \A x \in {"retry", "regular"} \X Addrs : s.issued[x] <= s.now
    /\ Dated(s, s.saved) /\ Dated(s, s.tok)
    /\ \A m \in s.sent : Dated(s, m.tok)
    /\ \A r \in s.retries : Dated(s, r.tok)

\* What the client sends: with the connection ID it chose, or with the one of
\* the Retry packet and the token that goes with it.
FirstFlight(s, d, t) == d = s.odcid /\ t.type # "retry"

SecondFlight(s, d, t) ==
    /\ d = s.rscid /\ s.rscid # 0 /\ s.odcid # 0
    /\ t.type = "retry" /\ t.aad = d /\ t.odcid = s.odcid /\ t.key <= s.secret

IdsOK(s) ==
    /\ s.odcid <= s.cid /\ s.rscid <= s.cid /\ (s.rscid # 0 => s.rscid # s.odcid)
    /\ IF s.rscid = 0 THEN FirstFlight(s, s.dcid, s.tok) ELSE SecondFlight(s, s.dcid, s.tok)
    /\ s.over \/ s.odcid # 0
    /\ \A m \in s.sent :
          /\ s.odcid # 0
          /\ FirstFlight(s, m.dcid, m.tok) \/ SecondFlight(s, m.dcid, m.tok)
    /\ \A r \in s.retries :
          /\ r.rscid # 0 /\ r.rscid <= s.cid /\ r.rscid # s.odcid
          /\ r.tok.aad = r.rscid /\ r.tok.odcid = r.odcid /\ r.tok.key <= s.secret

\* The connections the server has: the parameters of the handshake are the
\* ones that the client expects, however far it is.
ConnOK(s, c) ==
    /\ c.proven
    /\ \/ c.dcid = s.odcid /\ c.original = s.odcid /\ c.retry = 0
       \/ /\ c.dcid = s.rscid /\ s.rscid # 0
          /\ \/ c.original = s.odcid /\ c.retry = s.rscid
             \/ c.lost /\ s.secret = 1 /\ ~s.validate

\* The inductive invariant.
AcceptOK(s) ==
    /\ s \in AcceptType
    /\ TokensDated(s) /\ IdsOK(s)
    /\ \A c \in s.conns : ConnOK(s, c)

AcceptInv == AcceptOK(acc)

SpecAccept == InitAccept /\ [][NextAccept]_acc

-----------------------------------------------------------------------------
(* Tokens *)

Kinds == {"retry", "regular"} \X Addrs

\* A token stays dated when others are issued later.
LEMMA DatedGrows ==
    ASSUME NEW s \in AcceptType, NEW d \in AcceptType,
           \A x \in Kinds : s.issued[x] <= d.issued[x],
           NEW t \in Tokens, Dated(s, t)
    PROVE  Dated(d, t)
<1>1. \A x \in Kinds : s.issued[x] \in Int /\ d.issued[x] \in Int
  BY DEF AcceptType, Kinds
<1>2. CASE t.type = "retry"
  <2>1. t \in RetryTokens
    BY <1>2 DEF Tokens, PlainTokens, NoToken, OtherToken, RegularTokens
  <2>2. <<"retry", t.addr>> \in Kinds /\ t.ts \in Nat
    BY <2>1 DEF RetryTokens, Kinds
  <2> QED
    BY <1>1, <1>2, <2>2 DEF Dated
<1>3. CASE t.type = "regular"
  <2>1. t \in RegularTokens
    BY <1>3 DEF Tokens, PlainTokens, NoToken, OtherToken, RetryTokens
  <2>2. t.ts \in Nat
    BY <2>1 DEF RegularTokens
  <2>3. \A a \in Addrs : <<"regular", a>> \in Kinds
    BY Zenon DEF Kinds
  <2>4. PICK a \in Addrs : a[1] = t.aad /\ t.ts <= s.issued[<<"regular", a>>]
    BY <1>3, Zenon DEF Dated
  <2>5. t.ts <= d.issued[<<"regular", a>>]
    <3> DEFINE i == s.issued[<<"regular", a>>]
               j == d.issued[<<"regular", a>>]
    <3>1. i \in Int /\ j \in Int /\ i <= j
      BY <1>1, <2>3, Zenon
    <3> HIDE DEF i, j
    <3>2. t.ts <= j
      BY <2>2, <2>4, <3>1 DEF i
    <3> QED
      BY <3>2 DEF j
  <2> QED
    BY <1>3, <2>4, <2>5, Zenon DEF Dated
<1>4. CASE t.type # "retry" /\ t.type # "regular"
  BY <1>4 DEF Dated
<1> QED
  BY <1>2, <1>3, <1>4

\* crypto_token_expired: a token that is not expired is younger than its lifetime.
LEMMA Fresh ==
    ASSUME NEW ts \in Nat, NEW t \in Int, NEW now \in Nat, NEW timeout \in Nat \ {0},
           ~Expired(ts, timeout, now), ts <= t
    PROVE  t >= 0 /\ now - t < timeout
BY DEF Expired

\* A token of either kind that verifies proves the address it came from.
LEMMA VerifiedProves ==
    ASSUME NEW s, AcceptOK(s), NEW m \in s.sent
    PROVE  /\ /\ m.tok.type = "retry"
              /\ VerifyRetryToken(s, m.tok, m.addr, m.dcid) = "ok"
              => Proven(s, m.addr, "retry")
           /\ /\ m.tok.type = "regular"
              /\ VerifyToken(s, m.tok, m.addr)
              => Proven(s, m.addr, "new_token")
<1>1. /\ s \in AcceptType /\ m \in Msgs /\ s.now \in Nat /\ Dated(s, m.tok)
      /\ m.tok \in Tokens /\ m.addr \in Addrs
  BY DEF AcceptOK, AcceptType, TokensDated, Msgs
<1>2. \A x \in Kinds : s.issued[x] \in Int
  BY <1>1 DEF AcceptType, Kinds
<1>3. ASSUME m.tok.type = "retry", VerifyRetryToken(s, m.tok, m.addr, m.dcid) = "ok"
      PROVE  Proven(s, m.addr, "retry")
  <2>1. m.tok \in RetryTokens
    BY <1>1, <1>3 DEF Tokens, PlainTokens, NoToken, OtherToken, RegularTokens
  <2>2. m.tok.addr = m.addr /\ ~Expired(m.tok.ts, RetryTimeout, s.now)
    BY <1>3 DEF VerifyRetryToken
  <2>3. /\ m.tok.ts <= s.issued[<<"retry", m.addr>>] /\ m.tok.ts \in Nat
        /\ s.issued[<<"retry", m.addr>>] \in Int
    BY <1>1, <1>2, <1>3, <2>1, <2>2 DEF Dated, RetryTokens, Kinds
  <2>4. s.issued[<<"retry", m.addr>>] >= 0 /\ s.now - s.issued[<<"retry", m.addr>>] < RetryTimeout
    BY <1>1, <2>2, <2>3, Fresh, TimeoutsAssumption
  <2> QED
    BY <2>4 DEF Proven
<1>4. ASSUME m.tok.type = "regular", VerifyToken(s, m.tok, m.addr)
      PROVE  Proven(s, m.addr, "new_token")
  <2>1. m.tok \in RegularTokens
    BY <1>1, <1>4 DEF Tokens, PlainTokens, NoToken, OtherToken, RetryTokens
  <2>2. m.tok.aad = m.addr[1] /\ ~Expired(m.tok.ts, RegularTimeout, s.now)
    BY <1>4 DEF VerifyToken
  <2>3. PICK a \in Addrs : a[1] = m.tok.aad /\ m.tok.ts <= s.issued[<<"regular", a>>]
    BY <1>1, <1>4 DEF Dated
  <2>4. m.tok.ts \in Nat /\ s.issued[<<"regular", a>>] \in Int
    BY <1>2, <2>1 DEF RegularTokens, Kinds
  <2>5. s.issued[<<"regular", a>>] >= 0 /\ s.now - s.issued[<<"regular", a>>] < RegularTimeout
    BY <1>1, <2>2, <2>3, <2>4, Fresh, TimeoutsAssumption
  <2> QED
    BY <2>2, <2>3, <2>5, Zenon DEF Proven
<1> QED
  BY <1>3, <1>4

-----------------------------------------------------------------------------
(* The server *)

\* The connections of the server and the end of the client's attempt are no part
\* of what holds of the tokens and the connection IDs.
LEMMA SameClient ==
    ASSUME NEW s, TokensDated(s), IdsOK(s), NEW d,
           d.cid = s.cid, d.retries = s.retries, d.now = s.now, d.issued = s.issued,
           d.saved = s.saved, d.tok = s.tok, d.sent = s.sent, d.odcid = s.odcid,
           d.rscid = s.rscid, d.dcid = s.dcid, d.secret = s.secret,
           s.over => d.over
    PROVE  TokensDated(d) /\ IdsOK(d)
<1>1. \A t : Dated(d, t) <=> Dated(s, t)
  BY DEF Dated
<1>2. \A x, t : /\ FirstFlight(d, x, t) <=> FirstFlight(s, x, t)
                /\ SecondFlight(d, x, t) <=> SecondFlight(s, x, t)
  BY DEF FirstFlight, SecondFlight
<1>3. TokensDated(d)
  BY <1>1 DEF TokensDated
<1>4. IF d.rscid = 0 THEN FirstFlight(d, d.dcid, d.tok) ELSE SecondFlight(d, d.dcid, d.tok)
  <2>1. CASE s.rscid = 0
    BY <1>2, <2>1 DEF IdsOK
  <2>2. CASE s.rscid # 0
    BY <1>2, <2>2 DEF IdsOK
  <2> QED
    BY <2>1, <2>2
<1>5. d.over \/ d.odcid # 0
  BY DEF IdsOK
<1>6. \A m \in d.sent :
        d.odcid # 0 /\ (FirstFlight(d, m.dcid, m.tok) \/ SecondFlight(d, m.dcid, m.tok))
  BY <1>2 DEF IdsOK
<1>7. /\ d.odcid <= d.cid /\ d.rscid <= d.cid /\ (d.rscid # 0 => d.rscid # d.odcid)
      /\ \A r \in d.retries :
          /\ r.rscid # 0 /\ r.rscid <= d.cid /\ r.rscid # d.odcid
          /\ r.tok.aad = r.rscid /\ r.tok.odcid = r.odcid /\ r.tok.key <= d.secret
  BY DEF IdsOK
<1> QED
  BY <1>3, <1>4, <1>5, <1>6, <1>7 DEF IdsOK

\* Server::send_retry.
LEMMA SendRetryOK ==
    ASSUME NEW s, AcceptOK(s), NEW m \in s.sent
    PROVE  AcceptOK(SendRetry(s, m))
<1> DEFINE d == SendRetry(s, m)
           tok == RetryToken(s, m.addr, s.cid + 1, m.dcid)
           R == [addr |-> m.addr, odcid |-> m.dcid, rscid |-> s.cid + 1, tok |-> tok]
<1>1. /\ s \in AcceptType /\ m \in Msgs /\ s.now \in Nat /\ s.cid \in Nat /\ s.secret \in {0, 1}
      /\ m.addr \in Addrs /\ m.dcid \in Nat
  BY DEF AcceptOK, AcceptType, Msgs, Secrets
<1>2. /\ tok \in RetryTokens /\ tok.aad = s.cid + 1 /\ tok.odcid = m.dcid /\ tok.key = s.secret
      /\ tok.type = "retry" /\ tok.addr = m.addr /\ tok.ts = s.now
  BY <1>1 DEF RetryToken, RetryTokens, Secrets
<1> HIDE DEF tok
<1>3. /\ R \in RetryPkts /\ R.rscid = s.cid + 1 /\ R.tok = tok /\ R.odcid = m.dcid
  BY <1>1, <1>2 DEF RetryPkts
<1>4. <<"retry", m.addr>> \in Kinds
  BY <1>1 DEF Kinds
<1>5. d = [s EXCEPT !.cid = s.cid + 1, !.retries = s.retries \cup {R},
                    !.issued = [s.issued EXCEPT ![<<"retry", m.addr>>] = s.now]]
  BY <1>1 DEF SendRetry, AcceptType, tok
<1>6. [s.issued EXCEPT ![<<"retry", m.addr>>] = s.now] \in [Kinds -> Int]
  BY <1>1, <1>4 DEF AcceptType, Kinds
<1> HIDE DEF d, R
<1>7. /\ d \in AcceptType
      /\ d.cid = s.cid + 1 /\ d.retries = s.retries \cup {R} /\ d.now = s.now
      /\ d.issued = [s.issued EXCEPT ![<<"retry", m.addr>>] = s.now]
      /\ d.saved = s.saved /\ d.tok = s.tok /\ d.sent = s.sent /\ d.odcid = s.odcid
      /\ d.rscid = s.rscid /\ d.dcid = s.dcid /\ d.over = s.over /\ d.secret = s.secret
      /\ d.conns = s.conns /\ d.validate = s.validate
  <2>1. s.cid + 1 \in Nat /\ s.retries \cup {R} \in SUBSET RetryPkts
    BY <1>1, <1>3 DEF AcceptType
  <2>2. d \in AcceptType
    BY <1>1, <1>5, <1>6, <2>1, Zenon DEF AcceptType, Kinds
  <2> QED
    BY <1>1, <1>5, <2>2 DEF AcceptType
<1>8. /\ \A x \in Kinds : s.issued[x] \in Int /\ s.issued[x] <= s.now
      /\ s.issued \in [Kinds -> Int]
  BY <1>1 DEF AcceptOK, TokensDated, AcceptType, Kinds
<1>9. \A x \in Kinds : s.issued[x] <= d.issued[x] /\ d.issued[x] <= d.now
  BY <1>1, <1>4, <1>7, <1>8
<1>10. ASSUME NEW t \in Tokens, Dated(s, t) PROVE Dated(d, t)
  BY <1>1, <1>7, <1>9, <1>10, DatedGrows, Zenon
<1>11. TokensDated(d)
  <2>1. Dated(d, tok)
    BY <1>1, <1>2, <1>4, <1>7, <1>8 DEF Dated
  <2>2. /\ s.saved \in Tokens /\ s.tok \in Tokens /\ \A k \in s.sent : k.tok \in Tokens
        /\ \A k \in s.retries : k.tok \in Tokens
    BY <1>1 DEF AcceptType, Tokens, Msgs, RetryPkts
  <2>3. /\ Dated(s, s.saved) /\ Dated(s, s.tok) /\ \A k \in s.sent : Dated(s, k.tok)
        /\ \A k \in s.retries : Dated(s, k.tok)
    BY DEF AcceptOK, TokensDated
  <2> QED
    BY <1>3, <1>7, <1>9, <1>10, <2>1, <2>2, <2>3 DEF TokensDated, Kinds
<1>12. IdsOK(d)
  <2>1. /\ s.odcid \in Nat /\ s.rscid \in Nat /\ IdsOK(s)
        /\ \A r \in s.retries : r.rscid \in Nat
    BY <1>1 DEF AcceptOK, AcceptType, RetryPkts
  <2>2. d.odcid <= d.cid /\ d.rscid <= d.cid /\ (d.rscid # 0 => d.rscid # d.odcid)
    BY <1>1, <1>7, <2>1 DEF IdsOK
  <2>3. IF d.rscid = 0 THEN FirstFlight(d, d.dcid, d.tok) ELSE SecondFlight(d, d.dcid, d.tok)
    BY <1>7, <2>1 DEF IdsOK, FirstFlight, SecondFlight
  <2>4. /\ d.over \/ d.odcid # 0
        /\ \A k \in d.sent : /\ d.odcid # 0
                             /\ FirstFlight(d, k.dcid, k.tok) \/ SecondFlight(d, k.dcid, k.tok)
    BY <1>7, <2>1 DEF IdsOK, FirstFlight, SecondFlight
  <2>5. ASSUME NEW r \in d.retries
        PROVE  /\ r.rscid # 0 /\ r.rscid <= d.cid /\ r.rscid # d.odcid
               /\ r.tok.aad = r.rscid /\ r.tok.odcid = r.odcid /\ r.tok.key <= d.secret
    <3>1. CASE r = R
      BY <3>1, <1>1, <1>2, <1>3, <1>7, <2>1 DEF IdsOK
    <3>2. CASE r \in s.retries
      BY <3>2, <1>1, <1>7, <2>1 DEF IdsOK
    <3> QED
      BY <3>1, <3>2, <1>7
  <2> QED
    BY <2>2, <2>3, <2>4, <2>5 DEF IdsOK
<1>13. \A c \in d.conns : ConnOK(d, c)
  BY <1>7 DEF AcceptOK, ConnOK
<1> QED
  BY <1>7, <1>11, <1>12, <1>13 DEF AcceptOK, d

\* Handler::init, for a packet whose address is proven, or need not be.
LEMMA CreateOK ==
    ASSUME NEW s, AcceptOK(s), NEW m \in s.sent, NEW type \in {"retry", "new_token", "unknown"},
           NEW ocid \in Nat, Proven(s, m.addr, type) = TRUE,
           \/ ocid = 0 /\ m.tok.type # "retry"
           \/ ocid = m.tok.odcid /\ m.tok.type = "retry"
           \/ ocid = 0 /\ m.tok.type = "retry" /\ m.tok.key # s.secret /\ ~s.validate
    PROVE  AcceptOK(Create(s, m, type, ocid))
<1> DEFINE d == Create(s, m, type, ocid)
           C == [dcid |-> m.dcid, addr |-> m.addr, type |-> type,
                 proven |-> Proven(s, m.addr, type),
                 original |-> IF ocid = 0 THEN m.dcid ELSE ocid,
                 retry |-> IF ocid = 0 THEN 0 ELSE m.dcid,
                 lost |-> m.tok.type = "retry" /\ ocid = 0]
<1>1. s \in AcceptType /\ m \in Msgs /\ m.addr \in Addrs /\ m.dcid \in Nat /\ s.secret \in {0, 1}
      /\ m.tok \in Tokens
  BY DEF AcceptOK, AcceptType, Msgs, Secrets
<1>2. /\ C.dcid = m.dcid /\ C.proven = TRUE /\ (C.lost <=> m.tok.type = "retry" /\ ocid = 0)
      /\ C.original = (IF ocid = 0 THEN m.dcid ELSE ocid)
      /\ C.retry = (IF ocid = 0 THEN 0 ELSE m.dcid)
  BY Zenon
<1>3. C \in Conns
  BY <1>1, Zenon DEF Conns
<1>4. d = [s EXCEPT !.conns = s.conns \cup {C}]
  BY DEF Create
<1> HIDE DEF d, C
<1>5. /\ d \in AcceptType /\ d.conns = s.conns \cup {C}
      /\ d.cid = s.cid /\ d.retries = s.retries /\ d.now = s.now /\ d.issued = s.issued
      /\ d.saved = s.saved /\ d.tok = s.tok /\ d.sent = s.sent /\ d.odcid = s.odcid
      /\ d.rscid = s.rscid /\ d.dcid = s.dcid /\ d.over = s.over /\ d.secret = s.secret
      /\ d.validate = s.validate
  <2>1. s.conns \cup {C} \in SUBSET Conns
    BY <1>1, <1>3 DEF AcceptType
  <2>2. d \in AcceptType
    BY <1>1, <1>4, <2>1 DEF AcceptType
  <2> QED
    BY <1>1, <1>4, <2>2 DEF AcceptType
<1>6. TokensDated(d) /\ IdsOK(d)
  BY <1>5, SameClient DEF AcceptOK
<1>7. FirstFlight(s, m.dcid, m.tok) \/ SecondFlight(s, m.dcid, m.tok)
  BY DEF AcceptOK, IdsOK
<1>8. ConnOK(s, C)
  <2>1. CASE FirstFlight(s, m.dcid, m.tok)
    BY <1>2, <2>1 DEF FirstFlight, ConnOK
  <2>2. CASE SecondFlight(s, m.dcid, m.tok) /\ ocid = m.tok.odcid
    BY <1>2, <2>2 DEF SecondFlight, ConnOK
  <2>3. CASE SecondFlight(s, m.dcid, m.tok) /\ ocid # m.tok.odcid
    <3>1. m.tok.type = "retry" /\ ocid = 0 /\ m.tok.key # s.secret /\ ~s.validate
      BY <2>3 DEF SecondFlight
    <3>2. m.tok.key \in {0, 1}
      BY <1>1, <3>1 DEF Tokens, PlainTokens, NoToken, OtherToken, RegularTokens, RetryTokens,
                        Secrets
    <3>3. s.secret = 1
      BY <1>1, <2>3, <3>1, <3>2 DEF SecondFlight
    <3> QED
      BY <1>2, <2>3, <3>1, <3>3 DEF SecondFlight, ConnOK
  <2> QED
    BY <1>7, <2>1, <2>2, <2>3
<1>9. \A c \in d.conns : ConnOK(d, c)
  BY <1>5, <1>8 DEF AcceptOK, ConnOK
<1> QED
  BY <1>5, <1>6, <1>9 DEF AcceptOK, d

\* Server::send_stateless_connection_close.
LEMMA StatelessCloseOK ==
    ASSUME NEW s, AcceptOK(s), NEW m \in s.sent
    PROVE  AcceptOK(StatelessClose(s, m))
<1> DEFINE d == [s EXCEPT !.over = TRUE]
<1>1. s \in AcceptType
  BY DEF AcceptOK
<1>2. /\ d \in AcceptType /\ d.over = TRUE /\ d.conns = s.conns
      /\ d.cid = s.cid /\ d.retries = s.retries /\ d.now = s.now /\ d.issued = s.issued
      /\ d.saved = s.saved /\ d.tok = s.tok /\ d.sent = s.sent /\ d.odcid = s.odcid
      /\ d.rscid = s.rscid /\ d.dcid = s.dcid /\ d.secret = s.secret
      /\ d.validate = s.validate
  BY <1>1, Zenon DEF AcceptType
<1> HIDE DEF d
<1>3. TokensDated(d) /\ IdsOK(d)
  BY <1>2, SameClient DEF AcceptOK
<1>4. \A c \in d.conns : ConnOK(d, c)
  BY <1>2 DEF AcceptOK, ConnOK
<1>5. AcceptOK(d)
  BY <1>2, <1>3, <1>4 DEF AcceptOK
<1> QED
  BY <1>5 DEF StatelessClose, d

\* Server::read_pkt, whatever the packet brings.
LEMMA ReadInitialOK ==
    ASSUME NEW s, AcceptOK(s), NEW m \in s.sent, NEW d \in Validate(s, m)
    PROVE  AcceptOK(d)
<1>1. /\ m.tok \in Tokens /\ m.addr \in Addrs /\ s.validate \in BOOLEAN
  BY DEF AcceptOK, AcceptType, Msgs
<1>2. ASSUME ~s.validate
      PROVE  Proven(s, m.addr, "unknown") = TRUE
  BY <1>1, <1>2 DEF Proven
<1>3. ASSUME d \in CreateUnvalidated(s, m), ~s.validate,
             m.tok.type # "retry" \/ m.tok.key # s.secret
      PROVE  AcceptOK(d)
  <2>1. d = Create(s, m, "unknown", 0) \/ d = SendRetry(s, m)
    BY <1>3 DEF CreateUnvalidated
  <2>2. AcceptOK(Create(s, m, "unknown", 0))
    BY <1>2, <1>3, CreateOK, Zenon
  <2> QED
    BY <2>1, <2>2, SendRetryOK
<1>4. ASSUME d \in RetryOrGiveUp(s, m) PROVE AcceptOK(d)
  <2>1. d = SendRetry(s, m)
    BY <1>4 DEF RetryOrGiveUp
  <2> QED
    BY <2>1, SendRetryOK
<1>5. CASE m.tok.type = "none" \/ m.tok.type = "other"
  <2>1. d \in RetryOrGiveUp(s, m) \/ (~s.validate /\ d \in CreateUnvalidated(s, m))
    BY <1>5 DEF Validate
  <2> QED
    BY <1>3, <1>4, <1>5, <2>1
<1>6. CASE m.tok.type = "regular"
  <2>1. \/ d \in RetryOrGiveUp(s, m) \/ (~s.validate /\ d \in CreateUnvalidated(s, m))
        \/ VerifyToken(s, m.tok, m.addr) /\ d = Create(s, m, "new_token", 0)
    BY <1>6 DEF Validate
  <2>2. VerifyToken(s, m.tok, m.addr) => Proven(s, m.addr, "new_token") = TRUE
    BY <1>6, VerifiedProves, Zenon DEF Proven
  <2>3. VerifyToken(s, m.tok, m.addr) => AcceptOK(Create(s, m, "new_token", 0))
    BY <1>6, <2>2, CreateOK, Zenon
  <2> QED
    BY <1>3, <1>4, <1>6, <2>1, <2>3
<1>7. CASE m.tok.type = "retry"
  <2> DEFINE v == VerifyRetryToken(s, m.tok, m.addr, m.dcid)
  <2>1. \/ v = "ok" /\ d = Create(s, m, "retry", m.tok.odcid)
        \/ d = StatelessClose(s, m)
        \/ v = "unreadable" /\ ~s.validate /\ d \in CreateUnvalidated(s, m)
    BY <1>7 DEF Validate, VerifyRetryToken
  <2>2. m.tok \in RetryTokens /\ m.tok.odcid \in Nat
    BY <1>1, <1>7 DEF Tokens, PlainTokens, NoToken, OtherToken, RegularTokens, RetryTokens
  <2>3. v = "ok" => Proven(s, m.addr, "retry") = TRUE
    BY <1>7, VerifiedProves DEF Proven
  <2>4. v = "unreadable" => m.tok.key # s.secret
    <3>1. FirstFlight(s, m.dcid, m.tok) \/ SecondFlight(s, m.dcid, m.tok)
      BY DEF AcceptOK, IdsOK
    <3>2. m.tok.aad = m.dcid
      BY <1>7, <3>1 DEF FirstFlight, SecondFlight
    <3> QED
      BY <3>2 DEF VerifyRetryToken
  <2>5. v = "ok" => AcceptOK(Create(s, m, "retry", m.tok.odcid))
    BY <1>7, <2>2, <2>3, CreateOK, Zenon
  <2> HIDE DEF v
  <2> QED
    BY <1>3, <1>7, <2>1, <2>4, <2>5, StatelessCloseOK
<1> QED
  <2>1. m.tok.type \in {"none", "other", "regular", "retry"}
    BY <1>1 DEF Tokens, PlainTokens, NoToken, OtherToken, RegularTokens, RetryTokens
  <2> QED
    BY <1>5, <1>6, <1>7, <2>1

\* The server restarts with a new secret.
LEMMA RestartOK ==
    ASSUME AcceptInv, Restart
    PROVE  AcceptInv'
<1>1. /\ acc \in AcceptType /\ TokensDated(acc) /\ IdsOK(acc) /\ acc.secret = 0
      /\ acc' = [acc EXCEPT !.secret = 1, !.conns = {}]
  BY DEF AcceptInv, AcceptOK, Restart
<1>2. /\ acc' \in AcceptType /\ acc'.over = acc.over /\ acc'.conns = {} /\ acc'.secret = 1
      /\ acc'.cid = acc.cid /\ acc'.retries = acc.retries /\ acc'.now = acc.now
      /\ acc'.issued = acc.issued /\ acc'.saved = acc.saved /\ acc'.tok = acc.tok
      /\ acc'.sent = acc.sent /\ acc'.odcid = acc.odcid /\ acc'.rscid = acc.rscid
      /\ acc'.dcid = acc.dcid
  BY <1>1, Zenon DEF AcceptType, Secrets
<1>3. TokensDated(acc')
  <2>1. \A t : Dated(acc', t) <=> Dated(acc, t)
    BY <1>2 DEF Dated
  <2> QED
    BY <1>1, <1>2, <2>1 DEF TokensDated
<1>4. IdsOK(acc')
  <2>1. ASSUME NEW t \in RetryTokens, t.key <= 0 PROVE t.key <= 1
    BY <2>1 DEF RetryTokens, Secrets
  <2>2. /\ acc.tok.type = "retry" => acc.tok \in RetryTokens
        /\ \A m \in acc.sent : m.tok.type = "retry" => m.tok \in RetryTokens
        /\ \A r \in acc.retries : r.tok \in RetryTokens
    BY <1>1 DEF AcceptType, Msgs, RetryPkts, Tokens, PlainTokens, NoToken, OtherToken,
                RegularTokens
  <2>3. \A x, t : FirstFlight(acc', x, t) <=> FirstFlight(acc, x, t)
    BY <1>2 DEF FirstFlight
  <2>4. ASSUME NEW x, NEW t, t.type = "retry" => t \in RetryTokens, SecondFlight(acc, x, t)
        PROVE  SecondFlight(acc', x, t)
    BY <1>1, <1>2, <2>1, <2>4 DEF SecondFlight
  <2>5. IF acc'.rscid = 0 THEN FirstFlight(acc', acc'.dcid, acc'.tok)
                          ELSE SecondFlight(acc', acc'.dcid, acc'.tok)
    BY <1>1, <1>2, <2>2, <2>3, <2>4 DEF IdsOK
  <2>6. \A m \in acc'.sent :
          /\ acc'.odcid # 0
          /\ FirstFlight(acc', m.dcid, m.tok) \/ SecondFlight(acc', m.dcid, m.tok)
    BY <1>1, <1>2, <2>2, <2>3, <2>4 DEF IdsOK
  <2>7. \A r \in acc'.retries :
          /\ r.rscid # 0 /\ r.rscid <= acc'.cid /\ r.rscid # acc'.odcid
          /\ r.tok.aad = r.rscid /\ r.tok.odcid = r.odcid /\ r.tok.key <= acc'.secret
    BY <1>1, <1>2, <2>1, <2>2 DEF IdsOK
  <2> QED
    BY <1>1, <1>2, <2>5, <2>6, <2>7 DEF IdsOK
<1> QED
  BY <1>2, <1>3, <1>4 DEF AcceptInv, AcceptOK

-----------------------------------------------------------------------------
(* The client *)

\* An Initial packet is sent with the token and the connection ID of the attempt.
LEMMA SendInitialOK ==
    ASSUME NEW s, AcceptOK(s), s.odcid # 0
    PROVE  AcceptOK(SendInitial(s))
<1> DEFINE d == SendInitial(s)
           M == [addr |-> s.addr, dcid |-> s.dcid, tok |-> s.tok]
<1>1. s \in AcceptType /\ TokensDated(s) /\ IdsOK(s)
  BY DEF AcceptOK
<1>2. M \in Msgs /\ M.dcid = s.dcid /\ M.tok = s.tok
  BY <1>1 DEF AcceptType, Msgs
<1>3. d = [s EXCEPT !.sent = s.sent \cup {M}]
  BY DEF SendInitial
<1> HIDE DEF d, M
<1>4. /\ d \in AcceptType /\ d.sent = s.sent \cup {M} /\ d.conns = s.conns
      /\ d.cid = s.cid /\ d.retries = s.retries /\ d.now = s.now /\ d.issued = s.issued
      /\ d.saved = s.saved /\ d.tok = s.tok /\ d.odcid = s.odcid
      /\ d.rscid = s.rscid /\ d.dcid = s.dcid /\ d.over = s.over /\ d.secret = s.secret
      /\ d.validate = s.validate
  <2>1. s.sent \cup {M} \in SUBSET Msgs
    BY <1>1, <1>2 DEF AcceptType
  <2>2. d \in AcceptType
    BY <1>1, <1>3, <2>1 DEF AcceptType
  <2> QED
    BY <1>1, <1>3, <2>2 DEF AcceptType
<1>5. TokensDated(d)
  <2>1. \A t : Dated(d, t) <=> Dated(s, t)
    BY <1>4 DEF Dated
  <2> QED
    BY <1>1, <1>2, <1>4, <2>1 DEF TokensDated
<1>6. IdsOK(d)
  <2>1. \A x, t : /\ FirstFlight(d, x, t) <=> FirstFlight(s, x, t)
                  /\ SecondFlight(d, x, t) <=> SecondFlight(s, x, t)
    BY <1>4 DEF FirstFlight, SecondFlight
  <2> QED
    BY <1>1, <1>2, <1>4, <2>1 DEF IdsOK
<1>7. \A c \in d.conns : ConnOK(d, c)
  BY <1>4 DEF AcceptOK, ConnOK
<1> QED
  BY <1>4, <1>5, <1>6, <1>7 DEF AcceptOK, d

\* ngtcp2_conn_client_new: a new attempt, with the token of an earlier connection.
LEMMA StartAttemptOK ==
    ASSUME AcceptInv, StartAttempt
    PROVE  AcceptInv'
<1> DEFINE d == [acc EXCEPT !.cid = @ + 1, !.odcid = acc.cid + 1,
                            !.dcid = acc.cid + 1, !.rscid = 0,
                            !.tok = acc.saved, !.attempts = @ + 1, !.over = FALSE,
                            !.sent = {}, !.retries = {}, !.conns = {}]
<1>1. /\ acc \in AcceptType /\ TokensDated(acc) /\ acc' = SendInitial(d)
      /\ acc.cid \in Nat /\ acc.attempts \in Nat /\ acc.saved \in PlainTokens
      /\ acc.saved \in Tokens
  BY DEF AcceptInv, AcceptOK, StartAttempt, AcceptType, Tokens
<1>2. /\ d \in AcceptType /\ d.cid = acc.cid + 1 /\ d.odcid = acc.cid + 1
      /\ d.dcid = acc.cid + 1 /\ d.rscid = 0 /\ d.tok = acc.saved /\ d.saved = acc.saved
      /\ d.over = FALSE /\ d.sent = {} /\ d.retries = {} /\ d.conns = {}
      /\ d.issued = acc.issued /\ d.now = acc.now
  <2>1. d = [acc EXCEPT !.cid = acc.cid + 1, !.odcid = acc.cid + 1,
                        !.dcid = acc.cid + 1, !.rscid = 0,
                        !.tok = acc.saved, !.attempts = acc.attempts + 1, !.over = FALSE,
                        !.sent = {}, !.retries = {}, !.conns = {}]
    OBVIOUS
  <2>2. acc.cid + 1 \in Nat /\ acc.attempts + 1 \in Nat
    BY <1>1
  <2> HIDE DEF d
  <2>3. d \in AcceptType
    BY <1>1, <2>1, <2>2, Zenon DEF AcceptType
  <2> QED
    BY <1>1, <2>1, <2>3, Zenon DEF AcceptType
<1> HIDE DEF d
<1>3. TokensDated(d)
  BY <1>1, <1>2, Zenon DEF TokensDated, Dated
<1>4. acc.saved.type # "retry"
  BY <1>1 DEF PlainTokens, NoToken, OtherToken, RegularTokens
<1>5. IdsOK(d) /\ d.odcid # 0
  BY <1>1, <1>2, <1>4 DEF IdsOK, FirstFlight
<1>6. AcceptOK(d)
  BY <1>2, <1>3, <1>5 DEF AcceptOK
<1> QED
  BY <1>1, <1>5, <1>6, SendInitialOK DEF AcceptInv

\* conn_on_retry.
LEMMA RecvRetryOK ==
    ASSUME AcceptInv, NEW r \in acc.retries, RecvRetry(r)
    PROVE  AcceptInv'
<1> DEFINE d == [acc EXCEPT !.dcid = r.rscid, !.rscid = r.rscid, !.tok = r.tok]
<1>1. /\ acc \in AcceptType /\ TokensDated(acc) /\ IdsOK(acc) /\ acc' = SendInitial(d)
      /\ r.rscid \in Nat /\ r.tok \in RetryTokens /\ r.tok \in Tokens /\ acc.rscid = 0 /\ ~acc.over
      /\ r.odcid = acc.dcid
  BY DEF AcceptInv, AcceptOK, RecvRetry, AcceptType, RetryPkts, Tokens
<1>2. /\ d \in AcceptType /\ d.dcid = r.rscid /\ d.rscid = r.rscid /\ d.tok = r.tok
      /\ d.cid = acc.cid /\ d.odcid = acc.odcid /\ d.saved = acc.saved
      /\ d.over = acc.over /\ d.sent = acc.sent /\ d.retries = acc.retries
      /\ d.conns = acc.conns /\ d.issued = acc.issued /\ d.now = acc.now
      /\ d.secret = acc.secret /\ d.validate = acc.validate
  <2>1. d \in AcceptType
    BY <1>1, Zenon DEF AcceptType
  <2> QED
    BY <1>1, <2>1 DEF AcceptType
<1> HIDE DEF d
<1>3. TokensDated(d)
  <2>1. \A t : Dated(d, t) <=> Dated(acc, t)
    BY <1>2 DEF Dated
  <2> QED
    BY <1>1, <1>2, <2>1 DEF TokensDated
<1>4. /\ r.rscid # 0 /\ r.rscid <= acc.cid /\ r.tok.aad = r.rscid /\ r.tok.odcid = r.odcid
      /\ r.tok.key <= acc.secret /\ acc.odcid # 0 /\ acc.dcid = acc.odcid
      /\ r.rscid # acc.odcid
  BY <1>1 DEF IdsOK, FirstFlight
<1>5. IdsOK(d)
  <2>1. SecondFlight(d, d.dcid, d.tok)
    BY <1>1, <1>2, <1>4 DEF SecondFlight, RetryTokens
  <2>2. \A m \in d.sent : d.odcid # 0 /\ FirstFlight(d, m.dcid, m.tok)
    BY <1>1, <1>2 DEF IdsOK, FirstFlight, SecondFlight
  <2> QED
    BY <1>1, <1>2, <1>4, <2>1, <2>2 DEF IdsOK
<1>6. \A c \in d.conns : ConnOK(d, c)
  BY <1>1, <1>2 DEF AcceptInv, AcceptOK, ConnOK
<1>7. AcceptOK(d) /\ d.odcid # 0
  BY <1>2, <1>3, <1>4, <1>5, <1>6 DEF AcceptOK
<1> QED
  BY <1>1, <1>7, SendInitialOK DEF AcceptInv

\* The client moves, or time passes.
LEMMA MoveOrTickOK ==
    ASSUME AcceptInv, TickAccept \/ \E a \in Addrs : Rebind(a)
    PROVE  AcceptInv'
<1>1. acc \in AcceptType /\ TokensDated(acc) /\ IdsOK(acc) /\ acc.now \in Nat /\ acc.moves \in Nat
  BY DEF AcceptInv, AcceptOK, AcceptType
<1>2. /\ acc' \in AcceptType /\ acc'.over = acc.over /\ acc'.conns = acc.conns
      /\ acc'.secret = acc.secret /\ acc'.validate = acc.validate
      /\ acc'.cid = acc.cid /\ acc'.retries = acc.retries
      /\ acc'.now = acc.now \/ acc'.now = acc.now + 1
      /\ acc'.issued = acc.issued /\ acc'.saved = acc.saved /\ acc'.tok = acc.tok
      /\ acc'.sent = acc.sent /\ acc'.odcid = acc.odcid /\ acc'.rscid = acc.rscid
      /\ acc'.dcid = acc.dcid
  <2>1. CASE TickAccept
    <3>1. acc' = [acc EXCEPT !.now = acc.now + 1] /\ acc.now + 1 \in Nat
      BY <1>1, <2>1 DEF TickAccept
    <3>2. acc' \in AcceptType
      BY <1>1, <3>1 DEF AcceptType
    <3> QED
      BY <1>1, <3>1, <3>2 DEF AcceptType
  <2>2. CASE \E a \in Addrs : Rebind(a)
    <3>1. PICK a \in Addrs : Rebind(a)
      BY <2>2
    <3>2. acc' = [acc EXCEPT !.addr = a, !.moves = acc.moves + 1]
      BY <3>1, Zenon DEF Rebind
    <3>3. acc.moves + 1 \in Nat
      BY <1>1
    <3>4. acc' \in AcceptType
      BY <1>1, <3>2, <3>3, Zenon DEF AcceptType
    <3> QED
      BY <1>1, <3>2, <3>4 DEF AcceptType
  <2> QED
    BY <2>1, <2>2
<1>3. TokensDated(acc')
  <2>1. \A t : Dated(acc', t) <=> Dated(acc, t)
    BY <1>2 DEF Dated
  <2>2. \A x \in Kinds : acc.issued[x] \in Int /\ acc.issued[x] <= acc.now
    BY <1>1 DEF TokensDated, Kinds, AcceptType
  <2>3. \A x \in Kinds : acc'.issued[x] <= acc'.now
    BY <1>1, <1>2, <2>2
  <2> QED
    BY <1>1, <1>2, <2>1, <2>3 DEF TokensDated, Kinds
<1>4. IdsOK(acc')
  <2>1. \A x, t : /\ FirstFlight(acc', x, t) <=> FirstFlight(acc, x, t)
                  /\ SecondFlight(acc', x, t) <=> SecondFlight(acc, x, t)
    BY <1>2 DEF FirstFlight, SecondFlight
  <2> QED
    BY <1>1, <1>2, <2>1 DEF IdsOK
<1>5. \A c \in acc'.conns : ConnOK(acc', c)
  BY <1>2 DEF AcceptInv, AcceptOK, ConnOK
<1> QED
  BY <1>2, <1>3, <1>4, <1>5 DEF AcceptInv, AcceptOK

\* The handshake completes: the client keeps the token it is sent, and the attempt
\* is over.
LEMMA CompleteOK ==
    ASSUME AcceptInv, NEW c \in acc.conns, Complete(c)
    PROVE  AcceptInv'
<1> DEFINE k == <<"regular", c.addr>>
           t == RegularToken(acc, c.addr)
           i == [acc.issued EXCEPT ![k] = acc.now]
<1>1. /\ acc \in AcceptType /\ TokensDated(acc) /\ IdsOK(acc) /\ acc.now \in Nat
      /\ acc.secret \in Secrets /\ c.addr \in Addrs /\ acc.issued \in [Kinds -> Int]
  BY DEF AcceptInv, AcceptOK, AcceptType, Conns, Kinds
<1>2. k \in Kinds
  BY <1>1 DEF Kinds
<1>3. t \in RegularTokens /\ t.type = "regular" /\ t.aad = c.addr[1] /\ t.ts = acc.now
  BY <1>1 DEF RegularToken, RegularTokens
<1>4. t \in PlainTokens
  BY <1>3 DEF PlainTokens
<1>5. /\ i \in [Kinds -> Int] /\ i[k] = acc.now
      /\ \A x \in Kinds : acc.issued[x] <= i[x] /\ i[x] <= acc.now
  <2>1. i \in [Kinds -> Int] /\ i[k] = acc.now
    BY <1>1, <1>2
  <2>2. \A x \in Kinds : acc.issued[x] \in Int /\ acc.issued[x] <= acc.now
    BY <1>1 DEF TokensDated, Kinds
  <2>3. ASSUME NEW x \in Kinds PROVE acc.issued[x] <= i[x] /\ i[x] <= acc.now
    BY <1>1, <1>2, <2>2
  <2> QED
    BY <2>1, <2>3
<1>6. acc' = [acc EXCEPT !.over = TRUE, !.saved = t, !.issued = i]
  BY DEF Complete
<1> HIDE DEF k, t, i
<1>7. /\ acc' \in AcceptType /\ acc'.over = TRUE /\ acc'.saved = t /\ acc'.issued = i
      /\ acc'.conns = acc.conns /\ acc'.secret = acc.secret /\ acc'.validate = acc.validate
      /\ acc'.cid = acc.cid /\ acc'.retries = acc.retries
      /\ acc'.now = acc.now /\ acc'.tok = acc.tok
      /\ acc'.sent = acc.sent /\ acc'.odcid = acc.odcid /\ acc'.rscid = acc.rscid
      /\ acc'.dcid = acc.dcid
  <2>1. acc' \in AcceptType
    BY <1>1, <1>4, <1>5, <1>6, Zenon DEF AcceptType, Kinds
  <2> QED
    BY <1>1, <1>6, <2>1 DEF AcceptType
<1>8. TokensDated(acc')
  <2>1. \A u \in Tokens : Dated(acc, u) => Dated(acc', u)
    BY <1>1, <1>5, <1>7, DatedGrows
  <2>2. /\ acc.tok \in Tokens
        /\ \A m \in acc.sent : m.tok \in Tokens
        /\ \A r \in acc.retries : r.tok \in Tokens
    BY <1>1 DEF AcceptType, Msgs, RetryPkts, Tokens
  <2>3. t.type # "retry" /\ acc.now <= acc'.issued[<<"regular", c.addr>>]
    BY <1>1, <1>3, <1>5, <1>7 DEF k
  <2>4. Dated(acc', t)
    BY <1>1, <1>3, <2>3, Zenon DEF Dated
  <2>5. \A x \in {"retry", "regular"} \X Addrs : acc'.issued[x] <= acc'.now
    BY <1>5, <1>7 DEF Kinds
  <2> QED
    BY <1>1, <1>7, <2>1, <2>2, <2>4, <2>5 DEF TokensDated
<1>9. IdsOK(acc')
  <2>1. \A x, u : /\ FirstFlight(acc', x, u) <=> FirstFlight(acc, x, u)
                  /\ SecondFlight(acc', x, u) <=> SecondFlight(acc, x, u)
    BY <1>7 DEF FirstFlight, SecondFlight
  <2> QED
    BY <1>1, <1>7, <2>1 DEF IdsOK
<1>10. \A e \in acc'.conns : ConnOK(acc', e)
  BY <1>7 DEF AcceptInv, AcceptOK, ConnOK
<1> QED
  BY <1>7, <1>8, <1>9, <1>10 DEF AcceptInv, AcceptOK

-----------------------------------------------------------------------------
(* Theorems *)

\* The state a server and a client start in.
LEMMA InitAcceptOK ==
    ASSUME InitAccept
    PROVE  AcceptInv
<1>1. PICK validate \in BOOLEAN, a \in Addrs, saved \in {NoToken, OtherToken} :
         acc = NewAccept(validate, a, saved)
  BY DEF InitAccept
<1>2. saved \in PlainTokens /\ saved \in Tokens /\ saved.type # "retry" /\ saved.type # "regular"
  BY DEF PlainTokens, Tokens, NoToken, OtherToken
<1>3. NoToken \in Tokens /\ NoToken.type = "none"
  BY DEF PlainTokens, Tokens, NoToken
<1>4. acc \in AcceptType
  BY <1>1, <1>2, <1>3 DEF NewAccept, AcceptType, Secrets
<1>5. TokensDated(acc)
  BY <1>1, <1>2, <1>3, SMTT(60) DEF NewAccept, TokensDated, Dated
<1>6. IdsOK(acc) /\ acc.conns = {}
  BY <1>1, <1>2, <1>3 DEF NewAccept, IdsOK, FirstFlight
<1> QED
  BY <1>4, <1>5, <1>6 DEF AcceptInv, AcceptOK

\* Every step of the server, of the client and of time keeps the invariant.
LEMMA AcceptStep ==
    ASSUME AcceptInv, [NextAccept]_acc
    PROVE  AcceptInv'
<1>1. CASE \E m \in acc.sent : ReadInitial(m)
  <2>1. PICK m \in acc.sent : ReadInitial(m)
    BY <1>1
  <2>2. acc' \in Validate(acc, m)
    BY <2>1 DEF ReadInitial
  <2> QED
    BY <2>2, ReadInitialOK DEF AcceptInv
<1>2. CASE \E r \in acc.retries : RecvRetry(r)
  BY <1>2, RecvRetryOK
<1>3. CASE \E c \in acc.conns : Complete(c)
  BY <1>3, CompleteOK
<1>4. CASE TickAccept \/ \E a \in Addrs : Rebind(a)
  BY <1>4, MoveOrTickOK
<1>5. CASE StartAttempt
  BY <1>5, StartAttemptOK
<1>6. CASE ResendInitial
  <2>1. AcceptOK(acc) /\ acc.odcid # 0 /\ acc' = SendInitial(acc)
    BY <1>6 DEF ResendInitial, AcceptInv, AcceptOK, IdsOK
  <2> QED
    BY <2>1, SendInitialOK DEF AcceptInv
<1>7. CASE Restart
  BY <1>7, RestartOK
<1>8. CASE UNCHANGED acc
  BY <1>8 DEF AcceptInv
<1> QED
  BY <1>1, <1>2, <1>3, <1>4, <1>5, <1>6, <1>7, <1>8 DEF NextAccept

\* The invariant says what is claimed of address validation. A connection of the
\* first flight that the client still reaches has seen no Retry packet taken.
LEMMA AcceptImplies ==
    ASSUME AcceptInv
    PROVE  ValidationSound
<1>1. AddressProven
  BY DEF AcceptInv, AcceptOK, ConnOK, AddressProven
<1>2. ASSUME NEW c \in acc.conns, Reached(c)
      PROVE  ParamsAccepted(c) \/ (c.lost /\ acc.secret = 1 /\ ~acc.validate)
  <2>1. ConnOK(acc, c) /\ IdsOK(acc) /\ c.dcid = acc.dcid /\ ~acc.over
    BY <1>2 DEF AcceptInv, AcceptOK, Reached
  <2>2. CASE acc.rscid = 0
    BY <2>1, <2>2 DEF ConnOK, ParamsAccepted
  <2>3. CASE acc.rscid # 0
    BY <2>1, <2>3 DEF ConnOK, IdsOK, SecondFlight, ParamsAccepted
  <2> QED
    BY <2>2, <2>3
<1> QED
  BY <1>1, <1>2 DEF HandshakeIdsAgree, ValidationSound

\* Tokens are dated, connection IDs are those of the attempt, and connections are
\* proven, after any sequence of the packets, restarts and moves of the model.
THEOREM AcceptInductive == SpecAccept => []AcceptInv
<1>1. InitAccept => AcceptInv
  BY InitAcceptOK
<1>2. AcceptInv /\ [NextAccept]_acc => AcceptInv'
  BY AcceptStep
<1> QED
  BY <1>1, <1>2, PTL DEF SpecAccept

\* Server::read_pkt with its tokens: a connection whose address counts as validated
\* was opened from an address that a token was sent to within its lifetime, and
\* the client accepts the connection IDs in its transport parameters, whatever the
\* addresses, the lifetimes and the number of attempts are.
THEOREM ValidationAlwaysSound == SpecAccept => []ValidationSound
<1>1. AcceptInv => ValidationSound
  BY AcceptImplies
<1> QED
  BY <1>1, AcceptInductive, PTL
=============================================================================
