------------------------------- MODULE Accept -------------------------------
(***************************************************************************)
(* Address validation: the tokens of crypto/shared.c and what the example  *)
(* server does with the first packet of a connection, before a handler     *)
(* exists (Server::read_pkt of examples/server.cc).                        *)
(*                                                                         *)
(* A token is a sealed record: it can be read only with the secret it was  *)
(* sealed with and the additional data it was sealed for.  A Retry token   *)
(* is sealed for the connection ID of the Retry packet and holds the       *)
(* client's address, its first connection ID and the time; a token for a   *)
(* later connection is sealed for the IP address and holds the time.  The  *)
(* QUIC version, also sealed, does not change here.                        *)
(*                                                                         *)
(* An address is <<ip, port>>.  The network delays and duplicates what the *)
(* client sends; the client's address may change between two packets; the  *)
(* server may restart with a new secret.                                   *)
(***************************************************************************)
EXTENDS Integers, FiniteSets

CONSTANTS
    Addrs,              \* addresses the client can have
    MaxAccCid,          \* connection IDs, numbered as they are drawn
    MaxNow,             \* last instant
    RetryTimeout,       \* 10 seconds in the server
    RegularTimeout,     \* one hour in the server
    MaxAttempts,        \* connections the client tries
    MaxMoves            \* changes of its address

ASSUME TimeoutsAssumption ==
    RetryTimeout \in Nat \ {0} /\ RegularTimeout \in Nat \ {0}

VARIABLE acc

NoToken == [type |-> "none"]

\* A token of some other server, kept by mistake
OtherToken == [type |-> "other"]

NewAccept(validate, addr, saved) ==
    [validate |-> validate, secret |-> 0, now |-> 0, cid |-> 0,
     \* the client
     addr |-> addr, odcid |-> 0, dcid |-> 0, rscid |-> 0,
     tok |-> NoToken, saved |-> saved, attempts |-> 0, over |-> TRUE, moves |-> 0,
     \* datagrams to the server, Retry packets to the client
     sent |-> {}, retries |-> {},
     \* connections of the server
     conns |-> {},
     \* history: when a token was last sent to an address
     issued |-> [x \in {"retry", "regular"} \X Addrs |-> -1]]

InitAccept ==
    \E validate \in BOOLEAN, addr \in Addrs, saved \in {NoToken, OtherToken} :
        acc = NewAccept(validate, addr, saved)

----------------------------------------------------------------------------
\* Tokens

\* crypto_token_expired
Expired(gen, timeout, ts) == ts >= timeout /\ gen <= ts - timeout

\* ngtcp2_crypto_generate_retry_token2
RetryToken(s, addr, rscid, odcid) ==
    [type |-> "retry", key |-> s.secret, aad |-> rscid,
     addr |-> addr, odcid |-> odcid, ts |-> s.now]

VerifyRetryTokenAnyAddr(s, tok, addr, dcid) ==
    IF tok.key # s.secret \/ tok.aad # dcid THEN "unreadable"
    ELSE IF Expired(tok.ts, RetryTimeout, s.now) THEN "verify"
    ELSE "ok"

\* ngtcp2_crypto_verify_retry_token2, as Server::verify_retry_token calls it
VerifyRetryToken(s, tok, addr, dcid) ==
    IF tok.key # s.secret \/ tok.aad # dcid THEN "unreadable"
    ELSE IF tok.addr # addr \/ Expired(tok.ts, RetryTimeout, s.now) THEN "verify"
    ELSE "ok"

\* crypto_generate_regular_token
RegularToken(s, addr) ==
    [type |-> "regular", key |-> s.secret, aad |-> addr[1], ts |-> s.now]

\* crypto_verify_regular_token
VerifyToken(s, tok, addr) ==
    /\ tok.key = s.secret /\ tok.aad = addr[1]
    /\ ~Expired(tok.ts, RegularTimeout, s.now)

----------------------------------------------------------------------------
\* Server::read_pkt

\* Server::send_retry: a connection ID of the server's choice; the token
\* remembers the one the client chose.
SendRetry(s, m) ==
    LET rscid == s.cid + 1
        tok == RetryToken(s, m.addr, rscid, m.dcid)
    IN  [s EXCEPT !.cid = rscid,
                  !.retries = @ \cup {[addr |-> m.addr, odcid |-> m.dcid,
                                       rscid |-> rscid, tok |-> tok]},
                  !.issued[<<"retry", m.addr>>] = s.now]

\* Server::send_stateless_connection_close ends the client's attempt if it
\* is the one this packet belongs to.
StatelessClose(s, m) ==
    IF m.dcid = s.dcid /\ m.addr = s.addr THEN [s EXCEPT !.over = TRUE] ELSE s

\* The history says that the address received a token of this type that is
\* not older than its lifetime.
Proven(s, addr, type) ==
    CASE type = "retry" ->
            LET t == s.issued[<<"retry", addr>>] IN t >= 0 /\ s.now - t < RetryTimeout
      [] type = "new_token" ->
            \E a \in Addrs :
                LET t == s.issued[<<"regular", a>>]
                IN  a[1] = addr[1] /\ t >= 0 /\ s.now - t < RegularTimeout
      [] type = "unknown" -> ~s.validate

CreateForgetsOrigin(s, m, type, ocid) ==
    [s EXCEPT !.conns = @ \cup
        {[dcid |-> m.dcid, addr |-> m.addr, type |-> type, proven |-> Proven(s, m.addr, type),
          original |-> m.dcid, retry |-> IF ocid = 0 THEN 0 ELSE m.dcid,
          lost |-> m.tok.type = "retry" /\ ocid = 0]}]

\* Handler::init: the transport parameters that name the connection IDs of
\* the handshake.  `lost' marks a Retry token that could not be read.
Create(s, m, type, ocid) ==
    [s EXCEPT !.conns = @ \cup
        {[dcid |-> m.dcid, addr |-> m.addr, type |-> type, proven |-> Proven(s, m.addr, type),
          original |-> IF ocid = 0 THEN m.dcid ELSE ocid,
          retry |-> IF ocid = 0 THEN 0 ELSE m.dcid,
          lost |-> m.tok.type = "retry" /\ ocid = 0]}]

\* A connection without a token; the library may ask for a Retry when the
\* ClientHello is not complete (NGTCP2_ERR_RETRY).
CreateUnvalidated(s, m) ==
    {Create(s, m, "unknown", 0)}
      \cup (IF s.cid < MaxAccCid THEN {SendRetry(s, m)} ELSE {})

RetryOrGiveUp(s, m) == IF s.cid < MaxAccCid THEN {SendRetry(s, m)} ELSE {}

\* The address validation of Server::read_pkt
Validate(s, m) ==
    CASE m.tok.type = "none" ->
            IF s.validate THEN RetryOrGiveUp(s, m) ELSE CreateUnvalidated(s, m)
      [] m.tok.type = "retry" ->
            LET v == VerifyRetryToken(s, m.tok, m.addr, m.dcid)
            IN  IF v = "ok" THEN {Create(s, m, "retry", m.tok.odcid)}
                ELSE IF v = "verify" \/ s.validate THEN {StatelessClose(s, m)}
                ELSE CreateUnvalidated(s, m)
      [] m.tok.type = "regular" ->
            IF VerifyToken(s, m.tok, m.addr) THEN {Create(s, m, "new_token", 0)}
            ELSE IF s.validate THEN RetryOrGiveUp(s, m)
            ELSE CreateUnvalidated(s, m)
      [] m.tok.type = "other" ->
            IF s.validate THEN RetryOrGiveUp(s, m) ELSE CreateUnvalidated(s, m)

\* A packet of a connection that exists goes to its handler.
ReadInitial(m) ==
    /\ \A c \in acc.conns : c.dcid # m.dcid
    /\ acc' \in Validate(acc, m)

\* The server restarts: a new static_secret, and no connections.
Restart ==
    /\ acc.secret = 0
    /\ acc' = [acc EXCEPT !.secret = 1, !.conns = {}]

----------------------------------------------------------------------------
\* The client: ngtcp2_conn_client_new, conn_on_retry

SendInitial(s) ==
    [s EXCEPT !.sent = @ \cup {[addr |-> s.addr, dcid |-> s.dcid, tok |-> s.tok]}]

StartAttempt ==
    /\ acc.over /\ acc.attempts < MaxAttempts /\ acc.cid < MaxAccCid
    /\ acc' = SendInitial([acc EXCEPT !.cid = @ + 1, !.odcid = acc.cid + 1,
                                      !.dcid = acc.cid + 1, !.rscid = 0,
                                      !.tok = acc.saved, !.attempts = @ + 1,
                                      !.over = FALSE,
                                      \* what is left of the last attempt
                                      !.sent = {}, !.retries = {}, !.conns = {}])

\* A retransmission from the address the client has now
ResendInitial ==
    /\ ~acc.over
    /\ acc' = SendInitial(acc)

\* conn_on_retry: once, and for the connection ID the client sent.
RecvRetry(r) ==
    /\ ~acc.over /\ acc.rscid = 0
    /\ r.odcid = acc.dcid /\ r.addr = acc.addr
    /\ acc' = SendInitial([acc EXCEPT !.dcid = r.rscid, !.rscid = r.rscid,
                                      !.tok = r.tok])

Rebind(addr) ==
    /\ addr # acc.addr /\ acc.moves < MaxMoves
    /\ acc' = [acc EXCEPT !.addr = addr, !.moves = @ + 1]

Reached(c) == ~acc.over /\ c.dcid = acc.dcid

\* The parameters the client compares in conn_client_validate_transport_params
ParamsAccepted(c) == c.original = acc.odcid /\ c.retry = acc.rscid

\* Handler::handshake_completed: a token for the address of the path
Complete(c) ==
    /\ Reached(c) /\ c.addr = acc.addr /\ ParamsAccepted(c)
    /\ acc' = [acc EXCEPT !.over = TRUE, !.saved = RegularToken(acc, c.addr),
                          !.issued[<<"regular", c.addr>>] = acc.now]

TickAccept ==
    /\ acc.now < MaxNow
    /\ acc' = [acc EXCEPT !.now = @ + 1]

NextAccept ==
    \/ \E m \in acc.sent : ReadInitial(m)
    \/ \E r \in acc.retries : RecvRetry(r)
    \/ \E c \in acc.conns : Complete(c)
    \/ \E addr \in Addrs : Rebind(addr)
    \/ StartAttempt \/ ResendInitial \/ TickAccept \/ Restart

----------------------------------------------------------------------------
\* A connection whose address counts as validated was opened from the very
\* address a Retry was sent to, or from an IP address a token was sent to, not
\* longer ago than the token's lifetime; a server that demands validation
\* (config.validate_addr) opens no other.
AddressProven == \A c \in acc.conns : c.proven

\* The client and the server agree on the connection IDs of the handshake,
\* however packets were delayed, duplicated or validated: the client does not
\* reject the transport parameters.  Except that a server that does not
\* demand validation, restarted after a Retry, goes on without the token.
HandshakeIdsAgree ==
    \A c \in acc.conns : Reached(c) =>
        ParamsAccepted(c) \/ (c.lost /\ acc.secret = 1 /\ ~acc.validate)

\* Address validation does its work and does not get in the way.
ValidationSound == AddressProven /\ HandshakeIdsAgree
=============================================================================
