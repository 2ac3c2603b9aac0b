------------------------------ MODULE ConnClose ------------------------------
(***************************************************************************)
(* Closing a connection: ngtcp2_conn_write_connection_close and what it    *)
(* calls, and the closing and draining states, for two endpoints that may  *)
(* close at any moment of a handshake.                                     *)
(*                                                                         *)
(* An endpoint that closes does not know which keys its peer has.  During  *)
(* the handshake it therefore puts its CONNECTION_CLOSE frame into several *)
(* packets of one datagram.  The handshake is reduced to the moments when  *)
(* keys are installed and discarded; datagrams may be lost, delayed,       *)
(* duplicated and reordered (net only grows).                              *)
(*                                                                         *)
(* "in", "hs" and "app" are the Initial, Handshake and 1-RTT packet number *)
(* spaces; tx and rx are the levels for which an endpoint has keys.        *)
(***************************************************************************)
EXTENDS Integers, FiniteSets

CONSTANT MaxHeld    \* packets the application may hold back (NGTCP2_MAX_TX_PKT_HANDOFFS)

VARIABLE cl

Peer(e) == IF e = "client" THEN "server" ELSE "client"

\* What a close packet takes of a datagram: the headers get shorter
CloseLen == [in |-> 3, hs |-> 2, app |-> 1]
FullRoom == 6

NewEndpoint == [state |-> "initial", tx |-> {}, rx |-> {}, confirmed |-> FALSE,
                token |-> FALSE, held |-> 0]

InitClose ==
    cl = [client |-> [NewEndpoint EXCEPT !.tx = {"in"}, !.rx = {"in"}],
          server |-> NewEndpoint, net |-> {}, fault |-> FALSE]

Alive(e) == cl[e].state \notin {"closing", "draining"}

Send(s, m) == [s EXCEPT !.net = @ \cup {m}]

Hs(name, lvl) == [msg |-> name, lvls |-> {lvl}]

Arrives(e, name, lvl) == Alive(e) /\ Hs(name, lvl) \in cl.net /\ lvl \in cl[e].rx

----------------------------------------------------------------------------
\* The moments of the handshake

\* The first flight of the client
ClientHello ==
    /\ cl.client.state = "initial"
    /\ cl' = Send([cl EXCEPT !.client.state = "wait"], Hs("hello", "in"))

\* The server derives the Initial keys from the first packet.  When the
\* ClientHello is only part of what TLS needs, or TLS rejects it, no other
\* key is installed.
ServerReadsInitial ==
    /\ Alive("server") /\ cl.server.tx = {} /\ Hs("hello", "in") \in cl.net
    /\ cl' = [cl EXCEPT !.server.tx = {"in"}, !.server.rx = {"in"}]

\* The rest of the ClientHello: the keys are there before anything is sent.
ServerKeys ==
    /\ Arrives("server", "hello", "in") /\ "hs" \notin cl.server.tx
    /\ cl' = [cl EXCEPT !.server.tx = @ \cup {"hs", "app"}, !.server.rx = @ \cup {"hs"}]

ServerFlight ==
    /\ Alive("server") /\ cl.server.state = "initial" /\ "hs" \in cl.server.tx
    /\ cl' = Send(Send([cl EXCEPT !.server.state = "wait"], Hs("sh", "in")),
                  Hs("finished", "hs"))

ClientReadsServerHello ==
    /\ Arrives("client", "sh", "in")
    /\ cl' = [cl EXCEPT !.client.tx = @ \cup {"hs"}, !.client.rx = @ \cup {"hs"}]

\* The first Handshake packet of the client discards its Initial keys.
ClientWritesHandshake ==
    /\ Alive("client") /\ "hs" \in cl.client.tx
    /\ cl' = Send([cl EXCEPT !.client.tx = @ \ {"in"}, !.client.rx = @ \ {"in"}],
                  Hs("ack", "hs"))

\* The server's Finished completes the handshake; on an error TLS may have
\* installed the keys already.
ClientReadsFinished ==
    /\ Arrives("client", "finished", "hs") /\ "app" \notin cl.client.tx
    /\ cl' = [cl EXCEPT !.client.tx = @ \cup {"app"}, !.client.rx = @ \cup {"app"}]

\* conn_write_handshake: the state is NGTCP2_CS_POST_HANDSHAKE when the
\* datagram with the client's Finished is written, or when the congestion
\* window holds it back.
ClientCompletes ==
    /\ cl.client.state = "wait" /\ "app" \in cl.client.tx
    /\ \E blocked \in BOOLEAN :
         LET s == [cl EXCEPT !.client.state = "post", !.client.token = TRUE]
         IN  cl' = IF blocked THEN s
                   ELSE Send([s EXCEPT !.client.tx = @ \ {"in"}, !.client.rx = @ \ {"in"}],
                             Hs("cfinished", "hs"))

ClientWritesFinished ==
    /\ cl.client.state = "post" /\ "hs" \in cl.client.tx
    /\ cl' = Send([cl EXCEPT !.client.tx = @ \ {"in"}, !.client.rx = @ \ {"in"}],
                  Hs("cfinished", "hs"))

\* conn_read_handshake, NGTCP2_CS_SERVER_WAIT_HANDSHAKE
ServerReadsHandshake ==
    /\ Arrives("server", "ack", "hs") /\ cl.server.state = "wait"
    /\ cl' = [cl EXCEPT !.server.tx = @ \ {"in"}, !.server.rx = @ \ {"in"}]

\* TLS completes: the handshake is confirmed for the server at once, and the
\* Handshake keys go, unless an error comes in between.
ServerCompletes ==
    /\ Arrives("server", "cfinished", "hs") /\ cl.server.state = "wait"
    /\ \E ok \in BOOLEAN :
         LET s == [cl EXCEPT !.server.tx = @ \ {"in"}, !.server.rx = (@ \ {"in"}) \cup {"app"},
                             !.server.confirmed = TRUE]
         IN  cl' = IF ~ok THEN s
                   ELSE Send([s EXCEPT !.server.state = "post", !.server.tx = @ \ {"hs"},
                                       !.server.rx = @ \ {"hs"}],
                             Hs("done", "app"))

\* conn_recv_handshake_done
ClientReadsDone ==
    /\ Arrives("client", "done", "app") /\ cl.client.state = "post"
    /\ cl' = [cl EXCEPT !.client.confirmed = TRUE, !.client.tx = @ \ {"in", "hs"},
                        !.client.rx = @ \ {"in", "hs"}]

----------------------------------------------------------------------------
\* Writing the close packets

\* A datagram being written: the levels written so far and the room left.
\* ngtcp2_conn_write_single_frame_pkt writes nothing when the packet does not
\* fit; a key that is not there is not checked.
SingleFramePkt(s, e, d, lvl) ==
    IF CloseLen[lvl] > d.room THEN d
    ELSE [d EXCEPT !.lvls = @ \cup {lvl}, !.room = @ - CloseLen[lvl],
                   !.fault = @ \/ lvl \notin s[e].tx]

WriteConnectionCloseOnePkt(s, e, d, type) == SingleFramePkt(s, e, d, type)

\* conn_write_connection_close
WriteConnectionClose(s, e, d, type) ==
    LET unsure == ~s[e].confirmed /\ type # "in"
        in == IF unsure /\ e = "server" /\ "in" \in s[e].tx
                THEN SingleFramePkt(s, e, d, "in") ELSE d
        hs == IF unsure /\ type # "hs" /\ "hs" \in s[e].tx
                THEN SingleFramePkt(s, e, in, "hs") ELSE in
    IN  SingleFramePkt(s, e, hs, type)

NothingWritten(room) == [lvls |-> {}, room |-> room, fault |-> FALSE]

MayWrite1Rtt(s, e) == s[e].state = "post" \/ (e = "server" /\ "app" \in s[e].tx)

\* The state is NGTCP2_CS_CLOSING only when something was written.
CloseWith(s, e, d) ==
    IF d.lvls = {} THEN s
    ELSE Send([s EXCEPT ![e].state = "closing", ![e].held = @ + 1, !.fault = @ \/ d.fault],
              [msg |-> "close", from |-> e, lvls |-> d.lvls, full |-> d.full])

\* ngtcp2_conn_write_connection_close_pkt
TransportClose(s, e, room) ==
    LET type == IF MayWrite1Rtt(s, e) THEN "app"
                ELSE IF "hs" \in s[e].tx THEN "hs" ELSE "in"
        d == WriteConnectionClose(s, e, NothingWritten(room), type)
    IN  IF s[e].tx = {} THEN s        \* NGTCP2_ERR_INVALID_STATE
        ELSE CloseWith(s, e, [lvls |-> d.lvls, fault |-> d.fault, full |-> room = FullRoom])

\* ngtcp2_conn_write_application_close_pkt: the application's own error code
\* is for 1-RTT packets alone.
ApplicationClose(s, e, room) ==
    LET d == IF s[e].confirmed THEN NothingWritten(room)
             ELSE WriteConnectionClose(s, e, NothingWritten(room),
                                       IF "hs" \in s[e].tx THEN "hs" ELSE "in")
        a == IF MayWrite1Rtt(s, e) THEN SingleFramePkt(s, e, d, "app") ELSE d
    IN  IF ~s[e].confirmed /\ d.lvls = {} THEN s    \* NGTCP2_ERR_NOBUF
        ELSE CloseWith(s, e, [lvls |-> a.lvls, fault |-> a.fault, full |-> room = FullRoom])

\* The client's room is a whole datagram; the server's is bounded by three
\* times what it received until the address is validated.
Rooms(e) ==
    IF e = "client" \/ cl.server.confirmed \/ "in" \notin cl.server.tx
      THEN {FullRoom} ELSE 0 .. FullRoom

\* ngtcp2_conn_next_tx_connection_close_pkt: by the type of the error.  An
\* application closes with its own error once the connection has read a
\* packet.  A timeout or a dropped connection is closed without a packet.
Close(e) ==
    /\ Alive(e) /\ ~(e = "client" /\ cl.client.state = "initial")
    /\ cl[e].held < MaxHeld
    /\ \E room \in Rooms(e) :
         \/ cl' = TransportClose(cl, e, room)
         \/ cl[e].tx # {} /\ cl' = ApplicationClose(cl, e, room)

\* ngtcp2_conn_next_tx_pkt and a socket that is blocked
HoldPacket(e) ==
    /\ Alive(e) /\ cl[e].tx # {} /\ cl[e].held < MaxHeld
    /\ cl' = [cl EXCEPT ![e].held = @ + 1]

ReleasePacket(e) ==
    /\ cl[e].held > 0
    /\ cl' = [cl EXCEPT ![e].held = @ - 1]

----------------------------------------------------------------------------
\* Being closed

Closes(e) == {m \in cl.net : m.msg = "close" /\ m.from = Peer(e)}

\* conn_recv_connection_close.  In the closing state nothing is read
\* (NGTCP2_ERR_CLOSING), in the draining state neither.
RecvClose(e) ==
    /\ Alive(e)
    /\ \E m \in Closes(e) : m.lvls \cap cl[e].rx # {}
    /\ cl' = [cl EXCEPT ![e].state = "draining"]

\* conn_on_stateless_reset: a server that has lost the connection answers a
\* packet of the client with the token the client knows.
StatelessReset ==
    /\ cl.client.state = "post" /\ cl.client.token
    /\ cl' = [cl EXCEPT !.client.state = "draining"]

NextClose ==
    \/ ClientHello \/ ServerReadsInitial \/ ServerKeys \/ ServerFlight
    \/ ClientReadsServerHello \/ ClientWritesHandshake \/ ClientReadsFinished
    \/ ClientCompletes \/ ClientWritesFinished \/ ServerReadsHandshake
    \/ ServerCompletes \/ ClientReadsDone \/ StatelessReset
    \/ \E e \in {"client", "server"} :
          Close(e) \/ HoldPacket(e) \/ ReleasePacket(e) \/ RecvClose(e)

----------------------------------------------------------------------------
\* Whenever one endpoint closes and the datagram has room for all its close
\* packets, the peer - however far it has come when the datagram arrives - has
\* the keys for one of them: it learns of the end and does not wait for its
\* idle timeout.  A server that has read nothing yet still takes the client's
\* Initial packet.  And no packet is protected with a key that is missing.
CloseReadable ==
    /\ ~cl.fault
    /\ \A e \in {"client", "server"} : \A m \in Closes(e) :
          Alive(e) /\ m.full =>
              \/ m.lvls \cap cl[e].rx # {}
              \/ e = "server" /\ cl.server.rx = {} /\ "in" \in m.lvls
=============================================================================
