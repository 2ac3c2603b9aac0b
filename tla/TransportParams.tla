-------------------------- MODULE TransportParams ---------------------------
(***************************************************************************)
(* Transport parameters (transport_params.c) and what conn.c does with     *)
(* them: encoding and decoding, the validation of what the peer sent, the  *)
(* limits a client remembers for 0-RTT, and the negotiation of the QUIC    *)
(* version by Version Negotiation packets and by version_information.      *)
(*                                                                         *)
(* Parameters are a record; a parameter that may be absent holds Absent.   *)
(* Times are in units of 1 / Milli milliseconds.                           *)
(***************************************************************************)
EXTENDS Wire

CONSTANTS
    Milli,          \* NGTCP2_MILLISECONDS
    MaxStreams,     \* NGTCP2_MAX_STREAMS
    MinUdpPayload,  \* NGTCP2_MAX_UDP_PAYLOAD_SIZE
    Limits,         \* bound: values of the six limits
    Lists,          \* bound: lists of versions an endpoint may be configured with
    FirstVersions   \* bound: versions a client starts with

VARIABLES
    tp,         \* the parameters being exchanged
    vn          \* the version negotiation

tpVars == <<tp, vn>>

Absent == <<-1>>
DefaultUdpPayload == 65527
DefaultAckDelayExponent == 3
DefaultMaxAckDelay == 25 * Milli
DefaultCidLimit == 2

\* Identifiers of the limits, in the order they are encoded
LimitIds == <<5, 6, 7, 4, 8, 9>>

NoAddr == [v4 |-> Absent, v6 |-> Absent, cid |-> Absent, token |-> Absent]

\* ngtcp2_transport_params_default; the six limits are indexed by identifier
Default ==
    [odcid |-> Absent, token |-> Absent, paddr |-> NoAddr, rscid |-> Absent, iscid |-> Absent,
     limit |-> [i \in 4 .. 9 |-> 0], udp |-> DefaultUdpPayload, exp |-> DefaultAckDelayExponent,
     nomig |-> FALSE, ackdelay |-> DefaultMaxAckDelay, idle |-> 0, cids |-> DefaultCidLimit,
     dgram |-> 0, grease |-> FALSE, versions |-> Absent]

----------------------------------------------------------------------------
(* Encoding.                                                               *)

\* write_varint_param, write_cid_param and write_zero_param
VarintParam(id, n) == PutUvarint(id) \o <<PutUvarintlen(n)>> \o PutUvarint(n)
BytesParam(id, b) == PutUvarint(id) \o Bytes(b)
ZeroParam(id) == PutUvarint(id) \o <<0>>
If(cond, b) == IF cond THEN b ELSE <<>>

\* The value of preferred_address: two addresses and ports, absent ones all
\* zero, the connection ID and its token
PreferredAddr(a) ==
    LET Addr(x, n) == IF x = Absent THEN [i \in 1 .. n |-> 0] ELSE x
    IN Addr(a.v4, 6) \o Addr(a.v6, 18) \o <<Len(a.cid)>> \o a.cid \o a.token

\* ngtcp2_transport_params_encode: the parameters that carry bytes
EncodeIds(p) ==
    If(p.odcid # Absent, BytesParam(0, p.odcid))
    \o If(p.token # Absent, BytesParam(2, p.token))
    \o If(p.paddr # NoAddr, BytesParam(13, PreferredAddr(p.paddr)))
    \o If(p.rscid # Absent, BytesParam(16, p.rscid))
    \o If(p.iscid # Absent, BytesParam(15, p.iscid))

\* ... and the integers, left out when they have their default value
EncodeRest(p) ==
    FlattenSeq([k \in 1 .. 6 |-> If(p.limit[LimitIds[k]] # 0, VarintParam(LimitIds[k], p.limit[LimitIds[k]]))])
    \o If(p.udp # DefaultUdpPayload, VarintParam(3, p.udp))
    \o If(p.exp # DefaultAckDelayExponent, VarintParam(10, p.exp))
    \o If(p.nomig, ZeroParam(12))
    \o If(p.ackdelay # DefaultMaxAckDelay, VarintParam(11, p.ackdelay \div Milli))
    \o If(p.idle # 0, VarintParam(1, p.idle \div Milli))
    \o If(p.cids # 0 /\ p.cids # DefaultCidLimit, VarintParam(14, p.cids))
    \o If(p.dgram # 0, VarintParam(32, p.dgram))
    \o If(p.grease, ZeroParam(10930))
    \o If(p.versions # Absent, BytesParam(17, FlattenSeq([i \in DOMAIN p.versions |-> PutUint(p.versions[i], 4)])))

Encode(p) == EncodeIds(p) \o EncodeRest(p)

----------------------------------------------------------------------------
(* Decoding.                                                               *)

Bad == [ok |-> FALSE]

Includes(s, v) == \E i \in DOMAIN s : s[i] = v

\* decode_varint at offset i of b: the value and the offset after it
DecodeVarint(b, i) ==
    LET n == GetUvarintlen(b[i + 1])
    IN IF i >= Len(b) THEN Bad
       ELSE IF Len(b) - i < n THEN Bad
       ELSE [ok |-> TRUE, v |-> GetUvarint(SubSeq(b, i + 1, i + n)), i |-> i + n]

\* decode_varint_param: the length must be that of the integer's own encoding
VarintOfLength(b, l) ==
    IF ~l.ok THEN Bad
    ELSE IF l.i = Len(b) \/ Len(b) - l.i < l.v THEN Bad
    ELSE IF GetUvarintlen(b[l.i + 1]) # l.v THEN Bad
    ELSE DecodeVarint(b, l.i)

DecodeVarintParam(b, i) == VarintOfLength(b, DecodeVarint(b, i))

\* decode_zero_param
DecodeZeroParam(b, i) ==
    IF i = Len(b) THEN Bad ELSE IF b[i + 1] # 0 THEN Bad ELSE [ok |-> TRUE, v |-> TRUE, i |-> i + 1]

\* A value of a length in lens
BytesOfLength(b, l, lens) ==
    IF ~l.ok THEN Bad
    ELSE IF l.v \notin lens \/ Len(b) - l.i < l.v THEN Bad
    ELSE [ok |-> TRUE, v |-> SubSeq(b, l.i + 1, l.i + l.v), i |-> l.i + l.v]

DecodeBytesParam(b, i, lens) == BytesOfLength(b, DecodeVarint(b, i), lens)

\* decode_cid_param
DecodeCidParam(b, i) == DecodeBytesParam(b, i, {0} \cup MinCidLen .. MaxCidLen)

\* The value of preferred_address: an all-zero address is an absent one
AddrPart(x) == IF \A k \in DOMAIN x : x[k] = 0 THEN Absent ELSE x

PreferredAddrOf(r) ==
    IF ~r.ok THEN Bad
    ELSE IF Len(r.v) # 25 + TokenLen + r.v[25] \/ r.v[25] \notin MinCidLen .. MaxCidLen THEN Bad
    ELSE [r EXCEPT !.v = [v4 |-> AddrPart(SubSeq(@, 1, 6)), v6 |-> AddrPart(SubSeq(@, 7, 24)),
                          cid |-> SubSeq(@, 26, 25 + @[25]), token |-> SubSeq(@, 26 + @[25], Len(@))]]

DecodePreferredAddr(b, i) == PreferredAddrOf(DecodeBytesParam(b, i, 25 + TokenLen .. Len(b)))

\* The value of version_information: chosen version and available versions
VersionsOf(b) == [k \in 1 .. Len(b) \div 4 |-> GetUint(SubSeq(b, 4 * k - 3, 4 * k))]

VersionInfoOf(r) ==
    IF ~r.ok THEN Bad ELSE IF Includes(VersionsOf(r.v), 0) THEN Bad ELSE [r EXCEPT !.v = VersionsOf(@)]

DecodeVersionInfo(b, i) == VersionInfoOf(DecodeBytesParam(b, i, {n \in 4 .. Len(b) : n % 4 = 0}))

\* A decoded value is stored when it is good
Take(r, good, p) == IF ~r.ok THEN Bad ELSE IF ~good THEN Bad ELSE [ok |-> TRUE, p |-> p, i |-> r.i]
TimesRaw(v) == v
Times(v) == IF v > Huge \div Milli THEN Huge ELSE v * Milli

\* The cases of ngtcp2_transport_params_decode for integers
StoreInteger(p, id, r) ==
    CASE id \in 4 .. 9 -> Take(r, id \in {8, 9} => r.v <= MaxStreams, [p EXCEPT !.limit[id] = r.v])
      [] id = 1 -> Take(r, TRUE, [p EXCEPT !.idle = Times(r.v)])
      [] id = 3 -> Take(r, TRUE, [p EXCEPT !.udp = r.v])
      [] id = 10 -> Take(r, r.v <= 20, [p EXCEPT !.exp = r.v])
      [] id = 11 -> Take(r, r.v < 16384, [p EXCEPT !.ackdelay = r.v * Milli])
      [] id = 14 -> Take(r, TRUE, [p EXCEPT !.cids = r.v])
      [] id = 32 -> Take(r, TRUE, [p EXCEPT !.dgram = r.v])

\* ... for flags, connection IDs and the other values
StoreFlag(p, id, r) ==
    Take(r, TRUE, IF id = 12 THEN [p EXCEPT !.nomig = TRUE] ELSE [p EXCEPT !.grease = TRUE])
StoreCid(p, id, r) ==
    Take(r, TRUE, CASE id = 0 -> [p EXCEPT !.odcid = r.v]
                    [] id = 16 -> [p EXCEPT !.rscid = r.v]
                    [] id = 15 -> [p EXCEPT !.iscid = r.v])
StoreToken(p, r) == Take(r, TRUE, [p EXCEPT !.token = r.v])
StorePreferredAddr(p, r) == Take(r, TRUE, [p EXCEPT !.paddr = r.v])
StoreVersionInfo(p, r) == Take(r, TRUE, [p EXCEPT !.versions = r.v])

\* All cases; an unknown parameter is skipped
DecodeParam(p, id, b, i) ==
    CASE id \in (4 .. 9) \cup {1, 3, 10, 11, 14, 32} -> StoreInteger(p, id, DecodeVarintParam(b, i))
      [] id \in {12, 10930} -> StoreFlag(p, id, DecodeZeroParam(b, i))
      [] id \in {0, 15, 16} -> StoreCid(p, id, DecodeCidParam(b, i))
      [] id = 2 -> StoreToken(p, DecodeBytesParam(b, i, {TokenLen}))
      [] id = 13 -> StorePreferredAddr(p, DecodePreferredAddr(b, i))
      [] id = 17 -> StoreVersionInfo(p, DecodeVersionInfo(b, i))
      [] OTHER -> Take(DecodeBytesParam(b, i, 0 .. Len(b)), TRUE, p)

RECURSIVE DecodeFrom(_, _, _)

DecodeAfter(b, r) == IF ~r.ok THEN Bad ELSE DecodeFrom(r.p, b, r.i)

DecodeKnown(p, b, id) == IF ~id.ok THEN Bad ELSE DecodeAfter(b, DecodeParam(p, id.v, b, id.i))

\* The loop of ngtcp2_transport_params_decode
DecodeFrom(p, b, i) ==
    IF Len(b) - i < 2 THEN IF i = Len(b) THEN [ok |-> TRUE, p |-> p] ELSE Bad
    ELSE DecodeKnown(p, b, DecodeVarint(b, i))

Decode(b) == DecodeFrom(Default, b, 0)

----------------------------------------------------------------------------
(* 0-RTT: what a client remembers of the server's parameters.              *)

\* ngtcp2_conn_encode_0rtt_transport_params at the client
Encode0rtt(src) ==
    Encode([Default EXCEPT !.limit = src.limit, !.cids = src.cids, !.dgram = src.dgram])

\* ngtcp2_conn_set_0rtt_remote_transport_params: the parameters early data
\* is sent under, and the limits kept for the comparison
Set0rtt(p) ==
    [used |-> [Default EXCEPT !.limit = p.limit, !.cids = Larger(DefaultCidLimit, p.cids), !.dgram = p.dgram,
                              !.udp = IF p.udp = 0 THEN @ ELSE Larger(MinUdpPayload, p.udp)],
     kept |-> [limit |-> p.limit, cids |-> p.cids, dgram |-> p.dgram]]

\* conn_validate_early_transport_params_limits
ValidateEarly(kept, p) ==
    kept.cids <= p.cids /\ (\A i \in 4 .. 9 : kept.limit[i] <= p.limit[i]) /\ kept.dgram <= p.dgram

----------------------------------------------------------------------------
(* Versions.                                                               *)

\* ngtcp2_is_reserved_version: 0x?a?a?a?a
IsReserved(v) == \A k \in 0 .. 3 : (v \div 256 ^ k) % 16 = 10

FirstOf(pref, offered, fallback) ==
    LET hits == {i \in DOMAIN pref : pref[i] \in offered}
    IN IF hits = {} THEN fallback ELSE pref[Min(hits)]

\* ngtcp2_select_version
SelectVersion(pref, offered) == FirstOf(pref, ToSet(offered), 0)

\* select_preferred_version
SelectPreferredVersion(pref, chosen, available, fallback) ==
    IF pref = <<>> \/ (available = <<>> /\ chosen = fallback) THEN fallback
    ELSE FirstOf(pref, {chosen} \cup ToSet(available), fallback)

\* The available_versions field that conn_new prepares
AvailableVersions(server, available, preferred, chosen) ==
    IF available # <<>> THEN available
    ELSE IF server THEN IF preferred # <<>> THEN preferred ELSE <<V1>>
    ELSE IF IsReserved(chosen) THEN <<>> ELSE <<chosen>>

\* The part of ngtcp2_conn_set_remote_transport_params about the version, at
\* the server: the version it goes on with
ServerNegotiate(preferred, chosen, info) ==
    IF ~Includes(Tail(info), info[1]) \/ info[1] # chosen THEN 0
    ELSE SelectPreferredVersion(preferred, info[1], Tail(info), info[1])

\* conn_client_validate_transport_params, the part about the version; info
\* is the server's version_information
ClientValidate(v, info) ==
    /\ v.neg = info[1]
    /\ v.orig # v.chosen =>
         /\ v.orig # info[1]
         /\ Len(info) > 1
         /\ v.chosen = SelectPreferredVersion(v.prefC, info[1], Tail(info), 0)

----------------------------------------------------------------------------
(* The machine.  tp: a server's parameters cross the handshake, the client *)
(* remembers them, and a later connection sends early data under them.     *)

NoParams == [stage |-> "none", p |-> Default, wire |-> <<>>, got |-> Default, mem |-> <<>>, early |-> Default]

SomeToken == [i \in 1 .. TokenLen |-> i]
SomeReserved == 168430090

\* Parameters a server sends; ngtcp2_transport_params_convert_to_latest and
\* the application fill every field
ServerParams ==
    {[Default EXCEPT !.limit = [i \in 4 .. 9 |-> IF i = k THEN n ELSE m], !.iscid = <<7>>, !.odcid = <<8>>,
                     !.token = t, !.idle = d, !.ackdelay = d + Milli, !.cids = 2 + (m % 7), !.nomig = (n = 0),
                     !.dgram = n, !.grease = (m = 0), !.exp = n % 21,
                     !.udp = IF n = 0 THEN DefaultUdpPayload ELSE MinUdpPayload + n,
                     !.paddr = IF n = 0 THEN NoAddr
                               ELSE [v4 |-> IF m = 0 THEN Absent ELSE <<10, 0, 0, 1, 1, 187>>, v6 |-> Absent,
                                     cid |-> <<9>>, token |-> SomeToken],
                     !.versions = IF n = 0 THEN Absent ELSE <<V1, V1, V2>>] :
       k \in 4 .. 9, m \in Limits, n \in Limits, t \in {Absent, SomeToken}, d \in {0, 1, Milli + 1}}

TpSend(p) ==
    /\ tp.stage \in {"none", "read"}
    /\ tp' = [tp EXCEPT !.stage = IF tp.stage = "none" THEN "sent" ELSE "resumed", !.p = p, !.wire = Encode(p),
                        !.early = IF tp.stage = "none" THEN @ ELSE Decode(tp.mem).p]
    /\ UNCHANGED vn

\* ngtcp2_conn_decode_and_set_remote_transport_params at the client, the
\* checks that do not compare connection IDs, and what the application saves
\* for the next connection; with early data pending, conn_recv_crypto's
\* comparison with the remembered limits
TpGot(t, r) ==
    IF ~(/\ r.ok /\ r.p.iscid # Absent /\ r.p.odcid # Absent
         /\ r.p.cids >= DefaultCidLimit /\ r.p.udp >= MinUdpPayload)
    THEN [t EXCEPT !.stage = "refused"]
    ELSE IF t.stage = "resumed" /\ ~ValidateEarly(Set0rtt(t.early).kept, r.p)
         THEN [t EXCEPT !.stage = "lowered"]
    ELSE [t EXCEPT !.stage = IF @ = "resumed" THEN "done" ELSE "read", !.got = r.p, !.mem = Encode0rtt(r.p)]

TpRead ==
    /\ tp.stage \in {"sent", "resumed"}
    /\ tp' = TpGot(tp, Decode(tp.wire))
    /\ UNCHANGED vn

\* The parameters of a later connection: one limit has changed
ChangedParams(p) ==
    {[p EXCEPT !.limit[k] = n] : k \in 4 .. 9, n \in Limits} \cup {[p EXCEPT !.dgram = n] : n \in Limits}
    \cup {[p EXCEPT !.cids = n] : n \in {2, 3, 8}}

TpNext ==
    \/ tp.stage = "none" /\ \E p \in ServerParams : TpSend(p)
    \/ tp.stage = "read" /\ \E p \in ChangedParams(tp.p) : TpSend(p)
    \/ TpRead

\* vn: one client and one server with their configured version lists
VnInit(orig, prefC, availC, prefS) ==
    [stage |-> "idle", orig |-> orig, chosen |-> orig, prefC |-> prefC, availC |-> availC, prefS |-> prefS,
     offer |-> <<>>, info |-> <<>>, neg |-> 0, negS |-> 0]

\* The version_information of the client: ngtcp2_conn_commit_local_transport_params
ClientInfo(v) == <<v.chosen>> \o AvailableVersions(FALSE, v.availC, v.prefC, v.chosen)

\* server.cc send_version_negotiation
ServerOffer(pref) == <<SomeReserved>> \o (IF pref = <<>> THEN <<V1>> ELSE pref)

VnConnect ==
    /\ vn.stage = "idle"
    /\ vn' = [vn EXCEPT !.stage = "initial", !.info = ClientInfo(vn)]
    /\ UNCHANGED tp

\* server.cc read_pkt: an unsupported version is answered with Version
\* Negotiation; otherwise the connection handles the ClientHello
VnServer ==
    LET neg == ServerNegotiate(vn.prefS, vn.chosen, vn.info)
    IN /\ vn.stage = "initial"
       /\ vn' = IF ~IsSupported(vn.chosen) THEN [vn EXCEPT !.stage = "offered", !.offer = ServerOffer(vn.prefS)]
                ELSE IF neg = 0 THEN [vn EXCEPT !.stage = "error"]
                ELSE [vn EXCEPT !.stage = "hello", !.negS = neg,
                                !.info = <<neg>> \o AvailableVersions(TRUE, <<>>, vn.prefS, 0)]
       /\ UNCHANGED tp

\* conn_on_version_negotiation and the application's restart: client.cc
VnClient ==
    LET v == SelectVersion(vn.prefC, vn.offer)
    IN /\ vn.stage = "offered"
       /\ vn' = IF vn.orig # vn.chosen \/ Includes(vn.offer, vn.chosen) THEN [vn EXCEPT !.stage = "ignored"]
                ELSE IF v = 0 THEN [vn EXCEPT !.stage = "stopped"]
                ELSE [vn EXCEPT !.stage = "idle", !.chosen = v]
       /\ UNCHANGED tp

\* conn_recv_handshake_pkt takes the version of the server's first Initial,
\* then the server's transport parameters are validated
VnHello ==
    LET v == [vn EXCEPT !.neg = vn.negS]
        known == vn.negS = vn.chosen \/ Includes(Tail(ClientInfo(vn)), vn.negS)
    IN /\ vn.stage = "hello"
       /\ vn' = IF ~known THEN [vn EXCEPT !.stage = "ignored"]
                ELSE [v EXCEPT !.stage = IF ClientValidate(v, vn.info) THEN "agreed" ELSE "error"]
       /\ UNCHANGED tp

VnNext == VnConnect \/ VnServer \/ VnClient \/ VnHello

TpInit ==
    /\ tp = NoParams
    /\ \E orig \in FirstVersions, prefC \in Lists, prefS \in Lists :
          \E availC \in {<<>>} \cup {l \in Lists : l # <<>> /\ ToSet(prefC) \subseteq ToSet(l)} :
             /\ IsSupported(orig) /\ prefC # <<>> => Includes(prefC, orig)
             /\ IsSupported(orig) /\ availC # <<>> => Includes(availC, orig)
             /\ vn = VnInit(orig, prefC, availC, prefS)

----------------------------------------------------------------------------
(* Properties.                                                             *)

\* What the peer reads is what was sent, at the resolution of the wire:
\* transport_params.c divides times by a millisecond, and the defaults it
\* leaves out are those it assumes.  No valid set of parameters is refused.
ParamsRoundTrip ==
    /\ tp.stage # "refused"
    /\ tp.stage \in {"read", "done"} =>
         LET Ms(d) == Milli * (d \div Milli)
         IN tp.got = [tp.p EXCEPT !.idle = Ms(@), !.ackdelay = Ms(@)]

\* Early data is sent under limits remembered from an earlier connection,
\* through an encoding of their own.  When the new connection goes on, the
\* server's new limits allow whatever the remembered ones did
\* (conn_validate_early_transport_params_limits).
EarlyDataWithinLimits ==
    tp.stage = "done" =>
        LET used == Set0rtt(tp.early).used
        IN /\ \A i \in 4 .. 9 : used.limit[i] <= tp.p.limit[i]
           /\ used.cids <= tp.p.cids
           /\ used.dgram <= tp.p.dgram

\* Two honest endpoints never fail version negotiation with an error or a
\* silently ignored packet: the version a client picks from a Version
\* Negotiation packet passes its own downgrade check against the versions
\* the server lists in its transport parameters, although the server may
\* move to another version in between.  Both ends then use the same version,
\* one that the client offered.
VersionsAgree ==
    /\ vn.stage \notin {"error", "ignored"}
    /\ vn.stage = "agreed" => /\ vn.neg = vn.negS
                              /\ IsSupported(vn.neg)
                              /\ vn.neg \in {vn.chosen} \cup ToSet(vn.availC)
                              /\ Includes(vn.prefS, vn.chosen) => Includes(vn.prefS, vn.neg)

=============================================================================
