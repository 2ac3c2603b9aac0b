------------------------------ MODULE MCCodec -------------------------------
(***************************************************************************)
(* The codec's machines in one run: packets, transport parameters and      *)
(* versions, crumbled CRYPTO data.  They share no state; mode says which   *)
(* one a behaviour is about, and the others stay in their initial state.   *)
(***************************************************************************)
EXTENDS Packet, TransportParams, Crumble

VARIABLE mode

N(k) == [i \in 1 .. k |-> (7 * i) % 256]
F(t, a) == [t |-> t, a |-> a]

MCFrames ==
    {F(STREAM, <<0, 0, <<>>, TRUE>>), F(STREAM, <<4, 64, N(3), FALSE>>), F(STREAM, <<16384, 63, N(2), TRUE>>),
     F(STREAM, <<64, 0, N(64), FALSE>>),
     F(ACK, <<5, 0, 5, <<>>, <<>>>>), F(ACK, <<70, 16384, 1, <<<<0, 3>>, <<63, 0>>>>, <<>>>>),
     F(ACK_ECN, <<16383, 64, 0, <<<<1, 64>>>>, <<1, 0, 16384>>>>),
     F(RESET_STREAM, <<4, 1073741824, 63>>), F(STOP_SENDING, <<64, 7>>),
     F(CRYPTO, <<0, N(5)>>), F(CRYPTO, <<16384, N(63)>>), F(NEW_TOKEN, <<N(4)>>),
     F(MAX_DATA, <<1073741823>>), F(MAX_STREAM_DATA, <<4, 1073741824>>),
     F(MAX_STREAMS_BIDI, <<64>>), F(MAX_STREAMS_UNI, <<63>>), F(DATA_BLOCKED, <<16383>>),
     F(STREAM_DATA_BLOCKED, <<0, 64>>), F(STREAMS_BLOCKED_BIDI, <<0>>), F(STREAMS_BLOCKED_UNI, <<64>>),
     F(NEW_CONNECTION_ID, <<2, 0, N(8), N(16)>>), F(NEW_CONNECTION_ID, <<64, 64, N(20), N(16)>>),
     F(RETIRE_CONNECTION_ID, <<64>>), F(PATH_CHALLENGE, <<N(8)>>), F(PATH_RESPONSE, <<N(8)>>),
     F(CONNECTION_CLOSE, <<10, 6, N(3)>>), F(CONNECTION_CLOSE, <<64, 64, <<>>>>),
     F(CONNECTION_CLOSE_APP, <<256, 0, N(2)>>), F(HANDSHAKE_DONE, <<>>), F(PING, <<>>),
     F(DATAGRAM_LEN, <<N(2)>>), F(DATAGRAM_LEN, <<<<>>>>)}

MCMore == {F(PING, <<>>), F(STREAM, <<8, 1, N(1), FALSE>>), F(ACK, <<1, 0, 0, <<>>, <<>>>>), F(DATAGRAM_LEN, <<N(3)>>)}
MCStarts == {-1, 250}
MCGaps == {127, 200, 32768}

Bits == {0, 1, 64, 255}
MCQuestions ==
    {[k |-> "frame", fr |-> f] : f \in MCFrames}
    \cup {[k |-> "bytes", b |-> <<t>> \o s] : t \in 0 .. 49, s \in UNION {[1 .. n -> Bits] : n \in 0 .. 3}}
    \cup {[k |-> "bytes", b |-> <<t>> \o s] : t \in {2, 3, 13, 28}, s \in [1 .. 6 -> {0, 1, 64}]}
    \cup [k : {"size"}, id : {0, 64}, offset : {0, 63, 16384}, left : 1 .. 6, len : {0, 1, 70}]
    \cup [k : {"size"}, id : {0, 64}, offset : {0, 64}, left : 60 .. 75, len : {1, 62, 63, 64, 70, 20000}]
    \cup [k : {"size"}, id : {0, 64}, offset : {0}, left : 16382 .. 16396, len : {64, 16382, 16383, 16384, 20000}]
    \cup [k : {"stateless"}, ver : {V1, V2}, odcid : {N(8), N(20)}, tok : {N(1), N(3)}, rand : {0, 255},
          versions : {<<V1>>, <<V2, V1>>}, room : {20, 21, 24, 50}, token : {N(16)}, noise : {N(4), N(5), N(9)}]

MCLists == {<<>>, <<V1>>, <<V2>>, <<V1, V2>>, <<V2, V1>>}
MCFirst == {V1, V2, 439041101}
MCHellos == {<<130>>, <<20, 30>>, <<70, 60>>, <<22, 40, 3>>}

codecVars == <<pktVars, tpVars, cr, mode>>

\* A machine that is not the mode's stays in one of its initial states
CodecInit ==
    /\ mode \in {"packet", "params", "versions", "crumble"}
    /\ PacketInit
    /\ mode # "packet" => tx = -1
    /\ TpInit
    /\ mode # "versions" => vn = VnInit(V1, <<>>, <<>>, <<>>)
    /\ CrumbleInit
    /\ mode # "crumble" => cr.left = Min(Rooms) /\ cr.q = Submitted(<<130>>) /\ ~cr.kept

CodecNext ==
    /\ UNCHANGED mode
    /\ \/ mode = "packet" /\ PacketNext /\ UNCHANGED <<tpVars, cr>>
       \/ mode = "params" /\ TpNext /\ UNCHANGED <<pktVars, cr>>
       \/ mode = "versions" /\ VnNext /\ UNCHANGED <<pktVars, cr>>
       \/ mode = "crumble" /\ CrumbleNext /\ UNCHANGED <<pktVars, tpVars>>

CodecSpec == CodecInit /\ [][CodecNext]_codecVars

\* What pkt.c and conn.c write is read back as it was meant: packet numbers and
\* headers, frames one after the other, the length of STREAM data that fits,
\* Version Negotiation, Retry and stateless reset packets.
PacketsReadBack ==
    Readable /\ FramesSelfDelimiting /\ DatalenBestFit /\ StatelessPacketsRead

\* Transport parameters survive the encoding, those remembered for 0-RTT allow
\* no more than the server's later ones, and the endpoints agree on a version
\* that neither was talked out of.
ParamsAgree == ParamsRoundTrip /\ EarlyDataWithinLimits /\ VersionsAgree

=============================================================================
