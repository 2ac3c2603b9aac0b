----------------------------- MODULE Migration -----------------------------
(***************************************************************************)
(* Destination connection IDs, path validation, migration and the          *)
(* anti-amplification budget of one endpoint, client or server, after the  *)
(* handshake.  A connection ID is its sequence number and a path is a pair *)
(* <<local, remote>>.  Lengths are counted in half-datagrams: FullSize     *)
(* stands for NGTCP2_MAX_UDP_PAYLOAD_SIZE.  Timers are choices: whether a  *)
(* deadline has passed when the code looks is decided by the environment.  *)
(* The peer, and the network that delays, repeats and drops its frames,    *)
(* are the other half of the next-state relation.                          *)
(***************************************************************************)
EXTENDS Integers, Sequences, FiniteSets

CONSTANTS
    Limit,         \* local active_connection_id_limit
    BoundSize,     \* NGTCP2_DCIDTR_MAX_BOUND_DCID_SIZE
    RetiredSize,   \* NGTCP2_DCIDTR_MAX_RETIRED_DCID_SIZE
    UnackedSize,   \* length of retire_unacked.seqs
    RingSize,      \* length of the path challenge and path history rings
    NumProbe,      \* NGTCP2_PV_NUM_PROBE_PKT
    MaxSeq,        \* bound: sequence numbers the peer issues
    MaxDgram,      \* bound: datagrams received
    MaxSend        \* bound: datagrams sent

VARIABLES
    c,      \* the endpoint
    peer,   \* what the peer issued and saw retired
    io      \* datagrams received and sent; for each path, three times the
            \* lengths received less the lengths sent while unvalidated

vars == <<c, peer, io>>

FullSize == 2
PreferredAddr == 2      \* the server's preferred address
Paths(server) == IF server THEN {<<1, 1>>, <<1, 2>>, <<PreferredAddr, 1>>}
                 ELSE {<<1, 1>>, <<2, 1>>, <<1, PreferredAddr>>}

NoDcid == [seq |-> -1]
NoPv == [dcid |-> NoDcid]

Dcid(seq, path) ==
    [seq |-> seq, path |-> path, valid |-> FALSE, recv |-> 0, sent |-> 0]

PvNew(dcid, dontcare, pref) ==
    [dcid |-> dcid, fb |-> NoDcid, dontcare |-> dontcare, pref |-> pref,
     ents |-> {}, left |-> NumProbe]

Range(s) == {s[i] : i \in DOMAIN s}

(* A ring of at most n elements: a push into a full ring drops the element
   at the other end. *)
PushBack(s, x, n) == Append(IF Len(s) = n THEN Tail(s) ELSE s, x)
PushFront(s, x, n) == <<x>> \o SubSeq(s, 1, IF Len(s) = n THEN n - 1 ELSE Len(s))

Init ==
    /\ \E server, prefPresent \in BOOLEAN :
         c = [server |-> server, confirmed |-> server,
              prefPresent |-> prefPresent,
              cur |-> [Dcid(0, <<1, 1>>) EXCEPT !.valid = TRUE], pv |-> NoPv,
              bound |-> <<>>, 
              unused |-> IF ~server /\ prefPresent THEN <<1>> ELSE <<>>,
              retired |-> <<>>, unacked |-> {}, acked |-> {}, rpt |-> 0,
              seen |-> IF ~server /\ prefPresent THEN {0, 1} ELSE {0},
              hist |-> <<>>, odd |-> {},
              challenges |-> <<>>, pmtud |-> TRUE, active |-> {0},
              bad |-> {}, err |-> "none"]
    /\ peer = [frames |-> {}, last |-> Cardinality(c.seen) - 1, rpt |-> 0,
               retired |-> {}]
    /\ io = [recv |-> 0, send |-> 0, room |-> [p \in Paths(c.server) |-> 0]]

-----------------------------------------------------------------------------
(* Reading the endpoint. *)

HasPv(s) == s.pv # NoPv
HasFallback(s) == HasPv(s) /\ s.pv.fb # NoDcid

Inactive(s) == Range(s.unused) \cup {d.seq : d \in Range(s.bound)}
InUse(s) == {s.cur.seq} \cup (IF HasPv(s) THEN {s.pv.dcid.seq} ELSE {})
                        \cup (IF HasFallback(s) THEN {s.pv.fb.seq} ELSE {})
Held(s) == InUse(s) \cup Inactive(s)

BoundTo(s, path) == {i \in DOMAIN s.bound : s.bound[i].path = path}

BoundWith(s, seqs) == {d \in Range(s.bound) : d.seq \in seqs}

Blame(s, what, ok) == IF ok THEN s ELSE [s EXCEPT !.bad = @ \cup {what}]

(* Only the server reads the byte counters, and only while the path of the
   DCID is not validated: they stay zero everywhere else. *)
AddRecv(s, d) == IF s.server /\ ~d.valid THEN [d EXCEPT !.recv = @ + 1] ELSE d
AddSent(s, d, n) == IF s.server /\ ~d.valid THEN [d EXCEPT !.sent = @ + n] ELSE d
Validated(d) == [d EXCEPT !.valid = TRUE, !.recv = 0, !.sent = 0]

TxLeft(d) == IF d.valid THEN FullSize ELSE d.recv * 3 - d.sent

ServerTxLeftOwn(s, d) == TxLeft(d)

(* conn_server_tx_left: the record that is charged for the path of d *)
ServerTxLeft(s, d) == TxLeft(IF d.path = s.cur.path THEN s.cur ELSE d)

Smaller(a, b) == IF a < b THEN a ELSE b

-----------------------------------------------------------------------------
(* Activating and retiring connection IDs. *)

Activate(s, seq) ==
    [Blame(s, "cid", seq \notin s.active \ s.odd) EXCEPT !.active = @ \cup {seq}]

Deactivate(s, seq) ==
    [Blame(s, "cid", seq \in s.active \cup s.odd) EXCEPT !.active = @ \ {seq}]

Track(s, seq) ==
    IF seq \in s.unacked THEN s
    ELSE IF Cardinality(s.unacked) >= UnackedSize
         THEN [s EXCEPT !.err = "CONNECTION_ID_LIMIT"]
         ELSE [s EXCEPT !.unacked = @ \cup {seq}]

RetireActiveSilently(s, d) ==
    Track([s EXCEPT !.retired =
             PushBack(@, [seq |-> d.seq, path |-> d.path], RetiredSize)], d.seq)

RetireActive(s, d) ==
    LET full == Len(s.retired) = RetiredSize
        s1 == IF full THEN Deactivate(s, Head(s.retired).seq) ELSE s
        s2 == [s1 EXCEPT !.retired =
                 PushBack(@, [seq |-> d.seq, path |-> d.path], RetiredSize)]
    IN Track(Blame(s2, "cid", d.seq \notin s.unacked \ s.odd), d.seq)

RECURSIVE TrackAll(_, _)
TrackAll(s, seqs) ==
    IF seqs = {} THEN s
    ELSE LET q == CHOOSE q \in seqs : TRUE IN TrackAll(Track(s, q), seqs \ {q})

(* remove_dcid_at: the last element fills a hole in the middle. *)
RemoveAt(s, i) ==
    IF i = 1 THEN Tail(s)
    ELSE [SubSeq(s, 1, Len(s) - 1) EXCEPT
            ![Smaller(i, Len(s) - 1)] = IF i = Len(s) THEN @ ELSE s[Len(s)]]

RECURSIVE RemoveAll(_, _, _)
RemoveAll(s, i, gone) ==
    IF i > Len(s) THEN s
    ELSE IF s[i] \in gone THEN RemoveAll(RemoveAt(s, i), i, gone)
    ELSE RemoveAll(s, i + 1, gone)

RetireInactivePriorTo(s, seq) ==
    LET gone == {q \in Inactive(s) : q < seq}
    IN [TrackAll(s, gone) EXCEPT
          !.bound = RemoveAll(@, 1, BoundWith(s, gone)),
          !.unused = RemoveAll(@, 1, gone)]

-----------------------------------------------------------------------------
(* Stopping a path validation. *)

StopPvOnly(s) ==
    IF ~HasPv(s) THEN s
    ELSE [(IF s.pv.dcid.seq # s.cur.seq THEN RetireActive(s, s.pv.dcid) ELSE s)
            EXCEPT !.pv = NoPv]

StopPv(s) ==
    IF ~HasPv(s) THEN s
    ELSE LET s1 == IF s.pv.dcid.seq # s.cur.seq THEN RetireActive(s, s.pv.dcid)
                   ELSE s
             s2 == IF /\ HasFallback(s)
                      /\ s.pv.fb.seq # s.cur.seq
                      /\ s.pv.fb.seq # s.pv.dcid.seq
                   THEN RetireActive(s1, s.pv.fb) ELSE s1
         IN [s2 EXCEPT !.pv = NoPv]

(* A history variable: the connection IDs that the code drops without
   retiring them, or retires while a fallback still holds them. *)
Odd(s, seqs) == [s EXCEPT !.odd = @ \cup seqs]

(* conn->pv = pv, after the old validation of s was stopped, leaving s1 *)
StartPv(s, s1, pv) ==
    LET s2 == [s1 EXCEPT !.pv = pv]
    IN Odd(s2, InUse(s2) \cap (s1.unacked \ s.unacked))

PathValidationFailedNoSwitch(s) == StopPv(s)

FallBack(s) == Odd([s EXCEPT !.cur = s.pv.fb],
                   {s.cur.seq} \ {s.pv.dcid.seq, s.pv.fb.seq})

PathValidationFailed(s) == StopPv(IF HasFallback(s) THEN FallBack(s) ELSE s)

StartPmtud(s) == [Blame(s, "pmtud", ~s.pmtud) EXCEPT !.pmtud = TRUE]
StopPmtud(s) == [s EXCEPT !.pmtud = FALSE]

AddHistory(s) ==
    IF s.cur.valid THEN [s EXCEPT !.hist = PushFront(@, s.cur.path, RingSize)]
    ELSE s

-----------------------------------------------------------------------------
(* NEW_CONNECTION_ID and the retirement it asks for. *)

Found(s, seq) ==
    \/ seq \in {s.cur.seq} \cup Inactive(s)
    \/ HasPv(s) /\ seq = s.pv.dcid.seq

ExtraDcidAll(s) ==
    1 + (IF HasPv(s) /\ s.pv.dcid.seq # s.cur.seq THEN 1 ELSE 0)
      + (IF HasFallback(s) /\ s.pv.fb.seq # s.cur.seq THEN 1 ELSE 0)

ExtraDcid(s) ==
    Cardinality({q \in {s.cur.seq} : q >= s.rpt})
    + (IF HasPv(s) /\ s.pv.dcid.seq # s.cur.seq /\ s.pv.dcid.seq >= s.rpt
       THEN 1 ELSE 0)
    + (IF HasFallback(s) /\ s.pv.fb.seq # s.cur.seq /\ s.pv.fb.seq >= s.rpt
       THEN 1 ELSE 0)

AddDcid(s, f) ==
    IF Limit <= Cardinality(Inactive(s)) + ExtraDcid(s)
    THEN [s EXCEPT !.err = "CONNECTION_ID_LIMIT"]
    ELSE [s EXCEPT !.unused = Append(@, f.seq)]

AddDcidUnlessKnown(s, f, known) ==
    IF s.err # "none" \/ known THEN s ELSE AddDcid([s EXCEPT !.seen = @ \cup {f.seq}], f)

RecvNewConnectionId(s, f) ==
    IF f.rpt <= s.rpt /\ f.seq < s.rpt THEN Track([s EXCEPT !.seen = @ \cup {f.seq}], f.seq)
    ELSE AddDcidUnlessKnown(
           IF s.rpt < f.rpt THEN RetireInactivePriorTo([s EXCEPT !.rpt = f.rpt], f.rpt) ELSE s,
           f, Found(s, f.seq) \/ f.seq \in s.seen)

(* The three replacements of the post-processing.  Each takes the oldest
   unused ID and gives it to every record that shares the retired one. *)
ReplaceInPv(s, old, q) ==
    IF HasPv(s) /\ s.pv.dcid.seq = old THEN [s EXCEPT !.pv.dcid.seq = q] ELSE s

ReplaceInFallback(s, old, q) ==
    IF HasFallback(s) /\ s.pv.fb.seq = old THEN [s EXCEPT !.pv.fb.seq = q] ELSE s

ReplaceCur(s) ==
    LET q == Head(s.unused)
        old == s.cur.seq
    IN Activate(ReplaceInFallback(ReplaceInPv(
         [RetireActive(s, s.cur) EXCEPT !.unused = Tail(@), !.cur.seq = q], old, q), old, q), q)

ReplacePv(s) ==
    LET q == Head(s.unused)
    IN Activate(ReplaceInFallback(
         [RetireActive(s, s.pv.dcid) EXCEPT !.unused = Tail(@), !.pv.dcid.seq = q],
         s.pv.dcid.seq, q), q)

ReplaceFallback(s) ==
    LET q == Head(s.unused)
    IN Activate([RetireActive(s, s.pv.fb) EXCEPT
                   !.unused = Tail(@), !.pv.fb.seq = q], q)

PostProcessFallback(s) ==
    IF ~HasFallback(s) \/ s.pv.fb.seq >= s.rpt THEN s
    ELSE IF s.unused = <<>> THEN StopPv(s) ELSE ReplaceFallback(s)

PostProcessPv(s) ==
    IF ~HasPv(s) THEN s
    ELSE IF s.pv.dcid.seq >= s.rpt THEN PostProcessFallback(s)
    ELSE IF s.unused = <<>> THEN StopPv(s) ELSE PostProcessFallback(ReplacePv(s))

PostProcess(s) ==
    IF s.err # "none" THEN s
    ELSE IF s.cur.seq >= s.rpt THEN PostProcessPv(s)
    ELSE IF s.unused = <<>> THEN s ELSE PostProcessPv(ReplaceCur(s))

-----------------------------------------------------------------------------
(* PATH_CHALLENGE and PATH_RESPONSE. *)

RecvPathChallenge(s, path) ==
    IF ~s.server /\ path # s.cur.path /\ (~HasPv(s) \/ path # s.pv.dcid.path)
    THEN s
    ELSE [s EXCEPT !.challenges = PushFront(@, path, RingSize)]

(* The validated path becomes the current one. *)
SwitchToPv(s) ==
    LET d == s.pv.dcid
        s1 == IF d.seq # s.cur.seq THEN RetireActive(s, s.cur) ELSE s
    IN IF d.seq = s.cur.seq /\ d.path = s.cur.path THEN s
       ELSE [AddHistory(s1) EXCEPT !.cur = d]

MarkValidatedRestart(s, undersized) ==
    LET s1 == [SwitchToPv(s) EXCEPT !.cur = Validated(@)]
    IN IF undersized THEN s1 ELSE StartPmtud(s1)

MarkValidated(s, undersized) ==
    LET s1 == StopPmtud([SwitchToPv(s) EXCEPT !.cur = Validated(@)])
    IN IF undersized THEN s1 ELSE StartPmtud(s1)

(* What is validated next: the same path with a full-sized probe, or the
   path the endpoint migrated away from. *)
NextPv(pv, undersized) ==
    IF undersized
    THEN [PvNew(Validated(pv.dcid), FALSE, FALSE) EXCEPT !.fb = pv.fb]
    ELSE IF pv.fb # NoDcid THEN PvNew(pv.fb, TRUE, FALSE) ELSE NoPv

(* u is the UNDERSIZED flag of the entry the response matches.  A response
   to any other challenge matches no entry and is ignored. *)
RecvPathResponse(s, u) ==
    IF ~HasPv(s) \/ u \notin s.pv.ents THEN s
    ELSE LET s1 == IF s.pv.dontcare THEN s ELSE MarkValidated(s, u)
             s2 == StopPv([s1 EXCEPT !.pv.fb = NoDcid])
         IN StartPv(s, s2, NextPv(s.pv, u))

-----------------------------------------------------------------------------
(* A 1-RTT packet on a path that is not the current one, at the server. *)

Blocked(s) == [s EXCEPT !.err = "CONN_ID_BLOCKED"]

(* ngtcp2_dcidtr_bind_dcid *)
BindUnused(s, path) ==
    LET full == Len(s.bound) = BoundSize
        s1 == IF full THEN Track(s, Head(s.bound).seq) ELSE s
    IN  [s1 EXCEPT !.unused = Tail(@),
                   !.bound = PushBack(@, Dcid(Head(s.unused), path), BoundSize)]

BindDcid(s, path) ==
    LET s1 == Blame(s, "bind",
                /\ path # s.cur.path
                /\ HasPv(s) => path # s.pv.dcid.path
                /\ HasFallback(s) => path # s.pv.fb.path)
    IN IF BoundTo(s, path) # {} THEN s1
       ELSE IF s.unused = <<>> THEN Blocked(s1)
       ELSE BindUnused(s1, path)

OnBound(s, path, Op(_)) ==
    [s EXCEPT !.bound = [i \in DOMAIN @ |->
                           IF i \in BoundTo(s, path) THEN Op(@[i]) ELSE @[i]]]

RecvPktFromNewPath(s, path, challenged) ==
    IF HasPv(s) /\ s.pv.dcid.path = path
    THEN [s EXCEPT !.pv.dcid = AddRecv(s, @)]
    ELSE IF HasFallback(s) /\ s.pv.fb.path = path
    THEN [s EXCEPT !.pv.fb = AddRecv(s, @)]
    ELSE IF ~challenged THEN s
    ELSE LET s1 == BindDcid(s, path)
         IN IF s1.err # "none" THEN s1
            ELSE OnBound(s1, path, LAMBDA d : AddRecv(s, d))

MigrateBack(s) ==
    LET s1 == FallBack(s)
    IN StartPmtud(StopPv([s1 EXCEPT !.cur = AddRecv(s, @)]))

(* The DCID to use on the new path, and the state without it: one already
   bound to the path, a fresh one, or the current one. *)
DcidForNewPath(s, path, newCidUsed) ==
    LET need == (newCidUsed /\ path[2] # s.cur.path[2]) \/ path[1] # s.cur.path[1]
        i == CHOOSE i \in BoundTo(s, path) : \A j \in BoundTo(s, path) : i <= j
        q == Head(s.unused)
    IN IF BoundTo(s, path) # {}
       THEN [d |-> s.bound[i],
             s |-> Activate([s EXCEPT !.bound = RemoveAt(@, i)], s.bound[i].seq)]
       ELSE IF ~need THEN [d |-> Dcid(s.cur.seq, path), s |-> s]
       ELSE IF s.unused = <<>> THEN [d |-> NoDcid, s |-> Blocked(s)]
       ELSE [d |-> Dcid(q, path),
             s |-> Activate([s EXCEPT !.unused = Tail(@)], q)]

(* known: the path is in the history and its entry is recent *)
KeepFallback(s) == IF HasFallback(s) THEN [s EXCEPT !.pv.fb = NoDcid] ELSE s

MoveTo(s, d) == StopPmtud([AddHistory(s) EXCEPT !.cur = d])

ToPreferred(s, path) ==
    path[1] # s.cur.path[1] /\ s.prefPresent /\ path[1] = PreferredAddr

MigrateWith(s, d, path, known) ==
    LET pref == ToPreferred(s, path)
        fb == IF HasFallback(s) THEN s.pv.fb ELSE IF ~pref THEN s.cur ELSE NoDcid
    IN IF s.err # "none" THEN s
       ELSE IF known
       THEN StartPv(s, StopPv(StartPmtud(Odd([MoveTo(s, d) EXCEPT !.cur = Validated(@)],
                                              {s.cur.seq} \ {d.seq}))), NoPv)
       ELSE StartPv(s, StopPv(IF pref THEN KeepFallback(s) ELSE MoveTo(KeepFallback(s), d)),
                    [PvNew(d, FALSE, FALSE) EXCEPT !.fb = fb])

MigrateFrom(x, path, known) == MigrateWith(x.s, AddRecv(x.s, x.d), path, known)

MigrateTo(s, path, newCidUsed, known) ==
    MigrateFrom(DcidForNewPath(s, path, newCidUsed), path, known)

NonProbingOnNewPath(s, path, newCidUsed, known) ==
    IF HasFallback(s) /\ s.pv.fb.path = path THEN MigrateBack(s)
    ELSE MigrateTo(s, path, newCidUsed, known)

Unblocked(s) == IF s.err = "CONN_ID_BLOCKED" THEN [s EXCEPT !.err = "none"] ELSE s

OnNewPath(s, path, pkt, known) ==
    IF ~s.server \/ path = s.cur.path \/ s.err # "none" THEN s
    ELSE Unblocked(
           IF /\ pkt.migrates # "no"
              /\ ~(HasPv(s) /\ s.pv.dcid.path = path)
           THEN NonProbingOnNewPath(s, path, pkt.migrates = "newCid", known)
           ELSE RecvPktFromNewPath(s, path, pkt.frame.kind = "challenge"))

-----------------------------------------------------------------------------
(* The actions of the endpoint. *)

Alive == c.err = "none"

InHistory(s, path) == path \in Range(s.hist)

AcceptsPath(s, path) ==
    \/ s.server
    \/ path = s.cur.path
    \/ HasPv(s) /\ path = s.pv.dcid.path
    \/ path \in {d.path : d \in Range(s.retired)}

Frames == [kind : {"none", "challenge"}] \cup [kind : {"response"}, u : BOOLEAN]
          \cup [kind : {"ncid"}, f : peer.frames]

ProcessFrame(s, path, fr) ==
    CASE fr.kind = "none" -> s
      [] fr.kind = "challenge" -> RecvPathChallenge(s, path)
      [] fr.kind = "response" -> RecvPathResponse(s, fr.u)
      [] fr.kind = "ncid" -> PostProcess(RecvNewConnectionId(s, fr.f))

RecvPkt(path, pkt, known) ==
    /\ Alive /\ io.recv < MaxDgram
    /\ AcceptsPath(c, path)
    /\ pkt.frame.kind = "response" => HasPv(c) /\ pkt.frame.u \in c.pv.ents
    /\ LET s1 == IF path = c.cur.path THEN [c EXCEPT !.cur = AddRecv(c, @)] ELSE c
       IN c' = OnNewPath(ProcessFrame(s1, path, pkt.frame), path, pkt, known)
    /\ io' = [io EXCEPT !.recv = @ + 1,
                        !.room[path] = @ + (IF c.server THEN 3 ELSE 0)]
    /\ UNCHANGED peer

(* conn_write_path_response: the state and the number of bytes written, on
   the path of the challenge. *)
Nothing(s) == [s |-> s, n |-> 0, path |-> s.cur.path, valid |-> TRUE]

RECURSIVE DropUnknown(_)
DropUnknown(s) ==
    IF s.challenges = <<>> THEN s
    ELSE IF \/ s.server
            \/ Head(s.challenges) = s.cur.path
            \/ HasPv(s) /\ Head(s.challenges) = s.pv.dcid.path
            \/ HasFallback(s) /\ Head(s.challenges) = s.pv.fb.path
         THEN s
         ELSE DropUnknown([s EXCEPT !.challenges = Tail(@)])

Response(s, path, where, d, n) ==
    [n |-> n, path |-> path, valid |-> d.valid,
     s |-> CASE where = "pv" -> [s EXCEPT !.pv.dcid = AddSent(s, @, n)]
             [] where = "fb" -> [s EXCEPT !.pv.fb = AddSent(s, @, n)]
             [] OTHER -> OnBound(s, path, LAMBDA b : AddSent(s, b, n))]

RespondWith(s, path, where, d) ==
    LET n == IF s.server THEN Smaller(FullSize, ServerTxLeft(s, d)) ELSE FullSize
    IN IF n = 0 THEN Nothing(s)
       ELSE Response([s EXCEPT !.challenges = Tail(@)], path, where, d, n)

RespondBound(s, path) ==
    IF s.err # "none" THEN Nothing(Unblocked(s))
    ELSE RespondWith(s, path, "bound", s.bound[CHOOSE i \in BoundTo(s, path) : TRUE])

RespondTo(s, path) ==
    IF HasPv(s) /\ s.pv.dcid.path = path THEN RespondWith(s, path, "pv", s.pv.dcid)
    ELSE IF HasFallback(s) /\ s.pv.fb.path = path THEN RespondWith(s, path, "fb", s.pv.fb)
    ELSE RespondBound(BindDcid(s, path), path)

RespondFirst(s) ==
    IF s.challenges = <<>> \/ Head(s.challenges) = s.cur.path THEN Nothing(s)
    ELSE RespondTo(s, Head(s.challenges))

WritePathResponse(s) == RespondFirst(DropUnknown(s))

(* ngtcp2_pv_add_entry; of the data only whether the packet was undersized *)
PvAddEntry(pv, small) == [pv EXCEPT !.left = @ - 1, !.ents = @ \cup {small}]

(* ngtcp2_pv_handle_entry_expiry *)
PvProbesLeft(pv, expired) == IF expired THEN NumProbe ELSE pv.left

(* conn_write_path_challenge.  timer says what has passed by now: nothing,
   the expiry of the last entry, or also the timeout of the validation. *)
WritePathChallenge(s, timer) ==
    LET left == PvProbesLeft(s.pv, timer = "entry")
        capped == s.server /\ ~s.pv.dcid.valid
        n == IF capped THEN Smaller(FullSize, ServerTxLeft(s, s.pv.dcid))
             ELSE FullSize
        here == s.pv.dcid.path = s.cur.path
        s1 == [s EXCEPT !.pv.left = left]
        s2 == [s1 EXCEPT !.pv = PvAddEntry(@, s.server /\ n < FullSize)]
    IN IF timer = "validation" THEN Nothing(PathValidationFailed(s))
       ELSE IF left = 0 \/ n = 0 THEN Nothing(s1)
       ELSE [n |-> n, path |-> s.pv.dcid.path,
             valid |-> IF here THEN s.cur.valid ELSE s.pv.dcid.valid,
             s |-> IF here THEN [s2 EXCEPT !.cur = AddSent(s, @, n)]
                   ELSE [s2 EXCEPT !.pv.dcid = AddSent(s, @, n)]]

(* conn_write_pkt: size bytes on the current path, as far as the budget of an
   unvalidated path allows; a challenge received on it is answered in it. *)
WritePacket(s, size) ==
    LET n == IF s.server /\ ~s.cur.valid
             THEN Smaller(size, ServerTxLeft(s, s.cur)) ELSE size
        s1 == IF s.challenges # <<>> /\ Head(s.challenges) = s.cur.path
              THEN [s EXCEPT !.challenges = Tail(@)] ELSE s
    IN IF n = 0 THEN Nothing(s)
       ELSE [n |-> n, path |-> s.cur.path, valid |-> s.cur.valid,
             s |-> [s1 EXCEPT !.cur = AddSent(s, @, n)]]

(* ngtcp2_conn_write_vmsg after the handshake: a response, else a challenge,
   else an ordinary packet. *)
ChallengeAfter(w, timer) ==
    IF w.n = 0 /\ HasPv(w.s) THEN WritePathChallenge(w.s, timer) ELSE w

PacketAfter(w, size) == IF w.n = 0 THEN WritePacket(w.s, size) ELSE w

Write(timer, size) ==
    /\ Alive /\ io.send < MaxSend
    /\ timer # "none" => HasPv(c) /\ c.pv.ents # {}
    /\ \E w \in {PacketAfter(ChallengeAfter(WritePathResponse(c), timer), size)} :
         /\ c' = Blame(w.s, "tx_left", w.n >= 0)
         /\ io' = [io EXCEPT !.send = @ + (IF w.n > 0 THEN 1 ELSE 0),
                    !.room[w.path] = @ - (IF c.server /\ ~w.valid THEN w.n ELSE 0)]
    /\ UNCHANGED peer

(* ngtcp2_conn_handle_expiry: the first n retired DCIDs and the bound DCIDs
   in stale are old enough.  PMTUD is taken never to run out of probes:
   nothing but the assertions that it is not running depends on it. *)
RECURSIVE DeactivateFirst(_, _)
DeactivateFirst(s, n) ==
    IF n = 0 THEN s
    ELSE DeactivateFirst([Deactivate(s, Head(s.retired).seq) EXCEPT
                            !.retired = Tail(@)], n - 1)

HandleExpiry(n, stale) ==
    /\ Alive
    /\ LET s1 == [TrackAll(c, stale) EXCEPT
                    !.bound = RemoveAll(@, 1, BoundWith(c, stale))]
       IN c' = DeactivateFirst(s1, n)
    /\ UNCHANGED <<peer, io>>

MayMigrate(path) ==
    /\ Alive /\ ~c.server /\ c.confirmed
    /\ HasPv(c) => ~c.pv.pref
    /\ c.unused # <<>>
    /\ path[1] # c.cur.path[1]

MigrateNow(s, d, known) ==
    IF known THEN StartPmtud([s EXCEPT !.cur = Validated(d)])
    ELSE [s EXCEPT !.cur = d, !.pv = PvNew(d, FALSE, FALSE)]

ImmediateMigration(path, known) ==
    /\ MayMigrate(path)
    /\ known => InHistory(AddHistory(c), path)
    /\ \E d \in {Dcid(Head(c.unused), path)} :
         c' = Activate(
                MigrateNow([AddHistory(RetireActive(StopPv(StopPmtud(c)), c.cur)) EXCEPT
                              !.unused = Tail(@)], d, known), d.seq)
    /\ UNCHANGED <<peer, io>>

InitiateMigration(path) ==
    /\ MayMigrate(path)
    /\ LET s1 == StopPv(c)
           d == Dcid(Head(c.unused), path)
       IN c' = Activate([s1 EXCEPT !.unused = Tail(@),
                                   !.pv = PvNew(d, FALSE, FALSE)], d.seq)
    /\ UNCHANGED <<peer, io>>

(* HANDSHAKE_DONE at the client, with or without taking up the preferred
   address of the server. *)
RecvHandshakeDone(select) ==
    /\ Alive /\ ~c.confirmed
    /\ LET s == [c EXCEPT !.confirmed = TRUE]
           d == Dcid(Head(c.unused), <<c.cur.path[1], PreferredAddr>>)
       IN c' = IF ~c.prefPresent \/ ~select \/ c.unused = <<>> \/ c.cur.path[2] = PreferredAddr THEN s
               ELSE Activate([Blame(s, "select", ~HasPv(c)) EXCEPT
                                !.unused = Tail(@),
                                !.pv = PvNew(d, FALSE, TRUE)], d.seq)
    /\ UNCHANGED <<peer, io>>

(* ngtcp2_dcidtr_untrack_retired_seq, on the ACK of a RETIRE_CONNECTION_ID *)
RetireAcked(seq) ==
    /\ Alive
    /\ seq \in c.unacked \cap peer.retired
    /\ c' = [c EXCEPT !.unacked = @ \ {seq}, !.acked = @ \cup {seq}]
    /\ UNCHANGED <<peer, io>>

-----------------------------------------------------------------------------
(* The peer.  It keeps to the limit on active connection IDs, of which it
   counts those it has neither asked to retire nor seen retired. *)

PeerIssues(rpt) ==
    LET seq == peer.last + 1
    IN /\ Alive /\ seq <= MaxSeq
       /\ rpt \in peer.rpt..seq
       /\ Cardinality((rpt..seq) \ peer.retired) <= Limit
       /\ peer' = [peer EXCEPT !.last = seq, !.rpt = rpt,
                               !.frames = @ \cup {[seq |-> seq, rpt |-> rpt]}]
       /\ UNCHANGED <<c, io>>

PeerSeesRetire(seq) ==
    /\ Alive
    /\ seq \in c.unacked \ peer.retired
    /\ peer' = [peer EXCEPT !.retired = @ \cup {seq}]
    /\ UNCHANGED <<c, io>>

(* migrates: the packet is the newest so far and holds a non-probing frame,
   and names an SCID used before or a new one *)
Pkts == [migrates : {"no"} \cup (IF c.server THEN {"sameCid", "newCid"} ELSE {}),
         frame : Frames]

Known(path) == IF InHistory(c, path) THEN BOOLEAN ELSE {FALSE}

Next ==
    \/ \E path \in Paths(c.server), pkt \in Pkts :
         \E known \in Known(path) : RecvPkt(path, pkt, known)
    \/ \E timer \in {"none", "entry", "validation"}, size \in 0..FullSize :
         Write(timer, size)
    \/ \E n \in 0..Len(c.retired),
          stale \in SUBSET {d.seq : d \in Range(c.bound)} : HandleExpiry(n, stale)
    \/ \E path \in Paths(c.server) : InitiateMigration(path)
    \/ \E path \in Paths(c.server), known \in BOOLEAN :
         ImmediateMigration(path, known)
    \/ \E select \in BOOLEAN : RecvHandshakeDone(select)
    \/ \E seq \in 0..MaxSeq : RetireAcked(seq) \/ PeerSeesRetire(seq)
    \/ \E rpt \in 0..MaxSeq : PeerIssues(rpt)

Spec == Init /\ [][Next]_vars

-----------------------------------------------------------------------------

(* The assertions on the way hold: conn_bind_dcid is never asked for a path
   that is current, being validated or a fallback; PMTUD never starts while
   it runs; and bytes_recv * 3 >= bytes_sent in dcid_tx_left. *)
AssertionsHold == c.bad \cap {"bind", "pmtud", "tx_left", "select"} = {}

(* Every connection ID received is either still held or has a
   RETIRE_CONNECTION_ID frame on its way, never both and never neither:
   otherwise the peer drops packets sent with it, or keeps it for ever.
   NEW_CONNECTION_ID frames arrive late, twice and in any order, and ask for
   the retirement of IDs in any of five places. *)
HeldXorRetired ==
    Alive => \A q \in c.seen \ c.odd :
               (q \in Held(c)) # (q \in c.unacked \cup c.acked)

(* dcid_status callbacks pair up: the application sees an ID activated and
   deactivated once each, and regards as active exactly the IDs in use and
   those in the ring of retired ones, even when that ring overflows. *)
ActiveMatches ==
    /\ "cid" \notin c.bad
    /\ Alive => c.active \ c.odd =
                 (InUse(c) \cup {d.seq : d \in Range(c.retired)}) \ c.odd

(* A peer that keeps to active_connection_id_limit never makes
   conn_recv_new_connection_id fail with CONNECTION_ID_LIMIT. *)
NoLimitError == c.err # "none" => c.odd # {}

(* Over all the records that are ever charged for a path, the server sends to
   an unvalidated path at most three times what it received from it. *)
AmplificationBound == \A p \in DOMAIN io.room : io.room[p] >= 0

(* A server without preferred address, whose peer never asks for retirement,
   is never left on a path that is neither validated nor being validated. *)
ValidatedOrValidating ==
    Alive /\ c.server /\ ~c.prefPresent /\ c.rpt = 0 /\ ~c.cur.valid
    => HasPv(c) /\ c.pv.dcid.path = c.cur.path

(* The fallback DCID handed to the next validation is not retired: the flag is
   cleared "so that conn_stop_pv does not retire DCID". *)
FallbackNotRetired ==
    HasFallback(c) => c.pv.fb.seq \notin c.unacked \cup c.acked

(* The connection IDs of the peer are accounted for: held or given back,
   known to the application while in use, and never more than were allowed. *)
CidsAccountedFor == HeldXorRetired /\ ActiveMatches /\ NoLimitError

(* Nothing but small answers goes to a path that was not validated, and the
   server does not stay on one without validating it. *)
PathsChecked == AmplificationBound /\ ValidatedOrValidating

=============================================================================
