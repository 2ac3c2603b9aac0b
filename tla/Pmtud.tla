------------------------------- MODULE Pmtud -------------------------------
(***************************************************************************)
(* Path MTU discovery (ngtcp2_pmtud.c) as the connection drives it: a      *)
(* search over a list of datagram sizes, each tried up to three times,     *)
(* restarted when the path changes.  A probe packet is lost when it is     *)
(* larger than what the path carries, and may be lost or acknowledged late *)
(* in any case.                                                            *)
(***************************************************************************)
EXTENDS Integers, Sequences, FiniteSets, FiniteSetsExt

CONSTANTS
  ProbeLists,   \* the lists of sizes to try (settings.pmtud_probes)
  PathSizes,    \* what paths carry
  HardMaxes,    \* min(peer's max_udp_payload_size, max_tx_udp_payload_size)
  BaseSize,     \* NGTCP2_MAX_UDP_PAYLOAD_SIZE: every path carries it
  ProbeNumMax,  \* NGTCP2_PMTUD_PROBE_NUM_MAX
  MaxPaths      \* bound: paths used one after another

VARIABLE pm

NoFail == 1 + Max(UNION {{l[i] : i \in DOMAIN l} : l \in ProbeLists})

\* The first index at or after i whose probe has one of the sizes, or one past
\* the end.
FirstFrom(l, i, sizes) ==
  Min({Len(l) + 1} \cup {j \in i..Len(l) : l[j] \in sizes})

PmtudRequire(p, c) == [p EXCEPT !.bad = @ \/ ~c]

Finished(p) == p.idx > Len(p.probes)

StopIfFinished(p) == IF Finished(p) THEN [p EXCEPT !.on = FALSE] ELSE p

\* ngtcp2_pmtud_new, from conn_start_pmtud on a new path.
PmtudNew(p) ==
  StopIfFinished(
    [p EXCEPT !.on = TRUE, !.nsent = 0, !.armed = FALSE, !.fail = NoFail,
              !.max = p.dcidmax, !.first = p.pkt,
              !.idx = FirstFrom(p.probes, 1, (p.dcidmax + 1)..p.hard)])

PmtudInit ==
  \E l \in ProbeLists, size \in PathSizes, h \in HardMaxes :
    pm = PmtudNew([on |-> FALSE, probes |-> l, hard |-> h, size |-> size,
                   dcidmax |-> BaseSize, max |-> BaseSize, fail |-> NoFail,
                   idx |-> 1, nsent |-> 0, armed |-> FALSE,
                   first |-> 0, pkt |-> 0, paths |-> 1, sent |-> {},
                   lossy |-> FALSE, bad |-> FALSE])

-----------------------------------------------------------------------------

\* A mutant: the limit is not looked at again after the first probe.
NextProbeIgnoresLimit(p) ==
  [PmtudRequire(p, ~Finished(p))
     EXCEPT !.nsent = 0, !.armed = FALSE,
            !.idx = FirstFrom(p.probes, p.idx + 1, (p.max + 1)..(p.fail - 1))]

NextProbe(p) ==
  [PmtudRequire(p, ~Finished(p))
     EXCEPT !.nsent = 0, !.armed = FALSE,
            !.idx = FirstFrom(p.probes, p.idx + 1,
                              (p.max + 1)..Min({p.hard, p.fail - 1}))]

\* conn_write_pmtud_probe: a probe is due whenever no timer is armed.
PmtudProbe ==
  /\ pm.on
  /\ ~pm.armed
  /\ LET p == PmtudRequire(pm, ~Finished(pm)) IN
     pm' = [p EXCEPT !.nsent = @ + 1, !.armed = TRUE, !.pkt = @ + 1,
                     !.sent = @ \cup {[num |-> pm.pkt, len |-> pm.probes[pm.idx],
                                       path |-> pm.paths]}]

ProbeSuccess(p, len) ==
  LET q == PmtudRequire([p EXCEPT !.max = Max({@, len})], ~Finished(p)) IN
  IF p.probes[p.idx] > q.max THEN q ELSE NextProbe(q)

\* process_acked_pkt for a probe packet the path carried, late or not.
PmtudAcked ==
  \E e \in pm.sent :
    LET p == [pm EXCEPT !.sent = @ \ {e}]
        q == ProbeSuccess(p, e.len)
    IN  /\ e.path < pm.paths \/ e.len <= pm.size
        /\ pm' = IF pm.on /\ pm.first <= e.num
                 THEN StopIfFinished([q EXCEPT !.dcidmax = Max({@, e.len})])
                 ELSE p

\* ngtcp2_pmtud_handle_expiry; the answer may still be on its way.
PmtudExpiry ==
  /\ pm.on
  /\ pm.armed
  /\ LET p == [pm EXCEPT !.armed = FALSE]
         len == pm.probes[pm.idx]
     IN  pm' = IF pm.nsent < ProbeNumMax THEN p
               ELSE StopIfFinished(NextProbe(
                      [p EXCEPT !.fail = Min({@, len}),
                                !.lossy = @ \/ len <= pm.size]))

\* The path changes: ngtcp2_conn_stop_pmtud and conn_start_pmtud.
PmtudNewPath ==
  /\ pm.paths < MaxPaths
  /\ \E size \in PathSizes :
       pm' = PmtudNew([pm EXCEPT !.paths = @ + 1, !.size = size,
                                 !.dcidmax = BaseSize, !.lossy = FALSE])

PmtudNext == PmtudProbe \/ PmtudAcked \/ PmtudExpiry \/ PmtudNewPath

-----------------------------------------------------------------------------

\* The assertions of ngtcp2_pmtud.c hold, the size in use is one the current
\* path carries and within the limit, whatever answers to probes of an earlier
\* path or of a size given up arrive late; and once the search stops, the size
\* found is the largest of the list that the path and the limit allow, unless
\* probes the path could have carried were lost.
PmtudSound ==
  /\ ~pm.bad
  /\ pm.dcidmax <= Max({BaseSize, Min({pm.size, pm.hard})})
  /\ pm.on => ~Finished(pm) /\ pm.probes[pm.idx] > pm.max
  /\ ~pm.on /\ ~pm.lossy =>
       \A i \in DOMAIN pm.probes :
         pm.probes[i] <= pm.size /\ pm.probes[i] <= pm.hard
           => pm.probes[i] <= pm.dcidmax

=============================================================================
