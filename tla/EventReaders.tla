---------------------------- MODULE EventReaders ----------------------------
(***************************************************************************)
(* The ring readers of a run, from a record to the counters and the event  *)
(* log, up to the summary and the report made of them.  There is one       *)
(* goroutine per ring; they share the counters, the mutex jsonlMu, the     *)
(* sequence, the file, the kTLS tracker and the compiled policy.  (The two *)
(* deny rings have a module of their own, DenyPipeline.)                   *)
(*                                                                         *)
(* A reader takes a record and its arrival time ("handle"), decodes,       *)
(* classifies and counts it, then locks the file ("lock"), draws a number  *)
(* and appends ("append").  A failing append may leave a part of a line    *)
(* behind; the next line is glued to it and both are malformed.            *)
(***************************************************************************)
EXTENDS Policy, KtlsTracker, TlsReassembler, Report

CONSTANTS
  Scenarios,        \* what a run may meet: see Init
  MaxFS,            \* maxFSEventsTotal
  BaseDelay,        \* ringReadRetryBaseDelay
  MaxDelay,         \* ringReadRetryMaxDelay
  CanaryTimeout     \* canaryTimeout, in ticks of the canary loop

\* The parts of a scenario that are tokens, names and addresses have their fields.
ASSUME ScenarioAssumption ==
  \A x \in Scenarios :
    /\ \A t \in x.hosts : t.wild \in BOOLEAN /\ t.name \in Names
    /\ \A t \in x.ips : t.form \in {"ip", "cidr", "bad"} /\ t.fam \in {"v4", "mapped", "v6"}
    /\ x.answers \subseteq Names
    /\ \A r \in DOMAIN x.samples : \A s \in x.samples[r] : s.chunk.name \in Names

VARIABLES
  scenario,   \* the member of Scenarios this run is in
  pol,        \* the compiled policy
  clock,      \* time.Now()
  pc,         \* pc[r]: where the reader of ring r is
  cur,        \* cur[r]: its record and the record's arrival time
  out,        \* out[r]: the lines it still has to write for the record
  backoff,    \* backoff[r]: ringReadRetryBackoff.current
  mu,         \* the reader that holds jsonlMu, or "free"
  seq,        \* SeqGen.next
  log,        \* the well-formed lines of the event log
  malformed,  \* how many other lines the file has
  torn,       \* the file ends in an unterminated line
  n,          \* the event counters of runStats
  policyCounts,
  dropped,    \* droppedCounts
  ktlsBy,     \* ktlsTracker.by
  tlsStore,   \* tlsReassembler.store
  canary,     \* canaryState, canary_trigger and the echoes in the connect ring
  phase,      \* "running", "cancelled", "joined" or "done"
  summary     \* what WriteSummary stored

\* History, for the properties: what the readers did so far.
VARIABLES
  reads,      \* records taken from the rings
  silent,     \* records of the QuietRings that leave neither a line nor a drop
  swallowed,  \* the lines appended to an unterminated one
  faults,     \* failed appends, scribbles and failed reads
  marks,      \* the offloads, in the order of the calls of Mark
  hellos      \* the TLS records, in the order they were handled

readerVars == <<pc, cur, out, backoff>>
fileVars == <<mu, seq, log, malformed, torn, swallowed>>
statVars == <<n, policyCounts, dropped, silent>>
tlsVars == <<ktlsBy, tlsStore, marks, hellos>>
given == <<scenario, pol>>
vars == <<given, clock, readerVars, fileVars, statVars, tlsVars, canary, phase, summary,
          reads, faults>>

Rings == {"exec", "fork", "fs", "tcp", "tls", "udp", "http", "dns", "ktls", "tcp_state",
          "io_uring", "io_uring_tls", "egress_backstop", "bpf_self_defense", "bpf_audit",
          "ipv6_obs"}

Active == DOMAIN scenario.samples

\* The rings some of whose records leave no trace by intent: canaries, DNS replies, and
\* records of three observers that cannot be read.
QuietRings == {"tcp", "dns", "egress_backstop", "bpf_self_defense", "io_uring_tls"}

-----------------------------------------------------------------------------
(* Lines and records.                                                      *)

NoAddr == [fam |-> "none", host |-> 0]
NoChunk == [part |-> "other", name |-> NoName]

\* The fields of a JSONL line that some property or report reads.
Event(type) ==
  [type |-> type, pid |-> 0, dst |-> NoAddr, name |-> NoName, sent |-> NoName,
   policy |-> "none", conf |-> "none", ktls |-> FALSE, joined |-> FALSE]

NoEvent == Event("none")

\* A record as the ring delivers it, before it is decoded: `size` is "short" for one
\* below its wire size, `length` its length field, "over" when that exceeds the payload.
Record(kind) ==
  [kind |-> kind, size |-> "wire", length |-> "fits", pid |-> 1, fd |-> 1, dst |-> NoAddr, quicPort |-> FALSE,
   chunk |-> NoChunk, seqNr |-> 0]

\* decodeConnectEvent, decodeConnectResultEvent, decodeUDPSendEvent
decodeConnectEvent(s) == s.size = "wire"

\* decodeHTTPSniffEvent, decodeTLSSniffEvent: the payload is bounded by a length field.
decodeSniffEvent(s) == s.size = "wire" /\ s.length = "fits"

\* The sample carries its length first; older programs send a shorter header.
decodeDNSSniffSample(s) == s.size \in {"wire", "legacy"} /\ s.length = "fits"

\* The decoders of the audit, kTLS, TCP state, io_uring, backstop and self-defense events.
decodeFixedEvent(s) == s.size = "wire"

\* A length field out of range is clamped here.
decodeIOUringTLSEvent(s) == s.size = "wire"

\* The drop kind counted when a line of this type cannot be appended.
JsonlDrop ==
  [exec |-> "exec_jsonl", proc_fork |-> "proc_fork_jsonl", fs_event |-> "fs_jsonl",
   tcp |-> "tcp_jsonl", tcp_result |-> "tcp_result_jsonl", tls |-> "tls_jsonl",
   udp |-> "udp_jsonl", quic_candidate |-> "quic_candidate_jsonl", http |-> "http_jsonl",
   ktls_offload |-> "ktls_jsonl", tcp_state |-> "tcp_state_jsonl",
   io_uring_send |-> "io_uring_jsonl", io_uring_tls |-> "io_uring_tls_jsonl",
   egress_backstop |-> "egress_backstop_jsonl",
   bpf_self_defense |-> "bpf_self_defense_jsonl", bpf_audit |-> "bpf_audit_jsonl",
   tcp6 |-> "ipv6_obs_jsonl", udp6 |-> "ipv6_obs_jsonl"]

Types == DOMAIN JsonlDrop

ReaderDrops ==
  {"exec_decode", "proc_fork_decode", "fs_decode", "fs_cap", "tcp_decode",
   "tcp_result_decode", "tls_decode", "tls_sni_parse", "udp_decode", "http_decode",
   "http_prefix_parse", "dns_decode", "dns_decode_tcp_short", "ktls_decode",
   "tcp_state_decode", "io_uring_decode", "bpf_audit_decode", "ipv6_obs_decode"}

DropKinds == ReaderDrops \cup {JsonlDrop[t] : t \in Types}

\* The counter a line of this type is counted in; tcp6 and udp6 lines share one.
CounterOf(type) == IF type \in {"tcp6", "udp6"} THEN "ipv6" ELSE type

Counters ==
  {CounterOf(t) : t \in Types \ {"io_uring_tls"}}
    \cup {"full", "partial", "unknown", "unknown_ktls", "quic_observed", "confirmed", "refused"}

-----------------------------------------------------------------------------
(* What a reader makes of one record: a drop kind or none, the counters it *)
(* adds to, the class it counts, and the lines it writes.                  *)

Discard(drop) ==
  [drop |-> drop, count |-> {}, class |-> "none", lines |-> << >>, by |-> ktlsBy,
   store |-> tlsStore]

\* No line and no drop.
Silently == Discard("none")

Emit(count, class, event) ==
  [drop |-> "none", count |-> count \cup {CounterOf(event.type)}, class |-> class,
   lines |-> <<event>>, by |-> ktlsBy, store |-> tlsStore]

readExecRing(s) ==
  IF ~ decodeFixedEvent(s) THEN Discard("exec_decode") ELSE Emit({}, "none", Event("exec"))

readForkRing(s) ==
  IF ~ decodeFixedEvent(s) THEN Discard("proc_fork_decode") ELSE Emit({}, "none", Event("proc_fork"))

\* Variation: events beyond the cap are not counted.
readFSRingUncounted(s) ==
  IF ~ decodeFixedEvent(s) THEN Discard("fs_decode")
  ELSE IF n["fs_event"] + 1 > MaxFS THEN [Discard("fs_cap") EXCEPT !.count = {}]
  ELSE Emit({}, "none", Event("fs_event"))

\* Beyond the cap an event is still counted, but not written.
readFSRing(s) ==
  IF ~ decodeFixedEvent(s) THEN Discard("fs_decode")
  ELSE IF n["fs_event"] + 1 > MaxFS THEN [Discard("fs_cap") EXCEPT !.count = {"fs_event"}]
  ELSE Emit({}, "none", Event("fs_event"))

\* The name the DNS cache has for the address is sanitized, then classified.
Attributed(type, s, answer) ==
  LET fqdn == Sanitize(answer) IN
  [Event(type) EXCEPT !.pid = s.pid, !.dst = s.dst, !.name = fqdn, !.sent = answer,
                      !.policy = Classify(pol, fqdn, s.dst)]

\* classifyConnectRingRecord routes by the magic number.  A canary goes to
\* canaryState (see Handle) and leaves nothing.
readConnectRing(s, answer) ==
  LET tcp == Attributed("tcp", s, answer) IN
  CASE s.kind = "canary" -> Silently
    [] s.kind = "result" -> IF ~ decodeConnectEvent(s) THEN Discard("tcp_result_decode")
                            ELSE Emit({}, "none", Event("tcp_result"))
    [] OTHER -> IF ~ decodeConnectEvent(s) THEN Discard("tcp_decode") ELSE Emit({}, tcp.policy, tcp)

\* IsQUICCandidate: port 443 and not a loopback address.
IsQUICCandidate(s) == s.quicPort /\ s.dst.host # 127

\* A QUIC candidate has a second line, counted when the first one is done.
readUDPRing(s, answer) ==
  LET udp == Attributed("udp", s, answer) IN
  IF ~ decodeConnectEvent(s) THEN Discard("udp_decode")
  ELSE IF IsQUICCandidate(s)
    THEN [Emit({"quic_observed"}, udp.policy, udp) EXCEPT !.lines = Append(@, Event("quic_candidate"))]
    ELSE Emit({}, udp.policy, udp)

\* The Host header takes the place of the cache's answer.
readHTTPRing(s) ==
  LET http == Attributed("http", s, s.chunk.name) IN
  IF ~ decodeSniffEvent(s) THEN Discard("http_decode")
  ELSE IF s.kind = "unparsed" THEN Discard("http_prefix_parse")
  ELSE Emit({}, http.policy, http)

\* A reply goes to the DNS cache (module DnsCaches); it has at least a header, and over
\* TCP two bytes more.
readDNSRing(s) ==
  IF ~ decodeDNSSniffSample(s) \/ s.kind = "headerless" THEN Discard("dns_decode")
  ELSE IF s.kind = "tcp_short" THEN Discard("dns_decode_tcp_short")
  ELSE Silently

readKTLSRing(s, stamp) ==
  IF ~ decodeFixedEvent(s) THEN Discard("ktls_decode")
  ELSE [Emit({}, "none", Event("ktls_offload")) EXCEPT
          !.by = Mark(ktlsBy, clock, s.pid, s.fd, stamp)]

\* classifyTCPStateTransition
readTCPStateRing(s) ==
  IF ~ decodeFixedEvent(s) THEN Discard("tcp_state_decode")
  ELSE Emit(CASE s.kind = "established" -> {"confirmed"}
              [] s.kind = "close" -> {"refused"}
              [] OTHER -> {},
            "none", Event("tcp_state"))

readIoUringRing(s) ==
  IF ~ decodeFixedEvent(s) THEN Discard("io_uring_decode") ELSE Emit({}, "none", Event("io_uring_send"))

\* egressBackstopEventFromRaw: a record of an unknown family is skipped as well.
readEgressBackstopRing(s) ==
  IF ~ decodeFixedEvent(s) \/ s.kind = "other_family" THEN Silently ELSE Emit({}, "none", Event("egress_backstop"))

readBpfSelfDefenseRing(s) ==
  IF ~ decodeFixedEvent(s) THEN Silently ELSE Emit({}, "none", Event("bpf_self_defense"))

\* Skipped as well when the captured bytes have no server name.  The names are kept
\* as a set, so there is no count.
readIoUringTLSRing(s) ==
  IF ~ decodeIOUringTLSEvent(s) \/ ~ Parses(<<s.chunk>>) THEN Silently
  ELSE [Emit({}, "none", [Event("io_uring_tls") EXCEPT !.name = Sanitize(s.chunk.name)])
          EXCEPT !.count = {}]

readBPFAuditRing(s) ==
  IF ~ decodeFixedEvent(s) THEN Discard("bpf_audit_decode") ELSE Emit({}, "none", Event("bpf_audit"))

\* ipv6ObsHookName
readIPv6ObsRing(s) ==
  IF ~ decodeFixedEvent(s) THEN Discard("ipv6_obs_decode")
  ELSE Emit({}, "none", Event(IF s.kind = "sendmsg" THEN "udp6" ELSE "tcp6"))

\* A name as long as the parser accepts may have been longer.
ScoreTLSConfidence(name) ==
  IF name.labels = NoLabels THEN "unknown"
  ELSE IF name.size = "max" THEN "partial" ELSE "full"

\* The outcome for a ClientHello with this server name.  An offload observed no
\* later than the record overrides the confidence.
TlsLine(s, stamp, name, joined) ==
  LET ktls == IsKTLS(ktlsBy, clock, s.pid, 0, stamp)
      conf == IF ktls THEN "unknown" ELSE ScoreTLSConfidence(name)
      tls == [Attributed("tls", s, name) EXCEPT !.conf = conf, !.ktls = ktls, !.joined = joined]
  IN  Emit({conf} \cup (IF ktls THEN {"unknown_ktls"} ELSE {}), tls.policy, tls)

\* The possible outcomes of a TLS record: it parses by itself, or joined to what the
\* reassembler kept of its stream.
readTLSRing(s, stamp) ==
  IF ~ decodeSniffEvent(s) THEN {Discard("tls_decode")}
  ELSE IF Parses(<<s.chunk>>) THEN {TlsLine(s, stamp, s.chunk.name, FALSE)}
  ELSE IF ~ HasKey(s.dst) THEN {Discard("tls_sni_parse")}
  ELSE {[(IF a.parsed THEN TlsLine(s, stamp, a.name, a.joined) ELSE Discard("tls_sni_parse"))
           EXCEPT !.store = a.store] :
          a \in AppendAndParse(tlsStore, clock, ReasmKey(s.pid, s.dst), s.chunk)}

\* The outcomes of ring r; an answer of the DNS cache is any name the scenario has.
Outcomes(r, s, stamp) ==
  CASE r = "exec" -> {readExecRing(s)}
    [] r = "fork" -> {readForkRing(s)}
    [] r = "fs" -> {readFSRing(s)}
    [] r = "tcp" -> {readConnectRing(s, answer) : answer \in scenario.answers}
    [] r = "udp" -> {readUDPRing(s, answer) : answer \in scenario.answers}
    [] r = "http" -> {readHTTPRing(s)}
    [] r = "dns" -> {readDNSRing(s)}
    [] r = "ktls" -> {readKTLSRing(s, stamp)}
    [] r = "tls" -> readTLSRing(s, stamp)
    [] r = "tcp_state" -> {readTCPStateRing(s)}
    [] r = "io_uring" -> {readIoUringRing(s)}
    [] r = "io_uring_tls" -> {readIoUringTLSRing(s)}
    [] r = "egress_backstop" -> {readEgressBackstopRing(s)}
    [] r = "bpf_self_defense" -> {readBpfSelfDefenseRing(s)}
    [] r = "bpf_audit" -> {readBPFAuditRing(s)}
    [] r = "ipv6_obs" -> {readIPv6ObsRing(s)}

-----------------------------------------------------------------------------
(* The loop of a reader.                                                   *)

MetaLine(env, allowlist, covers) ==
  [seq |-> 0, event |-> [type |-> "meta", env |-> env, allowlist |-> allowlist,
                         covers |-> covers]]

Nothing == [sample |-> Record("none"), stamp |-> 0]

NoCanary ==
  [seqNr |-> 0, trigger |-> 0, echoes |-> << >>, lastSent |-> 0, sentAt |-> 0,
   lastReceived |-> 0, failCount |-> 0, tickAt |-> 0, firstAt |-> 0]

\* writeStartupMeta comes before the readers are launched; its append may fail.
Init ==
  /\ scenario \in Scenarios
  /\ pol = BuildPolicyEx(scenario.hosts, scenario.ips, scenario.ignored, scenario.defaults)
  /\ ~ pol.error
  /\ clock = 0
  /\ pc = [r \in Rings |-> IF r \in Active THEN "read" ELSE "exit"]
  /\ cur = [r \in Rings |-> Nothing]
  /\ out = [r \in Rings |-> << >>]
  /\ backoff = [r \in Rings |-> 0]
  /\ mu = "free"
  /\ seq = 0
  /\ \/ log = << >>
     \/ log = <<MetaLine(scenario.env, scenario.allowlist, << >>)>> /\ scenario.logging
  /\ malformed = 0
  /\ torn = FALSE
  /\ n = [c \in Counters |-> 0]
  /\ policyCounts = [c \in Classes |-> 0]
  /\ dropped = [k \in DropKinds |-> 0]
  /\ ktlsBy = {}
  /\ tlsStore = {}
  /\ canary = NoCanary
  /\ phase = "running"
  /\ summary = << >>
  /\ reads = 0
  /\ silent = 0
  /\ swallowed = << >>
  /\ faults = 0
  /\ marks = << >>
  /\ hellos = << >>

Goto(r, loc) == pc' = [pc EXCEPT ![r] = loc]

\* time.Now() moves on.
Tick ==
  /\ phase \in {"running", "cancelled"}
  /\ clock < scenario.maxClock
  /\ clock' = clock + 1
  /\ UNCHANGED <<given, readerVars, fileVars, statVars, tlsVars, canary, phase, summary,
                 reads, faults>>

\* runRingReader: a record arrives, with its time of arrival.  The connect ring also
\* carries the canary's echoes.
Read(r) ==
  /\ pc[r] = "read"
  /\ phase \in {"running", "cancelled"}
  /\ reads < scenario.reads
  /\ \/ \E s \in scenario.samples[r] :
          /\ cur' = [cur EXCEPT ![r] = [sample |-> s, stamp |-> clock]]
          /\ UNCHANGED canary
     \/ /\ r = "tcp"
        /\ canary.echoes # << >>
        /\ cur' = [cur EXCEPT ![r] =
             [sample |-> [Record("canary") EXCEPT !.seqNr = Head(canary.echoes)], stamp |-> clock]]
        /\ canary' = [canary EXCEPT !.echoes = Tail(@)]
  /\ reads' = reads + 1
  /\ backoff' = [backoff EXCEPT ![r] = 0]
  /\ Goto(r, "handle")
  /\ UNCHANGED <<given, clock, out, fileVars, statVars, tlsVars, phase, summary, faults>>

\* nextDelay
NextDelay(current) ==
  IF current = 0 THEN BaseDelay
  ELSE IF 2 * current > MaxDelay THEN MaxDelay ELSE 2 * current

\* rd.Read() fails while the run goes on: sleep and try again.
ReadFails(r) ==
  /\ pc[r] = "read"
  /\ phase = "running"
  /\ scenario.retries
  /\ faults < scenario.faults
  /\ backoff' = [backoff EXCEPT ![r] = NextDelay(@)]
  /\ faults' = faults + 1
  /\ UNCHANGED <<given, clock, pc, cur, out, fileVars, statVars, tlsVars, canary, phase,
                 summary, reads>>

\* The ring is closed, or a read fails after the cancellation.  A reader may drain
\* any number of records before it gets there.
ReaderExits(r) ==
  /\ pc[r] = "read"
  /\ phase = "cancelled"
  /\ Goto(r, "exit")
  /\ UNCHANGED <<given, clock, cur, out, backoff, fileVars, statVars, tlsVars, canary, phase,
                 summary, reads, faults>>

Add(counts, S) == [c \in DOMAIN counts |-> IF c \in S THEN counts[c] + 1 ELSE counts[c]]

\* The type of the second line for a record, if there is one.
Second(lines) == IF Len(lines) > 1 THEN {lines[2].type} ELSE {}

\* noteReceived
NoteReceived(s) ==
  canary' = IF s.kind = "canary" /\ decodeFixedEvent(s) THEN [canary EXCEPT !.lastReceived = s.seqNr]
            ELSE canary

\* The history of TLS records and of offloads.
Remember(r, s, stamp, o) ==
  /\ marks' = IF r = "ktls" /\ decodeFixedEvent(s)
                THEN Append(marks, [pid |-> s.pid, fd |-> s.fd, markedAt |-> stamp, at |-> clock])
                ELSE marks
  /\ hellos' = IF r = "tls" /\ decodeSniffEvent(s)
                 THEN Append(hellos, [pid |-> s.pid, dst |-> s.dst, chunk |-> s.chunk, at |-> clock,
                                      stamp |-> stamp, marks |-> Len(marks), lines |-> o.lines])
                 ELSE hellos

\* onRecord up to the lock of the file: decode, classify, count.  Without an events
\* path the second line of a QUIC candidate is counted right away.
Handle(r) ==
  /\ pc[r] = "handle"
  /\ LET s == cur[r].sample stamp == cur[r].stamp IN
     \E o \in Outcomes(r, s, stamp) :
       LET writes == scenario.logging /\ o.lines # << >>
           later == IF writes THEN {} ELSE Second(o.lines)
       IN
       /\ n' = Add(n, o.count \cup later)
       /\ policyCounts' = Add(policyCounts, {o.class})
       /\ dropped' = Add(dropped, {o.drop})
       /\ silent' = silent + (IF r \in QuietRings /\ o.drop = "none" /\ o.lines = << >> THEN 1 ELSE 0)
       /\ ktlsBy' = o.by
       /\ tlsStore' = o.store
       /\ out' = [out EXCEPT ![r] = IF writes THEN o.lines ELSE << >>]
       /\ NoteReceived(s)
       /\ Remember(r, s, stamp, o)
       /\ Goto(r, IF writes THEN "lock" ELSE "read")
  /\ cur' = [cur EXCEPT ![r] = Nothing]
  /\ UNCHANGED <<given, clock, backoff, fileVars, phase, summary, reads, faults>>

\* Variation: the number is drawn without the lock of the file.
NumberUnlocked(r) ==
  /\ pc[r] = "lock"
  /\ mu' = r
  /\ seq' = seq + 1
  /\ Goto(r, "append")
  /\ UNCHANGED <<given, clock, cur, out, backoff, log, malformed, torn, swallowed, statVars,
                 tlsVars, canary, phase, summary, reads, faults>>

\* jsonlMu.Lock() and seq.Next()
LockAndNumber(r) ==
  /\ pc[r] = "lock"
  /\ mu = "free"
  /\ mu' = r
  /\ seq' = seq + 1
  /\ Goto(r, "append")
  /\ UNCHANGED <<given, clock, cur, out, backoff, log, malformed, torn, swallowed, statVars,
                 tlsVars, canary, phase, summary, reads, faults>>

\* The file takes a line: a line of its own, or the rest of an unterminated one.
FileTakes(line) ==
  IF torn
    THEN /\ torn' = FALSE
         /\ swallowed' = Append(swallowed, line)
         /\ UNCHANGED <<log, malformed>>
    ELSE /\ log' = Append(log, line)
         /\ UNCHANGED <<torn, malformed, swallowed>>

\* After jsonlMu.Unlock(): the line is dealt with; a QUIC candidate has one more, and
\* is counted now.
LineDone(r) ==
  /\ mu' = "free"
  /\ out' = [out EXCEPT ![r] = Tail(@)]
  /\ n' = Add(n, Second(out[r]))
  /\ Goto(r, IF Len(out[r]) > 1 THEN "lock" ELSE "read")

\* AppendJSONL succeeds.
AppendLine(r) ==
  /\ pc[r] = "append"
  /\ FileTakes([seq |-> seq, event |-> Head(out[r])])
  /\ LineDone(r)
  /\ UNCHANGED <<given, clock, cur, backoff, seq, policyCounts, dropped, silent, tlsVars,
                 canary, phase, summary, reads, faults>>

\* Variation: a failed append is not counted.
AppendFailsQuietly(r) ==
  /\ pc[r] = "append"
  /\ faults < scenario.faults
  /\ \/ UNCHANGED <<malformed, torn>>
     \/ torn' = TRUE /\ malformed' = malformed + (IF torn THEN 0 ELSE 1)
  /\ LineDone(r)
  /\ faults' = faults + 1
  /\ UNCHANGED <<given, clock, cur, backoff, seq, log, swallowed, policyCounts, dropped, silent,
                 tlsVars, canary, phase, summary, reads>>

\* AppendJSONL fails, with nothing written or a part of the line.
AppendFails(r) ==
  /\ pc[r] = "append"
  /\ faults < scenario.faults
  /\ \/ UNCHANGED <<malformed, torn>>
     \/ torn' = TRUE /\ malformed' = malformed + (IF torn THEN 0 ELSE 1)
  /\ LineDone(r)
  /\ dropped' = Add(dropped, {JsonlDrop[Head(out[r]).type]})
  /\ faults' = faults + 1
  /\ UNCHANGED <<given, clock, cur, backoff, seq, log, swallowed, policyCounts, silent, tlsVars,
                 canary, phase, summary, reads>>

\* A build step appends bytes that are no event, with or without a line end.
Scribble ==
  /\ phase = "running"
  /\ scenario.logging
  /\ faults < scenario.faults
  /\ \E ended \in BOOLEAN : torn' = ~ ended
  /\ malformed' = malformed + (IF torn THEN 0 ELSE 1)
  /\ faults' = faults + 1
  /\ UNCHANGED <<given, clock, readerVars, mu, seq, log, swallowed, statVars, tlsVars, canary,
                 phase, summary, reads>>

-----------------------------------------------------------------------------
(* The canary, and the end of the run.                                     *)

\* runCanaryLoop: one tick.  Writing the trigger may fail; otherwise noteSent is
\* followed by checkAndRecordFailure.
CanaryTick ==
  LET next == canary.seqNr + 1
      sentAt == clock
      late == /\ next > 0 /\ canary.lastReceived < next
              /\ clock - sentAt > CanaryTimeout
  IN
  /\ phase = "running"
  /\ scenario.canary
  /\ clock > canary.tickAt
  /\ \/ canary' = [canary EXCEPT !.seqNr = next, !.tickAt = clock]
     \/ canary' = [canary EXCEPT
          !.seqNr = next, !.tickAt = clock, !.trigger = next, !.lastSent = next,
          !.sentAt = sentAt, !.firstAt = IF @ = 0 THEN clock ELSE @,
          !.failCount = @ + (IF late THEN 1 ELSE 0)]
  /\ UNCHANGED <<given, clock, readerVars, fileVars, statVars, tlsVars, phase, summary, reads, faults>>

\* maybe_emit_canary: the next system call of any process sends the echo and clears
\* the trigger (if the ring is full, the trigger stays).
EchoCanary ==
  /\ phase \in {"running", "cancelled"}
  /\ canary.trigger # 0
  /\ canary' = [canary EXCEPT !.echoes = Append(@, canary.trigger), !.trigger = 0]
  /\ UNCHANGED <<given, clock, readerVars, fileVars, statVars, tlsVars, phase, summary, reads, faults>>

\* SIGTERM; scenarios about the readers alone leave it out.
Cancel ==
  /\ phase = "running"
  /\ scenario.stops
  /\ phase' = "cancelled"
  /\ UNCHANGED <<given, clock, readerVars, fileVars, statVars, tlsVars, canary, summary, reads, faults>>

\* wg.Wait()
Join ==
  /\ phase = "cancelled"
  /\ \A r \in Rings : pc[r] = "exit"
  /\ phase' = "joined"
  /\ UNCHANGED <<given, clock, readerVars, fileVars, statVars, tlsVars, canary, summary, reads, faults>>

\* snapshotSummary.  File, backstop and self-defense events and the results of connects
\* have counters that no field of the summary shows.
SnapshotSummary ==
  [counts |-> [c \in Counters \ {"fs_event", "quic_candidate", "tcp_result", "unknown_ktls",
                                 "egress_backstop", "bpf_self_defense"} |-> n[c]],
   dropped |-> dropped, policy |-> policyCounts]

\* writeShutdownTelemetry: the summary, then a meta line with the hash of the file so
\* far.  The line may fail as any other.
WriteShutdownTelemetry ==
  /\ phase = "joined"
  /\ phase' = "done"
  /\ summary' = SnapshotSummary
  /\ \/ scenario.logging /\ FileTakes(MetaLine("", 0, log))
     \/ UNCHANGED <<log, malformed, torn, swallowed>>
  /\ UNCHANGED <<given, clock, readerVars, mu, seq, statVars, tlsVars, canary, reads, faults>>

Next ==
  \/ \E r \in Rings : \/ Read(r) \/ ReadFails(r) \/ ReaderExits(r) \/ Handle(r)
                      \/ LockAndNumber(r) \/ AppendLine(r) \/ AppendFails(r)
  \/ Tick \/ Scribble \/ CanaryTick \/ EchoCanary
  \/ Cancel \/ Join \/ WriteShutdownTelemetry

Spec == Init /\ [][Next]_vars

-----------------------------------------------------------------------------
(* Properties.                                                             *)

\* What the log promises its consumers, through all the readers that share it: a
\* number is drawn under the lock that covers its append, and never for a record
\* that leaves no line.  While a number is drawn and not yet written it counts as
\* not drawn.
Log == INSTANCE EventLog WITH next <- IF mu = "free" THEN seq ELSE seq - 1

LogSpec == Log!Spec

\* The sum of some counters, as the number of things they count.
Sum(counts, S) == Cardinality(UNION {{c} \X (1..counts[c]) : c \in S})

\* The types of the lines that share a counter with this one.
Alike(type) == {t \in Types : CounterOf(t) = CounterOf(type)}

\* The readers whose current line has one of these types.
Pending(types) == {r \in Rings : out[r] # << >> /\ Head(out[r]).type \in types}

\* Where a counted line of this type can be: in the log, swallowed, dropped, or with
\* its reader.
Whereabouts(type) ==
  Lines(log, Alike(type)) + Lines(swallowed, Alike(type)) + dropped[JsonlDrop[type]]
    + Cardinality(Pending(Alike(type)))

\* Counters, file and drops agree at every moment: an event that is counted is in the
\* log, or counted as dropped, or on its way, or was glued to an unterminated line.
\* Such a line spoils at most itself and the one after it.
CountsMatchLog ==
  /\ Len(swallowed) <= malformed
  /\ scenario.logging =>
    \A type \in Types \ {"io_uring_tls"} :
      n[CounterOf(type)] = Whereabouts(type) + (IF type = "fs_event" THEN dropped["fs_cap"] ELSE 0)

\* Every record taken from a ring is counted as an event or as a drop, except for the
\* few the QuietRings leave out on purpose.  The breakdowns of the counters add up:
\* classes to the classified events, confidence tiers to the TLS events, and both QUIC
\* numbers to each other.
RecordsAccounted ==
  /\ Sum(policyCounts, Classes) = n["tcp"] + n["udp"] + n["http"] + n["tls"]
  /\ n["tls"] = n["full"] + n["partial"] + n["unknown"]
  /\ n["unknown_ktls"] <= n["unknown"]
  /\ n["confirmed"] + n["refused"] <= n["tcp_state"]
  /\ n["quic_observed"] = n["quic_candidate"] + (IF Len(out["udp"]) > 1 THEN 1 ELSE 0)
  /\ scenario.logging =>
    reads = silent + Sum(dropped, ReaderDrops \ {"fs_cap"})
              + Sum(n, {CounterOf(t) : t \in Types \ {"io_uring_tls", "quic_candidate"}})
              + Whereabouts("io_uring_tls")
              + Cardinality({r \in Rings : pc[r] = "handle"})

\* The offloads known when hello h was handled.
MarksBefore(h) == {i \in 1..Len(marks) : i <= h.marks /\ marks[i].pid = h.pid}

Fresh(mark, h) == mark.at > h.at - KtlsTTL /\ mark.markedAt <= h.stamp

\* The confidence of a TLS line is overridden exactly when the process had an offload
\* that was observed before the hello arrived and has not expired; the last one of a
\* socket stands for that socket.
KtlsExact ==
  \A j \in 1..Len(hellos) :
    LET h == hellos[j]
        latest == {i \in MarksBefore(h) :
                     \A k \in MarksBefore(h) : marks[k].fd = marks[i].fd => k <= i}
    IN  h.lines # << >> =>
          (h.lines[1].ktls <=> \E i \in latest : Fresh(marks[i], h))

SameStream(g, h) == g.pid = h.pid /\ g.dst.host = h.dst.host

\* A joined name comes from two writes of one process to one destination, in order
\* and within the time to live.
JoinedFromOneStream ==
  \A j \in 1..Len(hellos) :
    LET h == hellos[j] IN
    h.lines # << >> /\ h.lines[1].joined =>
      \E i \in 1..(j - 1) :
        /\ SameStream(hellos[i], h)
        /\ hellos[i].chunk.part = "head"
        /\ h.at - hellos[i].at <= ReasmTTL * (j - i)
        /\ \E k \in (i + 1)..j : /\ SameStream(hellos[k], h)
                                 /\ hellos[k].chunk.part = "body"
                                 /\ h.lines[1].sent = hellos[k].chunk.name

\* A hello split into head and body is recovered if the body follows in time and no
\* more streams than the store has room for were active since the head.
SplitHelloJoined ==
  \A i, j \in 1..Len(hellos) :
    LET g == hellos[i] h == hellos[j] IN
    ( /\ i < j
      /\ SameStream(g, h) /\ HasKey(g.dst) /\ HasKey(h.dst)
      /\ \A k \in 1..(j - 1) : SameStream(hellos[k], h) => k = i
      /\ g.chunk.part = "head" /\ h.chunk.part = "body"
      /\ h.at - g.at <= ReasmTTL
      /\ Cardinality({[pid |-> hellos[k].pid, host |-> hellos[k].dst.host] :
           k \in {x \in 1..j : hellos[x].at >= g.at}}) <= MaxKey )
    => h.lines # << >>

\* The lines in the log that have a class.
Classified == {line \in Range(log) : line.event.type \in {"tcp", "udp", "http", "tls"}}

\* A name is covered by a host token that Parse keeps: the same name, or one label in
\* front of it, in any mix of cases.
CoveredBy(t, name) ==
  LET want == t.name.labels have == name.labels IN
  /\ ~ SkippedHost(t)
  /\ have # << >>
  /\ name.dot = t.name.dot
  /\ IF t.wild THEN Tail(have) = want ELSE have = want

\* What the lists of a scenario say of an event's destination: an address on the allow
\* list beats an ignored range, which beats a name; without a list there is no verdict.
MeansList(x, e) ==
  LET v4 == IsIPv4(e.dst)
      listedAddr == v4 /\ \E t \in x.ips : t.fam # "v6" /\ e.dst.host \in t.hosts
      ignored == v4 /\ (\/ \E t \in x.ignored : e.dst.host \in t.hosts
                        \/ x.defaults /\ \E net \in DefaultIgnored : e.dst.host \in net)
      listedName == \E t \in x.hosts : CoveredBy(t, e.name)
      noList == x.ips = {} /\ \A t \in x.hosts : SkippedHost(t)
  IN  /\ e.policy = "allowed" <=> listedAddr \/ (~ ignored /\ listedName)
      /\ e.policy = "ignored" <=> ignored /\ ~ listedAddr
      /\ e.policy = "monitor" <=> noList /\ ~ ignored

\* The class in a line is what the lists say.
PolicyMeansList == \A line \in Classified : MeansList(scenario, line.event)

\* The report made from the log and the summary made from the counters say the same
\* of a run without faults, and the report never says more; each fault hides at most two
\* packets that the backstop saw from its verdict.  The log it is made from is
\* sealed: the shutdown meta line is the last one, and its hash covers all before it.
ReportAgrees ==
  /\ \A i \in 2..Len(log) : log[i].event.type = "meta" =>
       i = Len(log) /\ log[i].event.covers = SubSeq(log, 1, i - 1)
  /\ (phase = "done" /\ scenario.logging) =>
    LET a == Aggregate(log, malformed)
        s == summary.counts
        pairs == {<<a.tcp + a.udp, s["tcp"] + s["udp"] + s["ipv6"]>>, <<a.ipv6, s["ipv6"]>>,
                  <<a.http, s["http"]>>, <<a.exec, s["exec"]>>, <<a.fork, s["proc_fork"]>>,
                  <<a.quic, s["quic_observed"]>>, <<a.ktls, s["ktls_offload"]>>,
                  <<a.full, s["full"]>>, <<a.partial, s["partial"]>>,
                  <<a.unknown, s["unknown"]>>,
                  <<a.fs, n["fs_event"] - summary.dropped["fs_cap"]>>}
    IN  /\ \A pair \in pairs : pair[1] <= pair[2]
        /\ faults = 0 => /\ \A pair \in pairs : pair[1] = pair[2]
                         /\ a.verdict = "backstop" <=> n["egress_backstop"] > 0
                         /\ "protection" \in RenderSimple(a) <=>
                              n["egress_backstop"] + n["bpf_self_defense"] > 0
                         /\ "quic" \in RenderDetailed(a) <=> s["quic_observed"] > 0
        /\ a.verdict = "captured nothing" => n["egress_backstop"] <= 2 * faults

\* What README.md says of the report: it warns of an environment that hides traffic,
\* if the agent has recorded one.
ReportShowsEnv ==
  (phase = "done" /\ log # << >> /\ log[1].event.type = "meta" /\ scenario.env = "dind") =>
    "dind" \in RenderSimple(Aggregate(log, malformed))

\* What the comment on runCanaryLoop says: when no canary ever comes back, the first
\* tick after the timeout records a failure.
MissingEchoRecorded ==
  (/\ canary.firstAt > 0 /\ canary.lastReceived = 0
   /\ canary.sentAt = clock /\ clock - canary.firstAt > CanaryTimeout)
  => canary.failCount > 0
=============================================================================
