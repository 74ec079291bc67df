------------------------------- MODULE Report -------------------------------
(***************************************************************************)
(* What the stop step makes of the event log: markdown.Parse rolls the     *)
(* lines up into an Aggregate, from which both reports are rendered.  A    *)
(* line that is not valid JSON, or too long, is counted and skipped: a log *)
(* is its valid lines here, next to the number of the others.              *)
(***************************************************************************)
EXTENDS Integers, Sequences, FiniteSets, Functions

\* How many lines have one of these types.
Lines(log, types) == Cardinality({i \in 1..Len(log) : log[i].event.type \in types})

\* countTLS
TlsLines(log, conf) ==
  Cardinality({i \in 1..Len(log) : log[i].event.type = "tls" /\ log[i].event.conf = conf})

\* Variation: tcp6 lines do not count as connections.
TCPConnsV4(log) == Lines(log, {"tcp"})

\* consumeLine: a line on an IPv6 connect or send counts twice, as a connection
\* or send, and as an IPv6 event.
TCPConns(log) == Lines(log, {"tcp", "tcp6"})
UDPSends(log) == Lines(log, {"udp", "udp6"})
IPv6Events(log) == Lines(log, {"tcp6", "udp6"})

\* countMeta: each meta line replaces what the one before it said.
LastMeta(log) ==
  LET metas == SelectSeq(log, LAMBDA line : line.event.type = "meta")
  IN  IF metas = << >> THEN [env |-> "", allowlist |-> 0]
      ELSE metas[Len(metas)].event

\* domains: the names of connections, sends and TLS hellos, in lower case.
Domains(log) ==
  {[line.event.name EXCEPT !.upper = FALSE] :
     line \in {x \in Range(log) : /\ x.event.type \in {"tcp", "udp", "tls"}
                                  /\ x.event.name.labels # << >>}}

\* DiffDomains
DiffDomains(current, baseline) ==
  [added |-> Domains(current) \ Domains(baseline),
   removed |-> Domains(baseline) \ Domains(current)]

\* RequiredTypes and MissingRequiredTypes
RequiredTypes(profile) ==
  IF profile = "enhanced"
    THEN {"meta", "exec", "tcp", "udp", "http", "tls", "proc_fork", "fs_event"}
    ELSE {"meta", "exec", "tcp"}

MissingRequiredTypes(log, profile) ==
  RequiredTypes(profile) \ {log[i].event.type : i \in DOMAIN log}

\* verdict, the headline of both reports.
Verdict(log) ==
  CASE Lines(log, {"bpf_tamper"}) > 0 -> "tamper"
    [] Lines(log, {"bpf_tamper"}) = 0 /\ Lines(log, {"deny"}) > 0 -> "blocked"
    [] Lines(log, {"bpf_tamper", "deny"}) = 0 /\ Lines(log, {"egress_backstop"}) > 0 ->
         "backstop"
    [] OTHER -> IF Len(log) = Lines(log, {"meta"}) THEN "captured nothing"
                ELSE "no anomalies"

\* Parse: the Aggregate of a file with these valid lines and so many others.
Aggregate(log, malformed) ==
  [tcp |-> TCPConns(log), udp |-> UDPSends(log), ipv6 |-> IPv6Events(log),
   http |-> Lines(log, {"http"}), exec |-> Lines(log, {"exec"}),
   fork |-> Lines(log, {"proc_fork"}), fs |-> Lines(log, {"fs_event"}),
   quic |-> Lines(log, {"quic_candidate"}), ktls |-> Lines(log, {"ktls_offload"}),
   backstop |-> Lines(log, {"egress_backstop"}),
   selfDefense |-> Lines(log, {"bpf_self_defense"}),
   full |-> TlsLines(log, "full"), partial |-> TlsLines(log, "partial"),
   unknown |-> TlsLines(log, "unknown"),
   domains |-> Domains(log), verdict |-> Verdict(log),
   env |-> LastMeta(log).env, allowlist |-> LastMeta(log).allowlist,
   parseErrors |-> malformed, total |-> Len(log)]

\* The remarks a report makes only when they apply.
Shown(remarks) == {r \in DOMAIN remarks : remarks[r]}

\* RenderSimple, for the job summary.
RenderSimple(a) ==
  Shown([dind |-> a.env = "dind", protection |-> a.selfDefense > 0 \/ a.backstop > 0])

\* RenderDetailed, for the report file.
RenderDetailed(a) ==
  Shown([dind |-> a.env = "dind", ipv6 |-> a.ipv6 > 0, quic |-> a.quic > 0,
         ktls |-> a.ktls > 0])
=============================================================================
