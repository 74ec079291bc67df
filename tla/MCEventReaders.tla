--------------------------- MODULE MCEventReaders ---------------------------
(***************************************************************************)
(* Scenarios for EventReaders: which rings are active, the records they    *)
(* may deliver and the lists in force.                                     *)
(***************************************************************************)
EXTENDS EventReaders

\* Names: two under a listed domain, one of them longer than any report prints.
Corp == Name(<<"example", "com">>)
Api == Name(<<"api", "example", "com">>)
Deep == Name(<<"x", "api", "example", "com">>)
Shouted == [Api EXCEPT !.upper = TRUE]
Dotted == [Corp EXCEPT !.dot = TRUE]
AtLimit == [Name(<<"long", "example", "com">>) EXCEPT !.size = "max"]
PastCut == [Name(<<"long", "example", "com">>) EXCEPT !.size = "over"]

V4(h) == [fam |-> "v4", host |-> h]
Mapped(h) == [fam |-> "mapped", host |-> h]
V6(h) == [fam |-> "v6", host |-> h]

Exact(name) == [wild |-> FALSE, name |-> name, valid |-> TRUE]
Wild(name) == [wild |-> TRUE, name |-> name, valid |-> TRUE]
Ip(h) == [form |-> "ip", fam |-> "v4", hosts |-> {h}]
Cidr(hs) == [form |-> "cidr", fam |-> "v4", hosts |-> hs]

MCDefaultIgnored == {{9}}

Chunk(part, name) == [part |-> part, name |-> name]
Tls(pid, dst, part, name) ==
  [Record("event") EXCEPT !.pid = pid, !.dst = dst, !.chunk = Chunk(part, name)]
Offload(pid, fd) == [Record("event") EXCEPT !.pid = pid, !.fd = fd]
To(dst) == [Record("event") EXCEPT !.dst = dst]
Short(kind) == [Record(kind) EXCEPT !.size = "short"]
Over(kind) == [Record(kind) EXCEPT !.length = "over"]

Base ==
  [samples |-> << >>, answers |-> {NoName}, hosts |-> {}, ips |-> {}, ignored |-> {},
   defaults |-> FALSE, logging |-> TRUE, env |-> "", allowlist |-> 0, reads |-> 2,
   maxClock |-> 0, faults |-> 0, canary |-> FALSE, stops |-> TRUE,
   retries |-> FALSE]

\* Offloads and hellos of two processes, with two sockets in one of them.
Offloading ==
  [Base EXCEPT
     !.samples = [ktls |-> {Offload(1, 1), Offload(1, 2), Offload(2, 1)},
                  tls |-> {Tls(1, V4(1), "whole", Api)}],
     !.logging = FALSE, !.reads = 4, !.maxClock = 3, !.stops = FALSE]

\* Split hellos of three streams, one of them on a dual-stack socket.
Splitting ==
  [Base EXCEPT
     !.samples = [tls |-> {Tls(1, V4(1), "head", NoName), Tls(1, Mapped(1), "body", Api),
                           Tls(2, V4(1), "head", NoName), Tls(2, V4(1), "body", Corp),
                           Tls(1, V4(2), "head", NoName)}],
     !.logging = FALSE, !.reads = 4, !.maxClock = 2, !.stops = FALSE]

\* Streams the reassembler cannot join, and buffers at their cap.
Fragments ==
  [Base EXCEPT
     !.samples = [tls |-> {Tls(1, V4(1), part, Api) :
                             part \in {"head", "body", "whole", "deep", "other", "empty"}}
                          \cup {Tls(1, V6(1), "head", NoName), Over("event")}],
     !.logging = FALSE, !.reads = 3, !.stops = FALSE]

\* Names and addresses against the lists.
Listing(hosts, ips, ignored, defaults) ==
  [Base EXCEPT
     !.samples = [tcp |-> {To(V4(h)) : h \in {1, 2, 9}},
                  tls |-> {Tls(1, dst, "whole", name) :
                             dst \in {Mapped(1), V4(3), V6(1)},
                             name \in {Shouted, Deep, Dotted, AtLimit, PastCut}},
                  http |-> {[To(V4(3)) EXCEPT !.chunk = Chunk("whole", Corp)],
                            Record("unparsed"), Over("event")}],
     !.answers = {NoName, Api, Corp},
     !.hosts = hosts, !.ips = ips, !.ignored = ignored, !.defaults = defaults, !.reads = 1]

Lists ==
  {Listing({}, {}, {}, TRUE),
   Listing({Exact(Api)}, {Ip(1)}, {Cidr({1, 2})}, TRUE),
   Listing({Exact([Corp EXCEPT !.upper = TRUE]), Wild(Corp)}, {}, {Cidr({2})}, FALSE),
   Listing({Wild(Corp), Wild(NoName)}, {Cidr({2, 9})}, {}, TRUE)}

\* Writers, failing appends and garbage in the file.
Writing ==
  [Base EXCEPT
     !.samples = [udp |-> {[To(V4(1)) EXCEPT !.quicPort = TRUE],
                           [To(V4(127)) EXCEPT !.quicPort = TRUE]},
                  exec |-> {Record("event")}],
     !.reads = 3, !.faults = 2, !.env = "dind", !.allowlist = 1]

ThreeWriters ==
  [Base EXCEPT
     !.samples = [udp |-> {[To(V4(1)) EXCEPT !.quicPort = TRUE], Short("event")},
                  exec |-> {Record("event"), Short("event")},
                  ipv6_obs |-> {Record("sendmsg"), Record("connect"), Short("event")}],
     !.reads = 3]

Unlogged == [Writing EXCEPT !.logging = FALSE, !.reads = 2, !.faults = 0]

\* The other rings, in threes.
Observing ==
  {[Base EXCEPT !.samples = rings] : rings \in
     {[fork |-> {Record("event"), Short("event")},
       dns |-> {Record("udp"), Record("tcp_short"), Record("headerless"), Short("event")},
       io_uring |-> {Record("event"), Short("event")}],
      [tcp |-> {Record("result"), Short("result"), Short("event")},
       tcp_state |-> {Record("established"), Record("close"), Record("other"), Short("event")},
       bpf_audit |-> {Record("event"), Short("event")}],
      [io_uring_tls |-> {Tls(1, V4(1), "whole", PastCut), Record("event"), Short("event")},
       egress_backstop |-> {Record("event"), Record("other_family"), Short("event")},
       bpf_self_defense |-> {Record("event"), Short("event")}]}}

Backstopped ==
  [Base EXCEPT !.samples = [egress_backstop |-> {Record("event")}], !.faults = 1]

FileCap ==
  [Base EXCEPT !.samples = [fs |-> {Record("event"), Short("event")}], !.reads = 3, !.faults = 3,
               !.retries = TRUE]

\* The canary, next to connects.
Watching ==
  [Base EXCEPT !.samples = [tcp |-> {To(V4(1))}], !.logging = FALSE, !.reads = 2,
               !.maxClock = 3, !.canary = TRUE]

MCScenarios ==
  Lists \cup Observing \cup {Offloading, Splitting, Fragments, Writing, ThreeWriters,
                              Unlogged, Backstopped, FileCap, Watching}

CanaryScenarios == {Watching}
ReportScenarios == {[Writing EXCEPT !.reads = 1, !.faults = 0]}
=============================================================================
