------------------------- MODULE EventReadersProofs -------------------------
(***************************************************************************)
(* All the ring readers together, for any scenario, policy and number of   *)
(* records.                                                                *)
(*                                                                         *)
(* They implement the event log its consumers rely on.  The lock is what   *)
(* matters: a reader that has drawn a number and not yet written its line  *)
(* holds jsonlMu (Locked), so at most one number is underway, and it is    *)
(* the last one.                                                           *)
(*                                                                         *)
(* What a line says is right: the override by the kTLS tracker (Marked,    *)
(* Heard), the name joined from two writes (Buffered, JoinedRight) and the *)
(* class given by the policy (Holding, Ruled).                             *)
(***************************************************************************)
EXTENDS EventReaders, TLAPS

Locations == {"read", "handle", "lock", "append", "exit"}

IsSeq(s) == \E S : s \in Seq(S)

Locked ==
  /\ seq \in Nat
  /\ IsSeq(log)
  /\ pc \in [Rings -> Locations]
  /\ mu \in Rings \cup {"free"}
  /\ \A r \in Rings : pc[r] = "append" => mu = r

\* The length of a sequence is a number.
LEMMA LenType ==
  ASSUME NEW s, IsSeq(s)
  PROVE  Len(s) \in Nat
BY DEF IsSeq

\* A line at the end of a sequence changes nothing before it.
LEMMA LineAdded ==
  ASSUME NEW s, IsSeq(s), NEW line
  PROVE  LET t == Append(s, line) IN
         /\ IsSeq(t)
         /\ Len(t) = Len(s) + 1
         /\ \A i \in 1..Len(s) : t[i] = s[i]
         /\ t[Len(s) + 1] = line
<1>1. PICK S : s \in Seq(S)
  BY DEF IsSeq
<1> DEFINE T == S \cup {line}
<1>2. s \in Seq(T) /\ line \in T
  BY <1>1
<1> HIDE DEF T
<1>3. /\ Append(s, line) \in Seq(T)
      /\ Len(Append(s, line)) = Len(s) + 1
      /\ \A i \in 1..Len(s) : Append(s, line)[i] = s[i]
      /\ Append(s, line)[Len(s) + 1] = line
  BY <1>2
<1> QED BY <1>3 DEF IsSeq

LEMMA LockedInit == Init => Locked
<1> SUFFICES ASSUME Init PROVE Locked
  OBVIOUS
<1>1. IsSeq(log)
  <2>1. CASE log = << >>
    BY <2>1 DEF IsSeq
  <2>2. CASE log = <<MetaLine(scenario.env, scenario.allowlist, << >>)>>
    <3> DEFINE line == MetaLine(scenario.env, scenario.allowlist, << >>)
    <3>1. log = <<line>>
      BY <2>2
    <3> HIDE DEF line
    <3>2. log \in Seq({line})
      BY <3>1
    <3> QED BY <3>2 DEF IsSeq
  <2> QED BY <2>1, <2>2 DEF Init
<1>2. pc \in [Rings -> Locations] /\ \A r \in Rings : pc[r] # "append"
  BY Zenon DEF Init, Locations
<1> QED BY <1>1, <1>2 DEF Init, Locked

\* The abstract log's view of the sequence: a number counts once its line is dealt with.
Drawn == IF mu = "free" THEN seq ELSE seq - 1

\* One step keeps the lock, and is a step of the abstract log or leaves it alone.
LEMMA LogStep ==
  Locked /\ [Next]_vars =>
    /\ Locked'
    /\ \/ Drawn' = Drawn + 1 /\ log' = log
       \/ Drawn' = Drawn + 1 /\ Log!Extend(Drawn + 1)
       \/ Drawn' = Drawn /\ Log!Extend(0)
       \/ Drawn' = Drawn /\ log' = log
<1>FreeIsNoRing. "free" \notin Rings
  BY DEF Rings
\* Readers move between other locations, and the lock and the file stay as they are.
<1>LockedKept. ASSUME Locked, UNCHANGED <<mu, seq, log>>, NEW r \in Rings, NEW loc \in Locations \ {"append"},
                      Goto(r, loc)
               PROVE  Locked'
  <2> USE <1>LockedKept
  <2>1. pc' \in [Rings -> Locations] /\ \A q \in Rings : pc'[q] = "append" => pc[q] = "append"
    BY Zenon DEF Locked, Goto, Locations
  <2> QED BY <2>1 DEF Locked, IsSeq
\* What FileTakes does to the log: nothing, or one more line.
<1>TakesOne. ASSUME Locked, NEW line, FileTakes(line)
             PROVE  /\ IsSeq(log')
                    /\ \/ log' = log
                       \/ /\ Len(log') = Len(log) + 1
                          /\ \A i \in 1..Len(log) : log'[i] = log[i]
                          /\ log'[Len(log) + 1] = line
  <2> USE <1>TakesOne
  <2>1. CASE torn
    BY <2>1 DEF FileTakes, Locked
  <2>2. CASE ~ torn
    <3>1. log' = Append(log, line)
      BY <2>2 DEF FileTakes
    <3> QED BY <3>1, LineAdded DEF Locked
  <2> QED BY <2>1, <2>2
\* After its line a reader has released the lock and goes on with the next one or with
\* the ring.
<1>LineDoneUnlocks. ASSUME Locked, NEW r \in Rings, pc[r] = "append", seq' = seq, IsSeq(log'), LineDone(r)
                    PROVE  mu = r /\ mu' = "free" /\ Locked'
  <2> USE <1>LineDoneUnlocks
  <2>1. mu = r /\ mu' = "free"
    BY Zenon DEF Locked, LineDone
  <2>2. PICK loc \in {"lock", "read"} : pc' = [pc EXCEPT ![r] = loc]
    BY Zenon DEF LineDone, Goto
  <2>3. pc' \in [Rings -> Locations]
    BY <2>2 DEF Locked, Locations
  <2>4. \A q \in Rings : pc'[q] # "append"
    BY <2>1, <2>2 DEF Locked
  <2> QED BY <2>1, <2>3, <2>4 DEF Locked
<1> SUFFICES ASSUME Locked, [Next]_vars
             PROVE  /\ Locked'
                    /\ \/ Drawn' = Drawn + 1 /\ log' = log
                       \/ Drawn' = Drawn + 1 /\ Log!Extend(Drawn + 1)
                       \/ Drawn' = Drawn /\ Log!Extend(0)
                       \/ Drawn' = Drawn /\ log' = log
  OBVIOUS
<1> USE DEF given, readerVars, fileVars, statVars, tlsVars
<1>1. ASSUME UNCHANGED <<mu, seq, log>> PROVE Drawn' = Drawn /\ log' = log
  BY <1>1 DEF Drawn
<1>2. ASSUME UNCHANGED <<mu, seq, log, pc>> PROVE Locked'
  BY <1>2 DEF Locked
<1>3. ASSUME NEW r \in Rings, Read(r) \/ ReadFails(r) \/ ReaderExits(r) \/ Handle(r)
      PROVE  Locked' /\ UNCHANGED <<mu, seq, log>>
  <2>1. CASE Read(r)
    <3>1. Goto(r, "handle") /\ UNCHANGED <<mu, seq, log>>
      BY <2>1 DEF Read
    <3> QED BY <3>1, <1>LockedKept DEF Locations
  <2>2. CASE ReadFails(r)
    BY <1>2, <2>2 DEF ReadFails
  <2>3. CASE ReaderExits(r)
    <3>1. Goto(r, "exit") /\ UNCHANGED <<mu, seq, log>>
      BY <2>3 DEF ReaderExits
    <3> QED BY <3>1, <1>LockedKept DEF Locations
  <2>4. CASE Handle(r)
    <3>1. UNCHANGED <<mu, seq, log>>
      BY <2>4 DEF Handle
    <3>2. \E o \in Outcomes(r, cur[r].sample, cur[r].stamp) :
            Goto(r, IF scenario.logging /\ o.lines # << >> THEN "lock" ELSE "read")
      BY <2>4, Zenon DEF Handle
    <3>3. Goto(r, "lock") \/ Goto(r, "read")
      BY Zenon, <3>2 DEF Goto
    <3> QED BY <3>1, <3>3, <1>LockedKept DEF Locations
  <2> QED BY <1>3, <2>1, <2>2, <2>3, <2>4
<1>4. ASSUME NEW r \in Rings, LockAndNumber(r)
      PROVE  Locked' /\ Drawn' = Drawn /\ log' = log
  <2>1. mu = "free" /\ mu' = r /\ seq' = seq + 1 /\ log' = log
        /\ pc' = [pc EXCEPT ![r] = "append"]
    BY <1>4 DEF LockAndNumber, Goto
  <2>2. \A q \in Rings : pc'[q] = "append" => q = r
    BY <2>1, <1>FreeIsNoRing DEF Locked
  <2>3. pc' \in [Rings -> Locations]
    BY <2>1 DEF Locked, Locations
  <2>4. Drawn' = Drawn
    BY <2>1, <1>FreeIsNoRing DEF Locked, Drawn
  <2>5. IsSeq(log') /\ seq' \in Nat /\ mu' \in Rings
    BY <2>1 DEF Locked
  <2>6. Locked'
    BY <2>1, <2>2, <2>3, <2>5 DEF Locked
  <2> QED BY <2>1, <2>4, <2>6
<1>5. ASSUME NEW r \in Rings, AppendLine(r)
      PROVE  Locked' /\ Drawn' = Drawn + 1 /\ (log' = log \/ Log!Extend(Drawn + 1))
  <2> DEFINE line == [seq |-> seq, event |-> Head(out[r])]
  <2>1. pc[r] = "append" /\ FileTakes(line) /\ LineDone(r) /\ seq' = seq
    BY <1>5 DEF AppendLine
  <2>2. line.seq = seq
    OBVIOUS
  <2> HIDE DEF line
  <2>3. IsSeq(log')
    BY <2>1, <1>TakesOne
  <2>4. mu = r /\ mu' = "free" /\ Locked'
    BY <2>1, <2>3, <1>LineDoneUnlocks
  <2>5. Drawn = seq - 1 /\ Drawn' = seq /\ Drawn + 1 = seq
    BY <2>1, <2>4, <1>FreeIsNoRing DEF Locked, Drawn
  <2>6. CASE log' = log
    BY <2>4, <2>5, <2>6
  <2>7. CASE log' # log
    <3>1. Log!Extend(Drawn + 1)
      BY <2>1, <2>2, <2>5, <2>7, <1>TakesOne DEF Log!Extend
    <3> QED BY <2>4, <2>5, <3>1
  <2> QED BY <2>6, <2>7
<1>6. ASSUME NEW r \in Rings, AppendFails(r)
      PROVE  Locked' /\ Drawn' = Drawn + 1 /\ log' = log
  <2>1. pc[r] = "append" /\ LineDone(r) /\ seq' = seq /\ log' = log
    BY <1>6 DEF AppendFails
  <2>2. IsSeq(log')
    BY <2>1 DEF Locked
  <2>3. mu = r /\ mu' = "free" /\ Locked'
    BY <2>1, <2>2, <1>LineDoneUnlocks
  <2> QED BY <2>1, <2>3, <1>FreeIsNoRing DEF Locked, Drawn
<1>7. CASE Tick \/ Scribble \/ CanaryTick \/ EchoCanary \/ Cancel \/ Join \/ UNCHANGED vars
  <2>1. UNCHANGED <<mu, seq, log, pc>>
    BY <1>7 DEF Tick, Scribble, CanaryTick, EchoCanary, Cancel, Join, vars
  <2> QED BY <1>1, <1>2, <2>1
<1>8. CASE WriteShutdownTelemetry
  <2> DEFINE line == MetaLine("", 0, log)
  <2>1. UNCHANGED <<mu, seq, pc>> /\ (FileTakes(line) \/ log' = log)
    BY Zenon, <1>8 DEF WriteShutdownTelemetry
  <2>2. line.seq = 0
    BY Zenon DEF MetaLine
  <2>3. Drawn' = Drawn
    BY Zenon, <2>1 DEF Drawn
  <2> HIDE DEF line
  <2>4. CASE log' = log
    BY <1>2, <2>1, <2>3, <2>4
  <2>5. CASE FileTakes(line)
    <3>1. IsSeq(log') /\ (log' = log \/ Log!Extend(0))
      BY <2>2, <2>5, <1>TakesOne DEF Log!Extend
    <3> QED BY <2>1, <2>3, <3>1 DEF Locked
  <2> QED BY <2>1, <2>4, <2>5
<1> QED BY <1>1, <1>3, <1>4, <1>5, <1>6, <1>7, <1>8 DEF Next

\* The sixteen readers implement the event log: whatever they interleave, the file
\* changes only by a line under the next number or by an unnumbered meta line, and a
\* number is missing only if its line was lost (a failed append, a torn file).
THEOREM ReadersImplementLog == Spec => LogSpec
<1>1. Init => Log!Init
  <2> SUFFICES ASSUME Init PROVE Log!Init
    OBVIOUS
  <2>1. (IF mu = "free" THEN seq ELSE seq - 1) = 0
    BY Zenon DEF Init
  <2>2. CASE log = << >>
    BY <2>1, <2>2 DEF Log!Init
  <2>3. CASE log = <<MetaLine(scenario.env, scenario.allowlist, << >>)>>
    <3> DEFINE line == MetaLine(scenario.env, scenario.allowlist, << >>)
    <3>1. log = <<line>>
      BY <2>3
    <3>2. line.seq = 0
      BY Zenon DEF MetaLine
    <3> HIDE DEF line
    <3>3. Len(log) = 1 /\ log[1] = line
      BY <3>1
    <3> QED BY <2>1, <3>2, <3>3 DEF Log!Init
  <2> QED BY <2>2, <2>3 DEF Init
<1>2. ASSUME Locked, [Next]_vars PROVE [Log!Next]_(Log!logVars)
  BY Zenon, <1>2, LogStep DEF Drawn, Log!Next, Log!Write, Log!Lose, Log!Remark, Log!logVars
<1> QED BY <1>1, <1>2, LockedInit, LogStep, PTL DEF Spec, LogSpec, Log!Spec

-----------------------------------------------------------------------------
(* What the readers make of a record.                                      *)

\* Every ring but two leaves the kTLS table and the reassembler alone; the ring of the
\* offloads marks a socket.
LEMMA OthersKeepTables ==
  ASSUME NEW r \in Rings \ {"tls"}, NEW s, NEW stamp, NEW o \in Outcomes(r, s, stamp)
  PROVE  /\ o.store = tlsStore
         /\ o.by = IF r = "ktls" /\ decodeFixedEvent(s)
                     THEN Mark(ktlsBy, clock, s.pid, s.fd, stamp) ELSE ktlsBy
<1>1. ASSUME NEW drop PROVE Discard(drop).by = ktlsBy /\ Discard(drop).store = tlsStore
  BY DEF Discard
<1>2. ASSUME NEW count, NEW class, NEW event
      PROVE  Emit(count, class, event).by = ktlsBy /\ Emit(count, class, event).store = tlsStore
  BY DEF Emit
<1>3. CASE r = "exec"
  BY <1>1, <1>2, <1>3 DEF Outcomes, readExecRing
<1>4. CASE r = "fork"
  BY <1>1, <1>2, <1>4 DEF Outcomes, readForkRing
<1>5. CASE r = "fs"
  <2> DEFINE capped == [Discard("fs_cap") EXCEPT !.count = {"fs_event"}]
  <2>1. capped.by = ktlsBy /\ capped.store = tlsStore
    BY DEF Discard
  <2>2. \/ o = Discard("fs_decode")
        \/ o = capped
        \/ o = Emit({}, "none", Event("fs_event"))
    BY <1>5 DEF Outcomes, readFSRing
  <2> HIDE DEF capped
  <2>3. o.by = ktlsBy /\ o.store = tlsStore
    BY Zenon, <1>1, <1>2, <2>1, <2>2
  <2> QED BY <1>5, <2>3
<1>6. CASE r = "tcp"
  BY <1>1, <1>2, <1>6 DEF Outcomes, readConnectRing, Silently
<1>7. CASE r = "udp"
  <2>1. PICK answer : o = readUDPRing(s, answer)
    BY <1>7 DEF Outcomes
  <2> DEFINE udp == Attributed("udp", s, answer)
             quic == [Emit({"quic_observed"}, udp.policy, udp) EXCEPT
                        !.lines = Append(@, Event("quic_candidate"))]
  <2>2. quic.by = ktlsBy /\ quic.store = tlsStore
    BY DEF Emit
  <2>3. \/ o = Discard("udp_decode")
        \/ o = quic
        \/ o = Emit({}, udp.policy, udp)
    BY <2>1, Zenon DEF readUDPRing
  <2> HIDE DEF udp, quic
  <2>4. o.by = ktlsBy /\ o.store = tlsStore
    BY <1>1, <1>2, <2>2, <2>3
  <2> QED BY <1>7, <2>4
<1>8. CASE r = "http"
  BY <1>1, <1>2, <1>8 DEF Outcomes, readHTTPRing
<1>9. CASE r = "dns"
  BY <1>1, <1>2, <1>9 DEF Outcomes, readDNSRing, Silently
<1>10. CASE r = "ktls"
  <2>1. ASSUME NEW count, NEW class, NEW event, NEW by
        PROVE  /\ [Emit(count, class, event) EXCEPT !.by = by].by = by
               /\ [Emit(count, class, event) EXCEPT !.by = by].store = tlsStore
    BY DEF Emit
  <2> DEFINE marked == Mark(ktlsBy, clock, s.pid, s.fd, stamp)
  <2>2. o = IF ~ decodeFixedEvent(s) THEN Discard("ktls_decode")
            ELSE [Emit({}, "none", Event("ktls_offload")) EXCEPT !.by = marked]
    BY <1>10 DEF Outcomes, readKTLSRing
  <2> HIDE DEF marked
  <2>3. o.store = tlsStore /\ o.by = IF decodeFixedEvent(s) THEN marked ELSE ktlsBy
    BY <1>1, <2>1, <2>2
  <2> QED BY <1>10, <2>3 DEF marked
<1>11. CASE r = "tcp_state"
  BY <1>1, <1>2, <1>11 DEF Outcomes, readTCPStateRing
<1>12. CASE r = "io_uring"
  BY <1>1, <1>2, <1>12 DEF Outcomes, readIoUringRing
<1>13. CASE r = "io_uring_tls"
  <2>1. ASSUME NEW event
        PROVE  /\ [Emit({}, "none", event) EXCEPT !.count = {}].by = ktlsBy
               /\ [Emit({}, "none", event) EXCEPT !.count = {}].store = tlsStore
    BY DEF Emit
  <2> QED BY Zenon, <1>1, <1>13, <2>1 DEF Outcomes, readIoUringTLSRing, Silently
<1>14. CASE r = "egress_backstop"
  BY <1>1, <1>2, <1>14 DEF Outcomes, readEgressBackstopRing, Silently
<1>15. CASE r = "bpf_self_defense"
  BY <1>1, <1>2, <1>15 DEF Outcomes, readBpfSelfDefenseRing, Silently
<1>16. CASE r = "bpf_audit"
  BY <1>1, <1>2, <1>16 DEF Outcomes, readBPFAuditRing
<1>17. CASE r = "ipv6_obs"
  BY <1>1, <1>2, <1>17 DEF Outcomes, readIPv6ObsRing
<1> QED
  BY ZenonT(40), <1>3, <1>4, <1>5, <1>6, <1>7, <1>8, <1>9, <1>10, <1>11, <1>12, <1>13, <1>14, <1>15,
     <1>16, <1>17 DEF Rings

\* A TLS line carries the tracker's answer, the name it was made from and how that was
\* found.
TlsFields(o, s, stamp, name, joined) ==
  /\ o.by = ktlsBy /\ o.store = tlsStore
  /\ o.lines # << >>
  /\ o.lines[1].ktls = IsKTLS(ktlsBy, clock, s.pid, 0, stamp)
  /\ o.lines[1].joined = joined
  /\ o.lines[1].sent = name

LEMMA TlsLineFields ==
  ASSUME NEW s, NEW stamp, NEW name, NEW joined
  PROVE  TlsFields(TlsLine(s, stamp, name, joined), s, stamp, name, joined)
<1> DEFINE ktls == IsKTLS(ktlsBy, clock, s.pid, 0, stamp)
           conf == IF ktls THEN "unknown" ELSE ScoreTLSConfidence(name)
           at == Attributed("tls", s, name)
           tls == [at EXCEPT !.conf = conf, !.ktls = ktls, !.joined = joined]
           extra == {conf} \cup (IF ktls THEN {"unknown_ktls"} ELSE {})
           o == TlsLine(s, stamp, name, joined)
<1>1. o = Emit(extra, tls.policy, tls)
  BY Zenon DEF TlsLine
<1>2. tls.ktls = ktls /\ tls.joined = joined /\ tls.sent = name
  <2> HIDE DEF ktls, conf
  <2> QED BY DEF Attributed, Event
<1> HIDE DEF tls, extra, o
<1>3. o.by = ktlsBy /\ o.store = tlsStore /\ o.lines = <<tls>>
  BY <1>1 DEF Emit
<1>4. <<tls>> # << >> /\ <<tls>>[1] = tls
  OBVIOUS
<1>5. TlsFields(o, s, stamp, name, joined)
  BY Zenon, <1>2, <1>3, <1>4 DEF ktls, TlsFields
<1> QED BY <1>5 DEF o

\* What becomes of a TLS record that was handed to the reassembler.
Reassembled(s, stamp, a) ==
  [(IF a.parsed THEN TlsLine(s, stamp, a.name, a.joined) ELSE Discard("tls_sni_parse"))
     EXCEPT !.store = a.store]

\* The ways a TLS record can go.
LEMMA TlsOutcome ==
  ASSUME NEW s, NEW stamp, NEW o \in Outcomes("tls", s, stamp)
  PROVE  \/ ~ decodeSniffEvent(s) /\ o = Discard("tls_decode")
         \/ decodeSniffEvent(s) /\ Parses(<<s.chunk>>) /\ o = TlsLine(s, stamp, s.chunk.name, FALSE)
         \/ /\ decodeSniffEvent(s) /\ ~ Parses(<<s.chunk>>) /\ ~ HasKey(s.dst)
            /\ o = Discard("tls_sni_parse")
         \/ /\ decodeSniffEvent(s) /\ ~ Parses(<<s.chunk>>) /\ HasKey(s.dst)
            /\ \E a \in AppendAndParse(tlsStore, clock, ReasmKey(s.pid, s.dst), s.chunk) :
                 o = Reassembled(s, stamp, a)
<1>1. o \in readTLSRing(s, stamp)
  BY DEF Outcomes
<1> QED BY Zenon, <1>1 DEF readTLSRing, Reassembled

\* Whatever way it goes, the kTLS table stays, and a line has the tracker's answer.
LEMMA TlsAsksTracker ==
  ASSUME NEW s, NEW stamp, NEW o \in Outcomes("tls", s, stamp)
  PROVE  /\ o.by = ktlsBy
         /\ o.lines # << >> => o.lines[1].ktls = IsKTLS(ktlsBy, clock, s.pid, 0, stamp)
<1>1. ASSUME NEW drop, NEW store
      PROVE  /\ Discard(drop).by = ktlsBy /\ Discard(drop).lines = << >>
             /\ [Discard(drop) EXCEPT !.store = store].by = ktlsBy
             /\ [Discard(drop) EXCEPT !.store = store].lines = << >>
  BY DEF Discard
<1>2. ASSUME NEW name, NEW joined, NEW store
      PROVE  LET t == TlsLine(s, stamp, name, joined) IN
             [t EXCEPT !.store = store].by = t.by /\ [t EXCEPT !.store = store].lines = t.lines
  BY DEF TlsLine, Emit
<1>3. CASE \E drop : o = Discard(drop)
  BY <1>1, <1>3
<1>4. CASE \E name, joined : o = TlsLine(s, stamp, name, joined)
  <2>1. PICK name, joined : o = TlsLine(s, stamp, name, joined)
    BY Zenon, <1>4
  <2>2. TlsFields(TlsLine(s, stamp, name, joined), s, stamp, name, joined)
    BY Zenon, TlsLineFields
  <2> QED BY Zenon, <2>1, <2>2 DEF TlsFields
<1>5. CASE \E drop, store : o = [Discard(drop) EXCEPT !.store = store]
  BY <1>1, <1>5
<1>6. CASE \E name, joined, store : o = [TlsLine(s, stamp, name, joined) EXCEPT !.store = store]
  <2>1. PICK name, joined, store : o = [TlsLine(s, stamp, name, joined) EXCEPT !.store = store]
    BY Zenon, <1>6
  <2>2. PICK t : t = TlsLine(s, stamp, name, joined)
    BY Zenon
  <2>3. o.by = t.by /\ o.lines = t.lines
    BY <1>2, <2>1, <2>2
  <2>4. TlsFields(TlsLine(s, stamp, name, joined), s, stamp, name, joined)
    BY Zenon, TlsLineFields
  <2> QED BY Zenon, <2>2, <2>3, <2>4 DEF TlsFields
<1>7. ASSUME NEW a, o = Reassembled(s, stamp, a)
      PROVE  \/ \E drop, store : o = [Discard(drop) EXCEPT !.store = store]
             \/ \E name, joined, store :
                  o = [TlsLine(s, stamp, name, joined) EXCEPT !.store = store]
  <2>1. CASE a.parsed
    <3>1. o = [TlsLine(s, stamp, a.name, a.joined) EXCEPT !.store = a.store]
      BY <1>7, <2>1 DEF Reassembled
    <3> QED BY Zenon, <3>1
  <2>2. CASE ~ a.parsed
    <3>1. o = [Discard("tls_sni_parse") EXCEPT !.store = a.store]
      BY <1>7, <2>2 DEF Reassembled
    <3> QED BY Zenon, <3>1
  <2> QED BY <2>1, <2>2
<1> QED BY Zenon, <1>3, <1>4, <1>5, <1>6, <1>7, TlsOutcome

-----------------------------------------------------------------------------
(* The kTLS tracker.                                                       *)

\* Clocks and stamps are numbers.
Timed ==
  /\ clock \in Nat
  /\ cur = [r \in Rings |-> cur[r]]
  /\ \A r \in Rings : cur[r].stamp \in Nat

\* Mark i is the last one of its socket.
LastMark(i) ==
  \A k \in 1..Len(marks) : (marks[k].pid = marks[i].pid /\ marks[k].fd = marks[i].fd) => k <= i

\* The table holds the last mark of every socket, unless that has expired.
Marked ==
  /\ IsSeq(marks)
  /\ \A i \in 1..Len(marks) : marks[i].at \in Nat /\ marks[i].markedAt \in Nat
  /\ \A e \in ktlsBy : \E i \in 1..Len(marks) : e = marks[i] /\ LastMark(i)
  /\ \A i \in 1..Len(marks) : (LastMark(i) /\ KtlsLive(marks[i], clock)) => marks[i] \in ktlsBy

\* What KtlsExact says of one hello.
HelloExact(h) ==
  h.lines # << >> =>
    (h.lines[1].ktls <=>
       \E i \in 1..Len(marks) :
         /\ i <= h.marks /\ marks[i].pid = h.pid /\ Fresh(marks[i], h)
         /\ \A k \in 1..Len(marks) :
              (k <= h.marks /\ marks[k].pid = h.pid /\ marks[k].fd = marks[i].fd) => k <= i)

Heard ==
  /\ IsSeq(hellos)
  /\ \A j \in 1..Len(hellos) :
       /\ hellos[j].marks \in Nat /\ hellos[j].marks <= Len(marks)
       /\ HelloExact(hellos[j])

\* A step handles a record, or leaves the TLS state alone while the clock may go on.
LEMMA HandlesOrNot ==
  ASSUME [Next]_vars
  PROVE  \/ \E r \in Rings : Handle(r)
         \/ UNCHANGED tlsVars
<1> USE DEF tlsVars
<1>1. ASSUME NEW r \in Rings, Read(r) \/ ReadFails(r) \/ ReaderExits(r) \/ LockAndNumber(r)
                              \/ AppendLine(r) \/ AppendFails(r)
      PROVE  UNCHANGED tlsVars
  BY Zenon, <1>1 DEF Read, ReadFails, ReaderExits, LockAndNumber, AppendLine, AppendFails
<1>2. CASE Tick \/ Scribble \/ CanaryTick \/ EchoCanary \/ Cancel \/ Join
           \/ WriteShutdownTelemetry \/ UNCHANGED vars
  BY Zenon, <1>2 DEF Tick, Scribble, CanaryTick, EchoCanary, Cancel, Join,
       WriteShutdownTelemetry, vars
<1> QED BY Zenon, <1>1, <1>2 DEF Next

LEMMA TimedInit == Init => Timed
<1> SUFFICES ASSUME Init PROVE Timed
  OBVIOUS
<1>1. clock = 0 /\ cur = [r \in Rings |-> Nothing] /\ Nothing.stamp = 0
  BY Zenon DEF Init, Nothing
<1> QED BY <1>1 DEF Timed

LEMMA TimedStep ==
  ASSUME Timed, [Next]_vars
  PROVE  Timed' /\ clock' \in {clock, clock + 1}
<1> USE DEF given, readerVars
<1>1. ASSUME NEW r \in Rings, Read(r)
      PROVE  Timed' /\ clock' = clock
  <2>1. clock' = clock /\ \E s : cur' = [cur EXCEPT ![r] = [sample |-> s, stamp |-> clock]]
    BY Zenon, <1>1 DEF Read
  <2> QED BY <2>1 DEF Timed
<1>2. ASSUME NEW r \in Rings, Handle(r)
      PROVE  Timed' /\ clock' = clock
  <2>1. clock' = clock /\ cur' = [cur EXCEPT ![r] = Nothing] /\ Nothing.stamp = 0
    BY Zenon, <1>2 DEF Handle, Nothing
  <2> HIDE DEF Nothing
  <2> QED BY <2>1 DEF Timed
<1>3. CASE Tick
  <2>1. clock' = clock + 1 /\ cur' = cur
    BY Zenon, <1>3 DEF Tick
  <2> QED BY <2>1 DEF Timed
<1>4. CASE UNCHANGED <<clock, cur>>
  BY <1>4 DEF Timed
<1>5. ASSUME NEW r \in Rings, ReadFails(r) \/ ReaderExits(r) \/ LockAndNumber(r)
                              \/ AppendLine(r) \/ AppendFails(r)
      PROVE  UNCHANGED <<clock, cur>>
  BY Zenon, <1>5 DEF ReadFails, ReaderExits, LockAndNumber, AppendLine, AppendFails
<1>6. CASE Scribble \/ CanaryTick \/ EchoCanary \/ Cancel \/ Join
           \/ WriteShutdownTelemetry \/ UNCHANGED vars
  <2>1. UNCHANGED <<clock, cur>>
    BY Zenon, <1>6 DEF Scribble, CanaryTick, EchoCanary, Cancel, Join, WriteShutdownTelemetry, vars
  <2> QED BY <1>4, <2>1
<1> QED BY <1>1, <1>2, <1>3, <1>4, <1>5, <1>6 DEF Next

\* What handling a record does to the TLS state.
LEMMA HandleTls ==
  ASSUME NEW r \in Rings, Handle(r)
  PROVE  /\ clock' = clock
         /\ \E o \in Outcomes(r, cur[r].sample, cur[r].stamp) :
              ktlsBy' = o.by /\ tlsStore' = o.store /\ Remember(r, cur[r].sample, cur[r].stamp, o)
BY Zenon DEF Handle

LEMMA MarkedStep ==
  Timed /\ Marked /\ [Next]_vars =>
    Marked'
\* A new mark takes the place of the one of its socket; only expired ones go as well.
<1>MarkAdds. ASSUME Timed, Marked, clock' = clock, NEW pid, NEW fd, NEW stamp \in Nat,
                    ktlsBy' = Mark(ktlsBy, clock, pid, fd, stamp),
                    marks' = Append(marks, [pid |-> pid, fd |-> fd, markedAt |-> stamp, at |-> clock])
             PROVE  Marked'
  <2> USE <1>MarkAdds
  <2> DEFINE m == [pid |-> pid, fd |-> fd, markedAt |-> stamp, at |-> clock]
  <2>0. PICK l \in Nat : l = Len(marks)
    BY DEF Marked, IsSeq
  <2>1. m.pid = pid /\ m.fd = fd /\ m.markedAt = stamp /\ m.at = clock
    OBVIOUS
  <2>2. ktlsBy' = {e \in ktlsBy : KtlsLive(e, clock) /\ ~ (e.pid = pid /\ e.fd = fd)} \cup {m}
    BY DEF Mark
  <2>3. marks' = Append(marks, m)
    BY Zenon
  <2> HIDE DEF m
  <2>4. IsSeq(marks)' /\ Len(marks') = l + 1
        /\ (\A i \in 1..l : marks'[i] = marks[i]) /\ marks'[l + 1] = m
    BY <2>0, <2>3, LineAdded DEF Marked
  <2>5. \A i \in 1..l : LastMark(i)' <=> LastMark(i) /\ ~ (marks[i].pid = pid /\ marks[i].fd = fd)
    BY SMTT(20), <2>0, <2>1, <2>4 DEF LastMark
  <2>6. LastMark(l + 1)'
    BY <2>4 DEF LastMark
  <2>7. \A i \in 1..Len(marks') : marks'[i].at \in Nat /\ marks'[i].markedAt \in Nat
    BY <2>0, <2>1, <2>4 DEF Marked, Timed
  <2>8. ASSUME NEW e \in ktlsBy'
        PROVE  \E i \in 1..Len(marks') : e = marks'[i] /\ LastMark(i)'
    <3>1. CASE e = m
      BY <2>4, <2>6, <3>1
    <3>2. CASE e # m
      <4>1. e \in ktlsBy /\ ~ (e.pid = pid /\ e.fd = fd)
        BY <2>2, <3>2
      <4>2. PICK i \in 1..l : e = marks[i] /\ LastMark(i)
        BY <2>0, <4>1 DEF Marked
      <4> QED BY <2>4, <2>5, <4>1, <4>2
    <3> QED BY <3>1, <3>2
  <2>9. ASSUME NEW i \in 1..Len(marks'), LastMark(i)', KtlsLive(marks'[i], clock')
        PROVE  marks'[i] \in ktlsBy'
    <3>1. CASE i = l + 1
      BY <2>2, <2>4, <3>1
    <3>2. CASE i # l + 1
      <4>1. i \in 1..l /\ marks'[i] = marks[i]
        BY <2>4, <3>2
      <4>2. LastMark(i) /\ ~ (marks[i].pid = pid /\ marks[i].fd = fd) /\ KtlsLive(marks[i], clock)
        BY ZenonT(40), <2>5, <2>9, <4>1
      <4>3. marks[i] \in ktlsBy
        BY <2>0, <4>1, <4>2 DEF Marked
      <4> QED BY <2>2, <4>1, <4>2, <4>3
    <3> QED BY <3>1, <3>2
  <2> QED BY <2>4, <2>7, <2>8, <2>9 DEF Marked
<1> SUFFICES ASSUME Timed, Marked, [Next]_vars
             PROVE  Marked'
  OBVIOUS
<1>1. CASE UNCHANGED tlsVars
  <2>1. UNCHANGED <<marks, ktlsBy>> /\ clock' \in Nat /\ clock' >= clock
    BY <1>1, TimedStep DEF tlsVars, Timed
  <2>2. \A i \in 1..Len(marks) : KtlsLive(marks[i], clock') => KtlsLive(marks[i], clock)
    BY <2>1, KtlsTTLAssumption DEF Marked, Timed, KtlsLive
  <2> QED BY Zenon, <2>1, <2>2 DEF Marked, LastMark
<1>2. ASSUME NEW r \in Rings, Handle(r)
      PROVE  Marked'
  <2> DEFINE s == cur[r].sample
             stamp == cur[r].stamp
  <2>1. stamp \in Nat
    BY DEF Timed
  <2> HIDE DEF s, stamp
  <2>2. PICK o \in Outcomes(r, s, stamp) :
          clock' = clock /\ ktlsBy' = o.by /\ Remember(r, s, stamp, o)
    BY Zenon, <1>2, HandleTls DEF s, stamp
  <2>3. CASE r = "ktls" /\ decodeFixedEvent(s)
    <3>1. ktlsBy' = Mark(ktlsBy, clock, s.pid, s.fd, stamp)
      BY <2>2, <2>3, OthersKeepTables
    <3>2. marks' = Append(marks, [pid |-> s.pid, fd |-> s.fd, markedAt |-> stamp, at |-> clock])
      BY Zenon, <2>2, <2>3 DEF Remember
    <3> QED BY <2>1, <2>2, <3>1, <3>2, <1>MarkAdds
  <2>4. CASE ~ (r = "ktls" /\ decodeFixedEvent(s))
    <3>1. ktlsBy' = ktlsBy
      BY <2>2, <2>4, OthersKeepTables, TlsAsksTracker
    <3>2. marks' = marks
      BY <2>2, <2>4 DEF Remember
    <3> QED BY ZenonT(40), <2>2, <3>1, <3>2 DEF Marked, LastMark
  <2> QED BY <2>3, <2>4
<1> QED BY Zenon, <1>1, <1>2, HandlesOrNot

LEMMA HeardStep ==
  Timed /\ Marked /\ Heard /\ [Next]_vars =>
    Heard'
\* The tracker's answer, in terms of the marks made so far.
<1>AnswerExact. ASSUME Timed, Marked, NEW h, h.marks = Len(marks), h.at = clock, h.stamp \in Nat,
                       h.lines # << >> => h.lines[1].ktls = IsKTLS(ktlsBy, clock, h.pid, 0, h.stamp)
                PROVE  HelloExact(h)
  <2> USE <1>AnswerExact
  <2> SUFFICES ASSUME h.lines # << >>
               PROVE  IsKTLS(ktlsBy, clock, h.pid, 0, h.stamp) <=>
                        \E i \in 1..Len(marks) :
                          /\ i <= h.marks /\ marks[i].pid = h.pid /\ Fresh(marks[i], h)
                          /\ \A k \in 1..Len(marks) :
                               (k <= h.marks /\ marks[k].pid = h.pid /\ marks[k].fd = marks[i].fd)
                               => k <= i
    BY Zenon DEF HelloExact
  <2>1. Len(marks) \in Nat
    BY DEF Marked, IsSeq
  <2>2. \A i \in 1..Len(marks) :
          /\ Fresh(marks[i], h) <=> KtlsLive(marks[i], clock) /\ h.stamp >= marks[i].markedAt
          /\ i <= h.marks
    BY <2>1, KtlsTTLAssumption DEF Marked, Timed, Fresh, KtlsLive
  <2>3. ASSUME NEW i \in 1..Len(marks), marks[i].pid = h.pid
        PROVE  LastMark(i) <=>
                 \A k \in 1..Len(marks) :
                   (k <= h.marks /\ marks[k].pid = h.pid /\ marks[k].fd = marks[i].fd) => k <= i
    BY Zenon, <2>2, <2>3 DEF LastMark
  <2>4. ASSUME IsKTLS(ktlsBy, clock, h.pid, 0, h.stamp)
        PROVE  \E i \in 1..Len(marks) : /\ marks[i].pid = h.pid /\ Fresh(marks[i], h)
                                        /\ LastMark(i)
    BY ZenonT(40), <2>2, <2>4 DEF IsKTLS, Marked
  <2>5. ASSUME NEW i \in 1..Len(marks), marks[i].pid = h.pid, Fresh(marks[i], h), LastMark(i)
        PROVE  IsKTLS(ktlsBy, clock, h.pid, 0, h.stamp)
    BY Zenon, <2>2, <2>5 DEF IsKTLS, Marked
  <2> QED BY Zenon, <2>2, <2>3, <2>4, <2>5
\* Later marks do not change what a hello was told.
<1>ExactStays. ASSUME NEW h, HelloExact(h), h.marks \in Nat, h.marks <= Len(marks),
                      \/ marks' = marks
                      \/ IsSeq(marks) /\ \E m : marks' = Append(marks, m)
               PROVE  HelloExact(h)' /\ h.marks <= Len(marks')
  <2> USE <1>ExactStays
  <2>1. CASE marks' = marks
    BY <2>1 DEF HelloExact
  <2>2. ASSUME NEW m, IsSeq(marks), marks' = Append(marks, m)
        PROVE  HelloExact(h)' /\ h.marks <= Len(marks')
    <3>1. PICK l \in Nat : l = Len(marks)
      BY <2>2 DEF IsSeq
    <3>2. Len(marks') = l + 1 /\ \A i \in 1..l : marks'[i] = marks[i]
      BY <2>2, <3>1, LineAdded
    <3>3. \A i \in 1..(l + 1) : i <= h.marks => i \in 1..l /\ marks'[i] = marks[i]
      BY <3>1, <3>2
    <3>4. \A i \in 1..l : i \in 1..(l + 1) /\ i \in 1..Len(marks)
      BY <3>1
    <3>5. HelloExact(h)'
      BY Zenon, <3>1, <3>2, <3>3, <3>4 DEF HelloExact, Fresh
    <3> QED BY <3>1, <3>2, <3>5
  <2> QED BY <2>1, <2>2
<1> SUFFICES ASSUME Timed, Marked, Heard, [Next]_vars
             PROVE  Heard'
  OBVIOUS
<1>1. ASSUME hellos' = hellos, marks' = marks \/ \E m : marks' = Append(marks, m)
      PROVE  Heard'
  BY Zenon, <1>1, <1>ExactStays DEF Heard, Marked
<1>2. CASE UNCHANGED tlsVars
  BY Zenon, <1>1, <1>2 DEF tlsVars
<1>3. ASSUME NEW r \in Rings, Handle(r)
      PROVE  Heard'
  <2> DEFINE s == cur[r].sample
             stamp == cur[r].stamp
  <2>1. stamp \in Nat
    BY DEF Timed
  <2> HIDE DEF s, stamp
  <2>2. PICK o \in Outcomes(r, s, stamp) : Remember(r, s, stamp, o)
    BY Zenon, <1>3, HandleTls DEF s, stamp
  <2>3. CASE ~ (r = "tls" /\ decodeSniffEvent(s))
    BY Zenon, <1>1, <2>2, <2>3 DEF Remember
  <2>4. CASE r = "tls" /\ decodeSniffEvent(s)
    <3> DEFINE h == [pid |-> s.pid, dst |-> s.dst, chunk |-> s.chunk, at |-> clock,
                     stamp |-> stamp, marks |-> Len(marks), lines |-> o.lines]
    <3>1. marks' = marks /\ hellos' = Append(hellos, h)
      BY <2>2, <2>4 DEF Remember
    <3>2. /\ h.pid = s.pid /\ h.at = clock /\ h.stamp = stamp /\ h.marks = Len(marks)
          /\ h.lines = o.lines
      OBVIOUS
    <3> HIDE DEF h
    <3>3. h.lines # << >> => h.lines[1].ktls = IsKTLS(ktlsBy, clock, h.pid, 0, h.stamp)
      <4>1. o \in Outcomes("tls", s, stamp)
        BY <2>2, <2>4
      <4> QED BY <3>2, <4>1, TlsAsksTracker
    <3>4. HelloExact(h)
      BY Zenon, <2>1, <3>2, <3>3, <1>AnswerExact
    <3>5. Len(marks) \in Nat
      BY DEF Marked, IsSeq
    <3>6. IsSeq(hellos') /\ Len(hellos') = Len(hellos) + 1 /\ hellos'[Len(hellos) + 1] = h
          /\ \A j \in 1..Len(hellos) : hellos'[j] = hellos[j]
      BY <3>1, LineAdded DEF Heard
    <3>7. \A x : HelloExact(x) => HelloExact(x)'
      BY Zenon, <3>1 DEF HelloExact
    <3>8. ASSUME NEW j \in 1..Len(hellos')
          PROVE  /\ hellos'[j].marks \in Nat /\ hellos'[j].marks <= Len(marks)
                 /\ HelloExact(hellos'[j])
      BY <3>2, <3>4, <3>5, <3>6 DEF Heard
    <3> QED BY Zenon, <3>1, <3>6, <3>7, <3>8 DEF Heard
  <2> QED BY <2>3, <2>4
<1> QED BY <1>2, <1>3, HandlesOrNot

\* KtlsExact, in the terms of HelloExact.
LEMMA HeardIsExact ==
  ASSUME Heard
  PROVE  KtlsExact
<1> SUFFICES ASSUME NEW j \in 1..Len(hellos), HelloExact(hellos[j])
             PROVE  LET h == hellos[j]
                        latest == {i \in MarksBefore(h) :
                          \A k \in MarksBefore(h) : marks[k].fd = marks[i].fd => k <= i}
                    IN  h.lines # << >> =>
                          (h.lines[1].ktls <=> \E i \in latest : Fresh(marks[i], h))
  BY Zenon DEF Heard, KtlsExact
<1> QED BY Zenon DEF HelloExact, MarksBefore

\* The tracker is exact, for any interleaving of the two rings and any clock: the
\* confidence of a TLS line is overridden if and only if the process had an offload that
\* was observed before the hello arrived and has not expired.
THEOREM TrackerExact == Spec => []KtlsExact
<1>1. Init => Timed /\ Marked /\ Heard
  <2> SUFFICES ASSUME Init PROVE Timed /\ Marked /\ Heard
    OBVIOUS
  <2>1. marks = << >> /\ hellos = << >> /\ ktlsBy = {}
    BY Zenon DEF Init
  <2> QED BY <2>1, TimedInit DEF Marked, Heard, IsSeq
<1>2. Timed /\ Marked /\ Heard /\ [Next]_vars => (Timed /\ Marked /\ Heard)'
  BY Zenon, TimedStep, MarkedStep, HeardStep
<1>3. Timed /\ Marked /\ Heard => KtlsExact
  BY Zenon, HeardIsExact
<1> QED BY <1>1, <1>2, <1>3, PTL DEF Spec

-----------------------------------------------------------------------------
(* The reassembler.                                                        *)

\* A buffer that is kept: it has something, and no server name yet.
Kept(buf) == IsSeq(buf) /\ Len(buf) >= 1 /\ ~ Parses(buf)

\* What feeding a chunk to the store does, for a chunk without a server name of its own.
\* A name is found only in a buffer of two chunks, the second of which is this one.
FedOnly(store, now, k, chunk, a) ==
  /\ a.parsed => /\ chunk.part = "body" /\ a.name = chunk.name
                 /\ \E e \in store : /\ e.key = k /\ e.updatedAt >= now - ReasmTTL
                                     /\ e.buf[1].part = "head"
  /\ \A x \in a.store :
       \/ x \in store
       \/ /\ x.key = k /\ x.updatedAt = now /\ Kept(x.buf)
          /\ \/ x.buf[1] = chunk
             \/ \E e \in store : /\ e.key = k /\ e.updatedAt >= now - ReasmTTL
                                 /\ x.buf[1] = e.buf[1]

LEMMA Reassembly ==
  ASSUME NEW store, NEW now, NEW k, NEW chunk, \A e \in store : Kept(e.buf), ~ Parses(<<chunk>>),
         NEW a \in AppendAndParse(store, now, k, chunk)
  PROVE  FedOnly(store, now, k, chunk, a)
<1> DEFINE live == Unexpired(store, now)
           had == {e \in live : e.key = k}
           old == IF had = {} THEN << >> ELSE (CHOOSE e \in had : TRUE).buf
           buf == IF Len(old) < BufCap THEN Append(old, chunk) ELSE old
           kept == IF ~ IsHandshake(buf) \/ Parses(buf) THEN {}
                   ELSE {[key |-> k, buf |-> buf, updatedAt |-> now]}
<1>1. CASE chunk.part = "empty"
  BY <1>1 DEF AppendAndParse, FedOnly
<1>2. CASE chunk.part # "empty"
  <2>1. PICK base \in IF had = {} THEN MakeRoom(live) ELSE {live} :
          a = [store |-> (base \ had) \cup kept,
               parsed |-> Parses(buf),
               name |-> IF Parses(buf) THEN ServerName(buf) ELSE chunk.name,
               joined |-> Parses(buf) /\ had # {}]
    BY Zenon, <1>2 DEF AppendAndParse
  <2> HIDE DEF live, had, old, buf, kept
  <2>2. /\ a.store = (base \ had) \cup kept
        /\ a.parsed <=> Parses(buf)
        /\ Parses(buf) => a.name = ServerName(buf)
    BY <2>1
  <2>3. base \subseteq store
    <3>1. live \subseteq store
      BY DEF live, Unexpired
    <3> QED BY Zenon, <2>1, <3>1 DEF MakeRoom, EvictOldest
  <2>4. CASE had = {}
    <3>1. buf = <<chunk>>
      <4>1. old = << >>
        BY <2>4 DEF old
      <4> QED BY <4>1, ReasmAssumption DEF buf
    <3>2. IsSeq(buf) /\ Len(buf) = 1 /\ buf[1] = chunk /\ ~ Parses(buf)
      <4>1. <<chunk>> \in Seq({chunk}) /\ Len(<<chunk>>) = 1 /\ <<chunk>>[1] = chunk
        OBVIOUS
      <4> QED BY Zenon, <3>1, <4>1 DEF IsSeq
    <3>3. \A x \in kept : x.key = k /\ x.updatedAt = now /\ x.buf = buf
      BY SMTT(20) DEF kept
    <3>4. Kept(buf)
      BY <3>2 DEF Kept
    <3> QED BY Zenon, <2>2, <2>3, <3>2, <3>3, <3>4 DEF FedOnly
  <2>5. CASE had # {}
    <3>1. PICK e \in had : old = e.buf
      BY Zenon, <2>5 DEF old
    <3>2. e \in store /\ e.key = k /\ e.updatedAt >= now - ReasmTTL
      BY DEF had, live, Unexpired
    <3>3. IsSeq(old) /\ Len(old) >= 1 /\ Len(old) \in Nat /\ ~ Parses(old)
      <4>1. IsSeq(old) /\ Len(old) >= 1 /\ ~ Parses(old)
        BY Zenon, <3>1, <3>2 DEF Kept
      <4> QED BY Zenon, <4>1, LenType
    <3>4. \/ buf = old
          \/ /\ IsSeq(buf) /\ Len(buf) = Len(old) + 1
             /\ buf[Len(old) + 1] = chunk
             /\ \A i \in 1..Len(old) : buf[i] = old[i]
      BY <3>3, LineAdded DEF buf
    <3>5. IsSeq(buf) /\ Len(buf) >= 1 /\ buf[1] = old[1]
      BY SMTT(20), <3>3, <3>4
    <3>6. ASSUME Parses(buf)
          PROVE  chunk.part = "body" /\ ServerName(buf) = chunk.name /\ old[1].part = "head"
      <4>1. Len(buf) = Len(old) + 1 /\ buf[Len(old) + 1] = chunk
        BY <3>3, <3>4, <3>6
      <4>2. old # << >> /\ old[1].part # "whole"
        BY SMTT(20), <3>3 DEF Parses
      <4>3. Len(buf) > 1 /\ buf[1].part = "head" /\ buf[2].part = "body"
        BY <3>5, <3>6, <4>2 DEF Parses
      <4>4. Len(old) = 1
        <5>1. ASSUME Len(old) > 1 PROVE FALSE
          <6>1. 2 \in 1..Len(old)
            BY <3>3, <5>1
          <6>2. buf[2] = old[2]
            BY Zenon, <3>4, <6>1
          <6> QED BY Zenon, <3>3, <3>5, <4>2, <4>3, <5>1, <6>2 DEF Parses
        <5>2. ASSUME NEW l \in Nat, l >= 1, ~ (l > 1) PROVE l = 1
          BY SMTT(20), <5>2
        <5> QED BY Zenon, <3>3, <5>1, <5>2
      <4> QED BY <3>5, <4>1, <4>3, <4>4 DEF ServerName
    <3>7. \A x \in kept : x.key = k /\ x.updatedAt = now /\ x.buf = buf /\ ~ Parses(buf)
      BY SMTT(20) DEF kept
    <3>8. ~ Parses(buf) => Kept(buf)
      BY <3>5 DEF Kept
    <3> QED BY Zenon, <2>2, <2>3, <3>1, <3>2, <3>5, <3>6, <3>7, <3>8 DEF FedOnly
  <2> QED BY Zenon, <2>4, <2>5
<1> QED BY Zenon, <1>1, <1>2

\* Entry e began with hello i and was last fed by hello m.
FedBy(e, i, m) ==
  /\ i <= m
  /\ hellos[i].pid = e.key.pid /\ hellos[i].dst.host = e.key.dst
  /\ hellos[m].pid = e.key.pid /\ hellos[m].dst.host = e.key.dst
  /\ e.buf[1] = hellos[i].chunk
  /\ e.updatedAt = hellos[m].at
  /\ hellos[m].at - hellos[i].at <= ReasmTTL * (m - i)

\* Every entry comes from hellos of one stream, no two of which are too far apart.
Buffered ==
  /\ IsSeq(hellos)
  /\ \A j \in 1..Len(hellos) : hellos[j].at \in Nat /\ hellos[j].at <= clock
  /\ \A e \in tlsStore : Kept(e.buf) /\ \E i, m \in 1..Len(hellos) : FedBy(e, i, m)

\* Hello h continues g of the same stream, this many hellos later, and is named by its
\* own body.
Continues(g, h, steps) ==
  /\ SameStream(g, h) /\ g.chunk.part = "head" /\ h.at - g.at <= ReasmTTL * steps
  /\ h.chunk.part = "body" /\ h.lines[1].sent = h.chunk.name

\* What JoinedFromOneStream says of hello j, with the hello itself as the second write.
JoinedRight(j) ==
  (hellos[j].lines # << >> /\ hellos[j].lines[1].joined) =>
    \E i \in 1..(j - 1) : Continues(hellos[i], hellos[j], j - i)

\* The entry of the stream of record s, while it lives.
LiveEntry(e, s) ==
  e \in tlsStore /\ e.key = ReasmKey(s.pid, s.dst) /\ e.updatedAt >= clock - ReasmTTL

\* What record s leaves in the store for its stream.
NewEntry(x, s) ==
  /\ x.key = ReasmKey(s.pid, s.dst) /\ x.updatedAt = clock /\ Kept(x.buf)
  /\ x.buf[1] = s.chunk \/ \E e : LiveEntry(e, s) /\ x.buf[1] = e.buf[1]

\* A TLS line names what its own record brought; a joined one completes the entry of the
\* stream.
LEMMA TlsFeeds ==
  ASSUME Buffered, NEW s, NEW stamp, NEW o \in Outcomes("tls", s, stamp)
  PROVE  /\ \A x \in o.store : x \in tlsStore \/ (decodeSniffEvent(s) /\ NewEntry(x, s))
         /\ o.lines # << >> => o.lines[1].sent = s.chunk.name
         /\ (o.lines # << >> /\ o.lines[1].joined) =>
              s.chunk.part = "body" /\ \E e : LiveEntry(e, s) /\ e.buf[1].part = "head"
<1>1. ASSUME NEW drop
      PROVE  Discard(drop).store = tlsStore /\ Discard(drop).lines = << >>
  BY DEF Discard
<1>2. CASE \E drop : o = Discard(drop)
  BY Zenon, <1>1, <1>2
<1>3. CASE o = TlsLine(s, stamp, s.chunk.name, FALSE)
  <2>1. PICK no : no = FALSE
    BY Zenon
  <2>2. o = TlsLine(s, stamp, s.chunk.name, no)
    BY Zenon, <1>3, <2>1
  <2>3. o.store = tlsStore /\ o.lines[1].sent = s.chunk.name /\ o.lines[1].joined = no
    <3>1. TlsFields(TlsLine(s, stamp, s.chunk.name, no), s, stamp, s.chunk.name, no)
      BY Zenon, TlsLineFields
    <3> QED BY Zenon, <2>2, <3>1 DEF TlsFields
  <2> QED BY Zenon, <2>1, <2>3
<1>4. ASSUME decodeSniffEvent(s), ~ Parses(<<s.chunk>>),
             NEW a \in AppendAndParse(tlsStore, clock, ReasmKey(s.pid, s.dst), s.chunk),
             o = Reassembled(s, stamp, a)
      PROVE  /\ \A x \in o.store : x \in tlsStore \/ (decodeSniffEvent(s) /\ NewEntry(x, s))
             /\ o.lines # << >> => o.lines[1].sent = s.chunk.name
             /\ (o.lines # << >> /\ o.lines[1].joined) =>
                  s.chunk.part = "body" /\ \E e : LiveEntry(e, s) /\ e.buf[1].part = "head"
  <2>1. \A e \in tlsStore : Kept(e.buf)
    BY Zenon DEF Buffered
  <2>2. /\ a.parsed => /\ s.chunk.part = "body" /\ a.name = s.chunk.name
                       /\ \E e : LiveEntry(e, s) /\ e.buf[1].part = "head"
        /\ \A x \in a.store : x \in tlsStore \/ NewEntry(x, s)
    <3>1. FedOnly(tlsStore, clock, ReasmKey(s.pid, s.dst), s.chunk, a)
      BY Zenon, <1>4, <2>1, Reassembly
    <3> QED BY Zenon, <3>1 DEF FedOnly, LiveEntry, NewEntry
  <2>3. o.store = a.store
        /\ o.lines = IF a.parsed THEN TlsLine(s, stamp, a.name, a.joined).lines ELSE << >>
    BY <1>4 DEF Reassembled, TlsLine, Emit, Discard
  <2>4. o.lines # << >> => a.parsed
    BY Zenon, <2>3
  <2>5. a.parsed => o.lines[1].sent = a.name
    <3>1. TlsFields(TlsLine(s, stamp, a.name, a.joined), s, stamp, a.name, a.joined)
      BY Zenon, TlsLineFields
    <3> QED BY Zenon, <2>3, <3>1 DEF TlsFields
  <2> QED BY Zenon, <1>4, <2>2, <2>3, <2>4, <2>5
<1> QED BY Zenon, <1>2, <1>3, <1>4, TlsOutcome

\* What the history says of the last hello.
LEMMA HelloAdded ==
  ASSUME IsSeq(hellos), NEW h, hellos' = Append(hellos, h), NEW l \in Nat, l = Len(hellos)
  PROVE  /\ IsSeq(hellos') /\ Len(hellos') = l + 1
         /\ hellos'[l + 1] = h
         /\ \A j \in 1..l : hellos'[j] = hellos[j]
BY LineAdded

\* The hello that record s leaves.
Hello(s, stamp, o) ==
  [pid |-> s.pid, dst |-> s.dst, chunk |-> s.chunk, at |-> clock,
   stamp |-> stamp, marks |-> Len(marks), lines |-> o.lines]

LEMMA BufferedStep ==
  Timed /\ Buffered /\ (\A j \in 1..Len(hellos) : JoinedRight(j)) /\ [Next]_vars =>
    Buffered' /\ \A j \in 1..Len(hellos') : JoinedRight(j)'
\* One more hello allows for one more time to live.
<1>Products. ASSUME NEW t \in Nat, NEW i \in Nat, NEW m \in Nat, NEW j \in Nat, i <= m, m < j
             PROVE  /\ t * (m - i) \in Nat
                    /\ t + t * (m - i) <= t * (j - i)
  <2> USE <1>Products
  <2> DEFINE c == j - m - 1
             d == m - i
  <2>1. c \in Nat /\ d \in Nat /\ j - i = d + 1 + c
    OBVIOUS
  <2> HIDE DEF c, d
  <2>2. t * (d + 1 + c) = t * d + t + t * c
    BY <2>1
  <2>3. t * d \in Nat /\ t * c \in Nat
    BY <2>1
  <2> QED BY <2>1, <2>2, <2>3 DEF d
\* Hellos that were handled stay as they are.
<1>FedStays. ASSUME NEW e, NEW i \in 1..Len(hellos), NEW m \in 1..Len(hellos), FedBy(e, i, m),
                    \A j \in 1..Len(hellos) : hellos'[j] = hellos[j]
             PROVE  FedBy(e, i, m)'
  <2> USE <1>FedStays
  <2>1. hellos'[i] = hellos[i] /\ hellos'[m] = hellos[m]
    OBVIOUS
  <2> QED BY Zenon, <2>1 DEF FedBy
\* The entry after one more hello of its stream.
<1>FedAgain. ASSUME Buffered, Timed, NEW e, NEW i \in 1..Len(hellos), NEW m \in 1..Len(hellos), FedBy(e, i, m),
                    e.updatedAt >= clock - ReasmTTL,
                    NEW j \in Nat, j = Len(hellos) + 1
             PROVE  clock - hellos[i].at <= ReasmTTL * (j - i)
  <2> USE <1>FedAgain
  <2>1. Len(hellos) \in Nat
    BY Zenon, LenType DEF Buffered
  <2>2. i \in Nat /\ m \in Nat /\ i <= m /\ m < j
    BY <2>1 DEF FedBy
  <2>3. ReasmTTL * (m - i) \in Nat /\ ReasmTTL + ReasmTTL * (m - i) <= ReasmTTL * (j - i)
    BY Zenon, <2>2, ReasmAssumption, <1>Products
  <2>4. hellos[m].at \in Int /\ hellos[i].at \in Int /\ clock \in Int /\ ReasmTTL \in Int
        /\ hellos[m].at >= clock - ReasmTTL
    <3>1. e.updatedAt = hellos[m].at
      BY Zenon DEF FedBy
    <3> QED BY SMTT(20), <3>1, ReasmAssumption DEF Buffered, Timed
  <2> DEFINE p == ReasmTTL * (m - i)
             q == ReasmTTL * (j - i)
  <2>5. p \in Int /\ q \in Int /\ ReasmTTL + p <= q /\ hellos[m].at - hellos[i].at <= p
    <3>1. q \in Int
      BY <2>2, <2>4
    <3> QED BY <2>3, <3>1 DEF FedBy
  <2> HIDE DEF p, q
  <2>6. clock - hellos[i].at <= q
    <3>1. ASSUME NEW now \in Int, NEW a \in Int, NEW b \in Int, NEW t \in Int, NEW x \in Int,
                 NEW y \in Int, a >= now - t, a - b <= x, t + x <= y
          PROVE  now - b <= y
      BY <3>1
    <3> QED BY Zenon, <2>4, <2>5, <3>1
  <2> QED BY Zenon, <2>6 DEF q
\* A TLS record that can be decoded is the next hello; no other record is one, or touches
\* the reassembler.
<1>HandleHello. ASSUME NEW r \in Rings, Handle(r)
                PROVE  LET s == cur[r].sample stamp == cur[r].stamp IN
                       \/ UNCHANGED <<hellos, tlsStore>>
                       \/ /\ r = "tls" /\ decodeSniffEvent(s)
                          /\ \E o \in Outcomes("tls", s, stamp) :
                               tlsStore' = o.store /\ hellos' = Append(hellos, Hello(s, stamp, o))
  <2> USE <1>HandleHello
  <2> DEFINE s == cur[r].sample
             stamp == cur[r].stamp
  <2>1. PICK o \in Outcomes(r, s, stamp) : tlsStore' = o.store /\ Remember(r, s, stamp, o)
    BY Zenon, HandleTls
  <2> HIDE DEF s, stamp
  <2>2. CASE r # "tls"
    BY Zenon, <2>1, <2>2, OthersKeepTables DEF Remember
  <2>3. CASE r = "tls" /\ decodeSniffEvent(s)
    BY Zenon, <2>1, <2>3 DEF Remember, Hello, s, stamp
  <2>4. CASE r = "tls" /\ ~ decodeSniffEvent(s)
    <3>1. o = Discard("tls_decode")
      BY Zenon, <2>1, <2>4, TlsOutcome
    <3>2. o.store = tlsStore
      BY <3>1 DEF Discard
    <3> QED BY <2>1, <2>4, <3>2 DEF Remember
  <2> QED BY <2>2, <2>3, <2>4
\* One TLS record: where the entries come from, and that its line joins what it should.
<1>HelloFeeds. ASSUME Timed, Buffered, clock' = clock, NEW s, NEW stamp, NEW o \in Outcomes("tls", s, stamp),
                      tlsStore' = o.store, hellos' = Append(hellos, Hello(s, stamp, o)),
                      NEW l \in Nat, l = Len(hellos)
               PROVE  Buffered' /\ JoinedRight(l + 1)'
  <2> USE <1>HelloFeeds
  <2> DEFINE h == Hello(s, stamp, o)
  <2>1. /\ h.pid = s.pid /\ h.dst = s.dst /\ h.chunk = s.chunk /\ h.at = clock
        /\ h.lines = o.lines
    BY Zenon DEF Hello
  <2> HIDE DEF h
  <2>2. /\ IsSeq(hellos') /\ Len(hellos') = l + 1
        /\ hellos'[l + 1] = h
        /\ \A j \in 1..l : hellos'[j] = hellos[j]
    BY HelloAdded DEF Buffered, h
  <2>3. /\ \A x \in tlsStore' : x \in tlsStore \/ NewEntry(x, s)
        /\ o.lines # << >> => o.lines[1].sent = s.chunk.name
        /\ (o.lines # << >> /\ o.lines[1].joined) =>
             s.chunk.part = "body" /\ \E e : LiveEntry(e, s) /\ e.buf[1].part = "head"
    BY Zenon, TlsFeeds
  <2>4. /\ \A j \in 1..l : j \in 1..(l + 1) /\ j \in 1..((l + 1) - 1) /\ j <= l + 1
        /\ l + 1 \in 1..(l + 1) /\ l + 1 <= l + 1 /\ l + 1 \in Nat
    BY SMTT(20)
  <2>5. \A j \in 1..Len(hellos') : hellos'[j].at \in Nat /\ hellos'[j].at <= clock'
    BY <2>1, <2>2 DEF Timed, Buffered
  <2>6. ASSUME NEW e, LiveEntry(e, s)
        PROVE  \E i \in 1..l : /\ hellos[i].pid = s.pid /\ hellos[i].dst.host = s.dst.host
                               /\ e.buf[1] = hellos[i].chunk
                               /\ clock - hellos[i].at <= ReasmTTL * ((l + 1) - i)
    <3>1. e \in tlsStore /\ e.updatedAt >= clock - ReasmTTL
          /\ e.key.pid = s.pid /\ e.key.dst = s.dst.host
      BY <2>6 DEF LiveEntry, ReasmKey
    <3>2. PICK i \in 1..l, m \in 1..l : FedBy(e, i, m)
      BY Zenon, <3>1 DEF Buffered
    <3>3. clock - hellos[i].at <= ReasmTTL * ((l + 1) - i)
      BY <2>4, <3>1, <3>2, <1>FedAgain
    <3> QED BY Zenon, <3>1, <3>2, <3>3 DEF FedBy
  <2>7. ASSUME NEW x, NewEntry(x, s)
        PROVE  \E i \in 1..(l + 1) : FedBy(x, i, l + 1)'
    <3>1. x.key.pid = s.pid /\ x.key.dst = s.dst.host /\ x.updatedAt = clock
      BY <2>7 DEF NewEntry, ReasmKey
    <3>2. CASE x.buf[1] = s.chunk
      <4>1. clock - clock <= ReasmTTL * ((l + 1) - (l + 1))
        BY ReasmAssumption DEF Timed
      <4>2. FedBy(x, l + 1, l + 1)'
        BY Zenon, <2>1, <2>2, <2>4, <3>1, <3>2, <4>1 DEF FedBy
      <4> QED BY <2>4, <4>2
    <3>3. ASSUME NEW e, LiveEntry(e, s), x.buf[1] = e.buf[1]
          PROVE  \E i \in 1..(l + 1) : FedBy(x, i, l + 1)'
      <4>1. PICK i \in 1..l : /\ hellos[i].pid = s.pid /\ hellos[i].dst.host = s.dst.host
                              /\ e.buf[1] = hellos[i].chunk
                              /\ clock - hellos[i].at <= ReasmTTL * ((l + 1) - i)
        BY Zenon, <2>6, <3>3
      <4>2. FedBy(x, i, l + 1)'
        BY Zenon, <2>1, <2>2, <2>4, <3>1, <3>3, <4>1 DEF FedBy
      <4> QED BY Zenon, <2>4, <4>2
    <3> QED BY Zenon, <2>7, <3>2, <3>3 DEF NewEntry
  <2>8. ASSUME NEW x \in tlsStore'
        PROVE  Kept(x.buf) /\ \E i, m \in 1..(l + 1) : FedBy(x, i, m)'
    <3>1. CASE x \in tlsStore
      <4>1. PICK i \in 1..l, m \in 1..l : FedBy(x, i, m)
        BY Zenon, <3>1 DEF Buffered
      <4>2. FedBy(x, i, m)'
        BY Zenon, <2>2, <4>1, <1>FedStays
      <4> QED BY Zenon, <2>4, <3>1, <4>2 DEF Buffered
    <3>2. CASE NewEntry(x, s)
      BY Zenon, <2>4, <2>7, <3>2 DEF NewEntry
    <3> QED BY Zenon, <2>3, <3>1, <3>2
  <2>9. Buffered'
    BY Zenon, <2>2, <2>5, <2>8 DEF Buffered
  <2>10. JoinedRight(l + 1)'
    <3> SUFFICES ASSUME o.lines # << >>, o.lines[1].joined
                 PROVE  \E i \in 1..((l + 1) - 1) : Continues(hellos'[i], h, (l + 1) - i)
      BY Zenon, <2>1, <2>2 DEF JoinedRight
    <3>1. PICK e : LiveEntry(e, s) /\ e.buf[1].part = "head"
      BY Zenon, <2>3
    <3>2. PICK i \in 1..l : /\ hellos[i].pid = s.pid /\ hellos[i].dst.host = s.dst.host
                            /\ e.buf[1] = hellos[i].chunk
                            /\ clock - hellos[i].at <= ReasmTTL * ((l + 1) - i)
      BY Zenon, <2>6, <3>1
    <3>3. hellos'[i] = hellos[i] /\ i \in 1..((l + 1) - 1)
      BY Zenon, <2>2, <2>4
    <3>4. SameStream(hellos'[i], h) /\ h.lines[1].sent = h.chunk.name /\ h.chunk.part = "body"
      BY Zenon, <2>1, <2>3, <3>2, <3>3 DEF SameStream
    <3> QED BY Zenon, <2>1, <3>1, <3>2, <3>3, <3>4 DEF Continues
  <2> QED BY Zenon, <2>9, <2>10
<1> SUFFICES ASSUME Timed, Buffered, \A j \in 1..Len(hellos) : JoinedRight(j), [Next]_vars
             PROVE  Buffered' /\ \A j \in 1..Len(hellos') : JoinedRight(j)'
  OBVIOUS
<1>1. ASSUME UNCHANGED <<hellos, tlsStore>>
      PROVE  Buffered' /\ \A j \in 1..Len(hellos') : JoinedRight(j)'
  <2>1. clock \in Nat /\ clock' \in {clock, clock + 1}
    BY TimedStep DEF Timed
  <2>2. \A j \in 1..Len(hellos) : hellos[j].at <= clock'
    BY <2>1 DEF Buffered
  <2>3. Buffered'
    BY Zenon, <1>1, <2>2 DEF Buffered, FedBy
  <2>4. \A j \in 1..Len(hellos') : JoinedRight(j)'
    BY Zenon, <1>1 DEF JoinedRight
  <2> QED BY <2>3, <2>4
<1>2. ASSUME NEW r \in Rings, Handle(r), ~ UNCHANGED <<hellos, tlsStore>>
      PROVE  Buffered' /\ \A j \in 1..Len(hellos') : JoinedRight(j)'
  <2>1. PICK l \in Nat : l = Len(hellos)
    BY DEF Buffered, IsSeq
  <2>2. PICK s, stamp : \E o \in Outcomes("tls", s, stamp) :
          tlsStore' = o.store /\ hellos' = Append(hellos, Hello(s, stamp, o))
    BY Zenon, <1>2, <1>HandleHello
  <2>3. PICK o \in Outcomes("tls", s, stamp) :
          tlsStore' = o.store /\ hellos' = Append(hellos, Hello(s, stamp, o))
    BY <2>2
  <2>4. clock' = clock
    BY Zenon, <1>2, HandleTls
  <2>5. Buffered' /\ JoinedRight(l + 1)'
    BY Zenon, <2>1, <2>3, <2>4, <1>HelloFeeds
  <2>6. Len(hellos') = l + 1 /\ \A j \in 1..l : hellos'[j] = hellos[j]
    BY Zenon, <2>1, <2>3, HelloAdded DEF Buffered
  <2>7. \A j \in 1..l : \A i \in 1..(j - 1) : i \in 1..l
    BY <2>1
  <2>8. ASSUME NEW j \in 1..l PROVE JoinedRight(j)'
    <3>1. hellos'[j] = hellos[j] /\ \A i \in 1..(j - 1) : hellos'[i] = hellos[i]
      BY Zenon, <2>6, <2>7
    <3>2. JoinedRight(j)
      BY Zenon, <2>1
    <3> QED BY Zenon, <3>1, <3>2 DEF JoinedRight
  <2>9. \A j \in 1..(l + 1) : j \in 1..l \/ j = l + 1
    BY <2>1
  <2> QED BY Zenon, <2>5, <2>6, <2>8, <2>9
<1> QED BY Zenon, <1>1, <1>2, HandlesOrNot DEF tlsVars

\* A joined name comes from two writes of one process to one destination, in order and
\* in time, whatever the other streams do and whichever entries are evicted.
THEOREM JoinsOneStream == Spec => []JoinedFromOneStream
<1> DEFINE Inv == Timed /\ Buffered /\ \A j \in 1..Len(hellos) : JoinedRight(j)
<1>1. Init => Inv
  <2> SUFFICES ASSUME Init PROVE Inv
    OBVIOUS
  <2>1. hellos = << >> /\ tlsStore = {}
    BY Zenon DEF Init
  <2> QED BY <2>1, TimedInit DEF Buffered, IsSeq
<1>2. Inv /\ [Next]_vars => Inv'
  BY Zenon, TimedStep, BufferedStep
<1>3. Inv => JoinedFromOneStream
  <2> SUFFICES ASSUME Inv, NEW j \in 1..Len(hellos),
                      hellos[j].lines # << >> /\ hellos[j].lines[1].joined
               PROVE  \E i \in 1..(j - 1) :
                        /\ SameStream(hellos[i], hellos[j])
                        /\ hellos[i].chunk.part = "head"
                        /\ hellos[j].at - hellos[i].at <= ReasmTTL * (j - i)
                        /\ \E k \in (i + 1)..j : /\ SameStream(hellos[k], hellos[j])
                                                 /\ hellos[k].chunk.part = "body"
                                                 /\ hellos[j].lines[1].sent = hellos[k].chunk.name
    BY Zenon DEF JoinedFromOneStream
  <2>1. PICK i \in 1..(j - 1) : Continues(hellos[i], hellos[j], j - i)
    BY Zenon DEF JoinedRight
  <2>2. j \in (i + 1)..j /\ SameStream(hellos[j], hellos[j])
    BY DEF SameStream
  <2> QED BY Zenon, <2>1, <2>2 DEF Continues
<1> HIDE DEF Inv
<1> QED BY <1>1, <1>2, <1>3, PTL DEF Spec

-----------------------------------------------------------------------------
(* The outcomes of a record.                                               *)

\* A line that was classified.
Judged(e) == e.name = Sanitize(e.sent) /\ e.policy = Classify(pol, e.name, e.dst)

\* Types of lines that are neither classified nor one of two special cases.
PlainTypes == Types \ {"tcp", "udp", "http", "tls", "io_uring_tls", "quic_candidate"}

\* A record that cannot be read, or is left out on purpose, or comes after the cap.
Dropping(o) ==
  o.lines = << >> /\ o.class = "none" /\ o.count = {} /\ o.drop \in ReaderDrops \ {"fs_cap"}

Leaving(o) == o.lines = << >> /\ o.class = "none" /\ o.count = {} /\ o.drop = "none"

Capping(o) == o.lines = << >> /\ o.class = "none" /\ o.count = {"fs_event"} /\ o.drop = "fs_cap"

\* One line, counted under its type and perhaps elsewhere.
Noting(o, e, extra, class) ==
  o.lines = <<e>> /\ o.class = class /\ o.count = extra \cup {CounterOf(e.type)} /\ o.drop = "none"

\* The lines and counts of a record of ring r.
Shape(r, s, o) ==
  \/ Dropping(o)
  \/ Leaving(o) /\ r \in QuietRings
  \/ Capping(o)
  \/ \E type \in PlainTypes, extra \in {{}, {"confirmed"}, {"refused"}} :
       Noting(o, Event(type), extra, "none") /\ (extra = {} \/ type = "tcp_state")
  \/ \E e : /\ e.type \in {"tcp", "udp", "http"} /\ Judged(e)
            /\ e.sent \in scenario.answers \cup {s.chunk.name}
            /\ Noting(o, e, {}, e.policy)
  \/ \E e : /\ r = "udp" /\ e.type = "udp" /\ Judged(e) /\ e.sent \in scenario.answers
            /\ o.lines = <<e, Event("quic_candidate")>> /\ o.class = e.policy
            /\ o.count = {"quic_observed", "udp"} /\ o.drop = "none"
  \/ \E e, extra : /\ e.type = "tls" /\ Judged(e) /\ e.conf \in {"full", "partial", "unknown"}
                   /\ \/ extra = {e.conf}
                      \/ e.conf = "unknown" /\ extra = {"unknown", "unknown_ktls"}
                   /\ r = "tls" /\ Noting(o, e, extra, e.policy)
  \/ \E e : /\ e.type = "io_uring_tls" /\ o.lines = <<e>> /\ o.class = "none" /\ o.count = {}
            /\ o.drop = "none"

\* A line of this type that credits the answer, with its class.
Credited(e, type, answer) == e.type = type /\ e.sent = answer /\ Judged(e)

LEMMA AttributedFields ==
  ASSUME NEW type, NEW s, NEW answer
  PROVE  Credited(Attributed(type, s, answer), type, answer)
<1> DEFINE e == Attributed(type, s, answer)
            p == Classify(pol, Sanitize(answer), s.dst)
           f == Sanitize(answer)
<1>1. e = [Event(type) EXCEPT !.pid = s.pid, !.dst = s.dst, !.name = f, !.sent = answer,
                              !.policy = p]
  BY Zenon DEF Attributed
<1>2. ASSUME NEW x, NEW y
      PROVE  LET z == [Event(type) EXCEPT !.pid = s.pid, !.dst = s.dst, !.name = x, !.sent = answer,
                                          !.policy = y]
             IN  z.type = type /\ z.sent = answer /\ z.policy = y /\ z.name = x /\ z.dst = s.dst
  BY DEF Event
<1>3. e.type = type /\ e.sent = answer /\ e.policy = p /\ e.name = f /\ e.dst = s.dst
  <2> HIDE DEF e, p, f
  <2> QED BY SMTT(20), <1>1, <1>2
<1> QED BY Zenon, <1>3 DEF Judged, Credited

LEMMA OutcomeFields ==
  /\ \A drop : LET o == Discard(drop) IN
       o.lines = << >> /\ o.class = "none" /\ o.count = {} /\ o.drop = drop
  /\ \A count, class, event : Noting(Emit(count, class, event), event, count, class)
BY DEF Discard, Emit, Noting

LEMMA EventType == \A type : Event(type).type = type
BY DEF Event

LEMMA TypeList ==
  Types = {"exec", "proc_fork", "fs_event", "tcp", "tcp_result", "tls", "udp", "quic_candidate",
           "http", "ktls_offload", "tcp_state", "io_uring_send", "io_uring_tls",
           "egress_backstop", "bpf_self_defense", "bpf_audit", "tcp6", "udp6"}
BY Zenon DEF Types, JsonlDrop

LEMMA PlainTypeList ==
  PlainTypes = {"exec", "proc_fork", "fs_event", "tcp_result", "ktls_offload", "tcp_state",
                "io_uring_send", "egress_backstop", "bpf_self_defense", "bpf_audit", "tcp6",
                "udp6"}
BY TypeList DEF PlainTypes

LEMMA AppendedPair ==
  ASSUME NEW a, NEW b
  PROVE  Append(<<a>>, b) = <<a, b>>
<1> DEFINE s == Append(<<a>>, b)
           t == <<a, b>>
           S == {a, b}
<1>1. s \in Seq(S) /\ t \in Seq(S) /\ Len(s) = 2 /\ Len(t) = 2 /\ \A i \in 1..2 : s[i] = t[i]
  OBVIOUS
<1> HIDE DEF s, t, S
<1>2. \A u, v \in Seq(S) : (Len(u) = Len(v) /\ \A i \in 1..Len(u) : u[i] = v[i]) => u = v
  OBVIOUS
<1>3. s = t
  BY <1>1, <1>2
<1> QED BY <1>3 DEF s, t

\* Sequences of one and of two lines.
LEMMA OneOrTwo ==
  ASSUME NEW a, NEW b
  PROVE  /\ Head(<<a>>) = a /\ Tail(<<a>>) = << >> /\ Len(<<a>>) = 1
         /\ \A i \in DOMAIN <<a>> : <<a>>[i] = a
         /\ Head(<<a, b>>) = a /\ Tail(<<a, b>>) = <<b>> /\ Len(<<a, b>>) = 2 /\ <<a, b>>[2] = b
         /\ \A i \in DOMAIN <<a, b>> : <<a, b>>[i] = a \/ <<a, b>>[i] = b
         /\ 2 > 1 /\ ~ (1 > 1)
OBVIOUS

\* An outcome that is a drop or a plain line.
LEMMA PlainShape ==
  ASSUME NEW r, NEW s, NEW o, NEW type \in PlainTypes, NEW drop \in ReaderDrops \ {"fs_cap"},
         o = Discard(drop) \/ o = Emit({}, "none", Event(type))
  PROVE  Shape(r, s, o)
<1>1. CASE o = Discard(drop)
  BY Zenon, <1>1, OutcomeFields DEF Shape, Dropping
<1>2. CASE o = Emit({}, "none", Event(type))
  <2>1. Noting(o, Event(type), {}, "none")
    BY Zenon, <1>2, OutcomeFields
  <2> QED BY Zenon, <2>1 DEF Shape
<1> QED BY <1>1, <1>2

\* What each reader makes of a record.
LEMMA OutcomeShape ==
  ASSUME NEW r \in Rings, NEW s, NEW stamp, NEW o \in Outcomes(r, s, stamp)
  PROVE  Shape(r, s, o)
<1>1. ASSUME NEW drop \in ReaderDrops \ {"fs_cap"}, o = Discard(drop) PROVE Shape(r, s, o)
  BY Zenon, <1>1, OutcomeFields DEF Shape, Dropping
<1>2. ASSUME r \in QuietRings, o = Silently PROVE Shape(r, s, o)
  BY Zenon, <1>2, OutcomeFields DEF Shape, Leaving, Silently
<1>3. ASSUME NEW type \in {"tcp", "udp", "http"}, NEW answer \in scenario.answers \cup {s.chunk.name},
             o = Emit({}, Attributed(type, s, answer).policy, Attributed(type, s, answer))
      PROVE  Shape(r, s, o)
  <2> DEFINE e == Attributed(type, s, answer)
  <2>1. Credited(e, type, answer)
    BY Zenon, AttributedFields
  <2>2. Noting(o, e, {}, e.policy)
    BY Zenon, <1>3, OutcomeFields
  <2> HIDE DEF e
  <2> QED BY Zenon, <2>1, <2>2 DEF Credited, Shape
<1>4. CASE r = "exec"
  BY <1>4, PlainShape, PlainTypeList DEF Outcomes, readExecRing, ReaderDrops
<1>5. CASE r = "fork"
  BY SMTT(20), <1>5, PlainShape, PlainTypeList DEF Outcomes, readForkRing, ReaderDrops
<1>6. CASE r = "fs"
  <2> DEFINE capped == [Discard("fs_cap") EXCEPT !.count = {"fs_event"}]
  <2>1. Capping(capped)
    BY DEF Discard, Capping
  <2>2. \/ o = Discard("fs_decode")
        \/ o = capped
        \/ o = Emit({}, "none", Event("fs_event"))
    BY <1>6 DEF Outcomes, readFSRing
  <2> HIDE DEF capped
  <2>3. CASE o = capped
    BY Zenon, <2>1, <2>3 DEF Shape
  <2> QED BY SMTT(20), <2>2, <2>3, PlainShape, PlainTypeList DEF ReaderDrops
<1>7. CASE r = "tcp"
  <2>1. PICK answer \in scenario.answers : o = readConnectRing(s, answer)
    BY <1>7 DEF Outcomes
  <2>2. \/ o = Silently
        \/ o = Discard("tcp_result_decode")
        \/ o = Emit({}, "none", Event("tcp_result"))
        \/ o = Discard("tcp_decode")
        \/ o = Emit({}, Attributed("tcp", s, answer).policy, Attributed("tcp", s, answer))
    BY <2>1 DEF readConnectRing
  <2>3. CASE o = Silently
    BY Zenon, <1>2, <1>7, <2>3 DEF QuietRings
  <2>4. CASE o = Emit({}, Attributed("tcp", s, answer).policy, Attributed("tcp", s, answer))
    BY Zenon, <1>3, <2>4
  <2>5. CASE o = Discard("tcp_decode")
    BY Zenon, <1>1, <2>5 DEF ReaderDrops
  <2>6. CASE o = Discard("tcp_result_decode") \/ o = Emit({}, "none", Event("tcp_result"))
    BY SMTT(20), <2>6, PlainShape, PlainTypeList DEF ReaderDrops
  <2> QED BY Zenon, <2>2, <2>3, <2>4, <2>5, <2>6
<1>8. CASE r = "udp"
  <2>1. PICK answer \in scenario.answers : o = readUDPRing(s, answer)
    BY <1>8 DEF Outcomes
  <2> DEFINE udp == Attributed("udp", s, answer)
             quic == [Emit({"quic_observed"}, udp.policy, udp) EXCEPT
                        !.lines = Append(@, Event("quic_candidate"))]
  <2>2. \/ o = Discard("udp_decode")
        \/ o = quic
        \/ o = Emit({}, udp.policy, udp)
    BY <2>1, Zenon DEF readUDPRing
  <2>3. CASE o = Discard("udp_decode")
    BY <1>1, <2>3 DEF ReaderDrops
  <2>4. CASE o = Emit({}, udp.policy, udp)
    BY Zenon, <1>3, <2>4
  <2>5. CASE o = quic
    <3>1. Credited(udp, "udp", answer)
      BY Zenon, AttributedFields
    <3> HIDE DEF udp
    <3>2. /\ quic.lines = <<udp, Event("quic_candidate")>> /\ quic.class = udp.policy
          /\ quic.count = {"quic_observed", CounterOf(udp.type)} /\ quic.drop = "none"
      <4>1. /\ quic.lines = Append(<<udp>>, Event("quic_candidate")) /\ quic.class = udp.policy
            /\ quic.count = {"quic_observed"} \cup {CounterOf(udp.type)} /\ quic.drop = "none"
        BY DEF Emit
      <4> HIDE DEF quic
      <4> QED BY <4>1, AppendedPair
    <3>3. CounterOf("udp") = "udp"
      BY DEF CounterOf
    <3> HIDE DEF quic
    <3> QED BY Zenon, <1>8, <2>5, <3>1, <3>2, <3>3 DEF Credited, Shape
  <2> QED BY <2>2, <2>3, <2>4, <2>5
<1>9. CASE r = "http"
  <2>1. \/ o = Discard("http_decode")
        \/ o = Discard("http_prefix_parse")
        \/ o = Emit({}, Attributed("http", s, s.chunk.name).policy, Attributed("http", s, s.chunk.name))
    BY Zenon, <1>9 DEF Outcomes, readHTTPRing
  <2> QED BY Zenon, <1>1, <1>3, <2>1 DEF ReaderDrops
<1>10. CASE r = "dns"
  <2>1. o = Discard("dns_decode") \/ o = Discard("dns_decode_tcp_short") \/ o = Silently
    BY <1>10 DEF Outcomes, readDNSRing
  <2> QED BY <1>1, <1>2, <1>10, <2>1 DEF ReaderDrops, QuietRings
<1>11. CASE r = "ktls"
  <2> DEFINE marked == [Emit({}, "none", Event("ktls_offload")) EXCEPT
                          !.by = Mark(ktlsBy, clock, s.pid, s.fd, stamp)]
  <2>1. o = Discard("ktls_decode") \/ o = marked
    BY <1>11 DEF Outcomes, readKTLSRing
  <2>2. Noting(marked, Event("ktls_offload"), {}, "none")
    BY DEF Emit, Noting
  <2> HIDE DEF marked
  <2>3. CASE o = marked
    BY Zenon, <2>2, <2>3, PlainTypeList DEF Shape
  <2> QED BY <1>1, <2>1, <2>3 DEF ReaderDrops
<1>12. CASE r = "tls"
  <2>1. ASSUME NEW name, NEW joined, NEW store, NEW x,
               x = TlsLine(s, stamp, name, joined)
                 \/ x = [TlsLine(s, stamp, name, joined) EXCEPT !.store = store]
        PROVE  Shape(r, s, x)
    <3> DEFINE ktls == IsKTLS(ktlsBy, clock, s.pid, 0, stamp)
               conf == IF ktls THEN "unknown" ELSE ScoreTLSConfidence(name)
               at == Attributed("tls", s, name)
               e == [at EXCEPT !.conf = conf, !.ktls = ktls, !.joined = joined]
               extra == {conf} \cup (IF ktls THEN {"unknown_ktls"} ELSE {})
    <3>1. TlsLine(s, stamp, name, joined) = Emit(extra, e.policy, e)
      BY Zenon DEF TlsLine
    <3>2. e.type = "tls" /\ e.conf = conf /\ Judged(e)
      <4> HIDE DEF ktls, conf
      <4>1. Credited(at, "tls", name)
        BY Zenon, AttributedFields
      <4>2. /\ e.type = at.type /\ e.name = at.name /\ e.sent = at.sent /\ e.dst = at.dst
            /\ e.policy = at.policy /\ e.conf = conf
        BY Zenon DEF Attributed, Event
      <4> HIDE DEF e, at
      <4> QED BY Zenon, <4>1, <4>2 DEF Credited, Judged
    <3>3. conf \in {"full", "partial", "unknown"}
          /\ (extra = {conf} \/ (conf = "unknown" /\ extra = {"unknown", "unknown_ktls"}))
      BY DEF ScoreTLSConfidence
    <3> HIDE DEF e, extra, conf, ktls
    <3>4. Noting(x, e, extra, e.policy)
      BY <2>1, <3>1 DEF Emit, Noting
    <3> QED BY Zenon, <1>12, <3>2, <3>3, <3>4 DEF Shape
  <2>2. ASSUME NEW drop \in ReaderDrops \ {"fs_cap"}, NEW store,
               o = Discard(drop) \/ o = [Discard(drop) EXCEPT !.store = store]
        PROVE  Shape(r, s, o)
    <3>1. Dropping(o)
      BY <2>2 DEF Discard, Dropping
    <3> QED BY Zenon, <3>1 DEF Shape
  <2>3. "tls_decode" \in ReaderDrops \ {"fs_cap"} /\ "tls_sni_parse" \in ReaderDrops \ {"fs_cap"}
    BY DEF ReaderDrops
  <2>4. ASSUME NEW a, o = Reassembled(s, stamp, a) PROVE Shape(r, s, o)
    <3>1. CASE a.parsed
      <4>1. o = [TlsLine(s, stamp, a.name, a.joined) EXCEPT !.store = a.store]
        BY <2>4, <3>1 DEF Reassembled
      <4> QED BY Zenon, <2>1, <4>1
    <3>2. CASE ~ a.parsed
      <4>1. o = [Discard("tls_sni_parse") EXCEPT !.store = a.store]
        BY Zenon, <2>4, <3>2 DEF Reassembled
      <4> QED BY Zenon, <2>2, <2>3, <4>1
    <3> QED BY <3>1, <3>2
  <2>5. o \in Outcomes("tls", s, stamp)
    BY Zenon, <1>12
  <2> QED BY ZenonT(40), <2>1, <2>2, <2>3, <2>4, <2>5, TlsOutcome
<1>13. CASE r = "tcp_state"
  <2>1. \/ o = Discard("tcp_state_decode")
        \/ \E extra \in {{}, {"confirmed"}, {"refused"}} : o = Emit(extra, "none", Event("tcp_state"))
    BY <1>13 DEF Outcomes, readTCPStateRing
  <2>2. ASSUME NEW extra \in {{}, {"confirmed"}, {"refused"}}, o = Emit(extra, "none", Event("tcp_state"))
        PROVE  Shape(r, s, o)
    <3>1. Noting(o, Event("tcp_state"), extra, "none")
      BY Zenon, <2>2, OutcomeFields
    <3>2. "tcp_state" \in PlainTypes
      BY PlainTypeList
    <3> QED BY Zenon, <3>1, <3>2 DEF Shape
  <2> QED BY <1>1, <2>1, <2>2 DEF ReaderDrops
<1>14. CASE r = "io_uring"
  BY SMTT(20), <1>14, PlainShape, PlainTypeList DEF Outcomes, readIoUringRing, ReaderDrops
<1>15. CASE r = "io_uring_tls"
  <2> DEFINE e == [Event("io_uring_tls") EXCEPT !.name = Sanitize(s.chunk.name)]
             seen == [Emit({}, "none", e) EXCEPT !.count = {}]
  <2>1. o = Silently \/ o = seen
    BY <1>15 DEF Outcomes, readIoUringTLSRing
  <2>2. e.type = "io_uring_tls"
    BY DEF Event
  <2> HIDE DEF e
  <2>3. seen.lines = <<e>> /\ seen.class = "none" /\ seen.count = {} /\ seen.drop = "none"
    BY DEF Emit
  <2> HIDE DEF seen
  <2>4. CASE o = seen
    BY Zenon, <2>2, <2>3, <2>4 DEF Shape
  <2> QED BY Zenon, <1>2, <1>15, <2>1, <2>4 DEF QuietRings
<1>16. CASE r = "egress_backstop"
  <2>1. o = Silently \/ o = Discard("exec_decode") \/ o = Emit({}, "none", Event("egress_backstop"))
    BY <1>16 DEF Outcomes, readEgressBackstopRing
  <2>2. CASE o = Silently
    BY Zenon, <1>2, <1>16, <2>2 DEF QuietRings
  <2> QED BY <2>1, <2>2, PlainShape, PlainTypeList DEF ReaderDrops
<1>17. CASE r = "bpf_self_defense"
  <2>1. o = Silently \/ o = Discard("exec_decode") \/ o = Emit({}, "none", Event("bpf_self_defense"))
    BY <1>17 DEF Outcomes, readBpfSelfDefenseRing
  <2>2. CASE o = Silently
    BY <1>2, <1>17, <2>2 DEF QuietRings
  <2> QED BY <2>1, <2>2, PlainShape, PlainTypeList DEF ReaderDrops
<1>18. CASE r = "bpf_audit"
  BY SMTT(20), <1>18, PlainShape, PlainTypeList DEF Outcomes, readBPFAuditRing, ReaderDrops
<1>19. CASE r = "ipv6_obs"
  <2>1. \E type \in {"tcp6", "udp6"} :
          o = Discard("ipv6_obs_decode") \/ o = Emit({}, "none", Event(type))
    BY Zenon, <1>19 DEF Outcomes, readIPv6ObsRing
  <2> QED BY <2>1, PlainShape, PlainTypeList DEF ReaderDrops
<1> QED
  BY Zenon, <1>4, <1>5, <1>6, <1>7, <1>8, <1>9, <1>10, <1>11, <1>12, <1>13, <1>14, <1>15, <1>16,
     <1>17, <1>18, <1>19 DEF Rings

-----------------------------------------------------------------------------
(* The class of a line.                                                    *)

\* The compiled policy.
MadeFrom(p, hosts, ips, ignored, defaults) ==
  /\ \A t \in hosts : ~ RejectedHost(t)
  /\ \A t \in ips : t.form # "bad"
  /\ p.exactHosts = {ToLower(t.name) : t \in {x \in hosts : ~ x.wild}}
  /\ p.wildSuffixes = {ToLower(t.name) : t \in {x \in hosts : x.wild /\ ~ SkippedHost(x)}}
  /\ p.ips = Hosts4(ips, "ip") /\ p.nets = Hosts4(ips, "cidr")
  /\ p.ignored = MergeIgnored(ignored, defaults)
  /\ p.enabled <=> p.exactHosts \cup p.wildSuffixes # {} \/ ips # {}

\* What the proofs use of a name.
IsName(x) ==
  /\ x = [labels |-> x.labels, upper |-> x.upper, dot |-> x.dot, size |-> x.size]
  /\ IsSeq(x.labels)

LEMMA NamesAre == \A x \in Names : IsName(x)
<1> SUFFICES ASSUME NEW x \in Names PROVE IsName(x)
  OBVIOUS
<1>1. x.labels \in Seq(STRING)
  BY Zenon DEF Names
<1>2. x = [labels |-> x.labels, upper |-> x.upper, dot |-> x.dot, size |-> x.size]
  BY DEF Names
<1> QED BY <1>1, <1>2 DEF IsName, IsSeq

\* The policy of this run is the one its scenario compiles to.
Compiled ==
  /\ scenario \in Scenarios
  /\ pol = BuildPolicyEx(scenario.hosts, scenario.ips, scenario.ignored, scenario.defaults)
  /\ ~ pol.error

-----------------------------------------------------------------------------
(* The lines a reader holds.                                               *)

\* One line, or the two of a QUIC candidate.
HeldLines(r, lines) ==
  \/ \E e : e.type \in Types /\ lines = <<e>>
  \/ r = "udp" /\ \E e : e.type = "udp" /\ lines = <<e, Event("quic_candidate")>>

\* A reader holds lines from the moment it has counted its record until the last of
\* them is dealt with.
Held(r) ==
  \/ pc[r] \notin {"lock", "append"} /\ out[r] = << >>
  \/ pc[r] \in {"lock", "append"} /\ scenario.logging /\ HeldLines(r, out[r])

Holding ==
  /\ pc \in [Rings -> Locations]
  /\ out = [r \in Rings |-> out[r]]
  /\ \A r \in Rings : Held(r)

\* What a record does, apart from the TLS tables and the canary.
LEMMA HandleParts ==
  ASSUME NEW r \in Rings, Handle(r)
  PROVE  \E o \in Outcomes(r, cur[r].sample, cur[r].stamp), writes \in BOOLEAN :
           /\ writes <=> scenario.logging /\ o.lines # << >>
           /\ pc[r] = "handle"
           /\ n' = Add(n, o.count \cup (IF writes THEN {} ELSE Second(o.lines)))
           /\ policyCounts' = Add(policyCounts, {o.class})
           /\ dropped' = Add(dropped, {o.drop})
           /\ silent' = silent + (IF r \in QuietRings /\ o.drop = "none" /\ o.lines = << >>
                                    THEN 1 ELSE 0)
           /\ out' = [out EXCEPT ![r] = IF writes THEN o.lines ELSE << >>]
           /\ pc' = [pc EXCEPT ![r] = IF writes THEN "lock" ELSE "read"]
           /\ cur' = [cur EXCEPT ![r] = Nothing]
           /\ UNCHANGED <<scenario, pol, mu, seq, log, malformed, torn, swallowed, phase, summary,
                          reads, faults>>
<1> USE DEF given, fileVars
<1>1. PICK o \in Outcomes(r, cur[r].sample, cur[r].stamp) :
        LET writes == scenario.logging /\ o.lines # << >> IN
           /\ n' = Add(n, o.count \cup (IF writes THEN {} ELSE Second(o.lines)))
           /\ policyCounts' = Add(policyCounts, {o.class})
           /\ dropped' = Add(dropped, {o.drop})
           /\ silent' = silent + (IF r \in QuietRings /\ o.drop = "none" /\ o.lines = << >>
                                    THEN 1 ELSE 0)
           /\ out' = [out EXCEPT ![r] = IF writes THEN o.lines ELSE << >>]
           /\ pc' = [pc EXCEPT ![r] = IF writes THEN "lock" ELSE "read"]
  BY Zenon DEF Handle, Goto
<1>2. /\ pc[r] = "handle" /\ cur' = [cur EXCEPT ![r] = Nothing]
      /\ UNCHANGED <<scenario, pol, mu, seq, log, malformed, torn, swallowed, phase, summary,
                     reads, faults>>
  BY Zenon DEF Handle
<1>3. CASE scenario.logging /\ o.lines # << >>
  <2>1. PICK yes \in BOOLEAN : yes
    BY Zenon
  <2> QED BY Zenon, <1>1, <1>2, <1>3, <2>1
<1>4. CASE ~ (scenario.logging /\ o.lines # << >>)
  <2>1. PICK no \in BOOLEAN : ~ no
    BY Zenon
  <2> QED BY Zenon, <1>1, <1>2, <1>4, <2>1
<1> QED BY Zenon, <1>3, <1>4

\* The steps that neither count nor end a line.
Aside ==
  /\ UNCHANGED <<scenario, pol, out, n, policyCounts, dropped, silent>>
  /\ \/ Scribble /\ phase' = phase
     \/ WriteShutdownTelemetry /\ phase = "joined" /\ faults' = faults
     \/ UNCHANGED <<log, malformed, torn, swallowed>> /\ faults' \in {faults, faults + 1}
  /\ \/ UNCHANGED <<pc, reads>>
     \/ \E r \in Rings : pc[r] = "read" /\ Goto(r, "handle") /\ reads' = reads + 1
     \/ \E r \in Rings : pc[r] = "read" /\ Goto(r, "exit") /\ reads' = reads
     \/ \E r \in Rings : pc[r] = "lock" /\ Goto(r, "append") /\ reads' = reads

LEMMA StepSorts ==
  ASSUME [Next]_vars
  PROVE  \/ \E r \in Rings : Handle(r) \/ AppendLine(r) \/ AppendFails(r)
         \/ Aside
<1> USE DEF given, readerVars, fileVars, statVars, Goto
<1>1. ASSUME NEW r \in Rings, Read(r) PROVE Aside
  BY Zenon, <1>1 DEF Read, Aside
<1>2. ASSUME NEW r \in Rings, ReadFails(r) PROVE Aside
  BY Zenon, <1>2 DEF ReadFails, Aside
<1>3. ASSUME NEW r \in Rings, ReaderExits(r) PROVE Aside
  BY Zenon, <1>3 DEF ReaderExits, Aside
<1>4. ASSUME NEW r \in Rings, LockAndNumber(r) PROVE Aside
  BY Zenon, <1>4 DEF LockAndNumber, Aside
<1>5. CASE Tick \/ CanaryTick \/ EchoCanary \/ Cancel \/ Join \/ UNCHANGED vars
  BY Zenon, <1>5 DEF Tick, CanaryTick, EchoCanary, Cancel, Join, vars, Aside
<1>6. CASE Scribble
  BY Zenon, <1>6 DEF Scribble, Aside
<1>7. CASE WriteShutdownTelemetry
  BY Zenon, <1>7 DEF WriteShutdownTelemetry, Aside
<1> QED BY Zenon, <1>1, <1>2, <1>3, <1>4, <1>5, <1>6, <1>7 DEF Next

LEMMA HoldingInit == Init => Holding
<1> SUFFICES ASSUME Init PROVE Holding
  OBVIOUS
<1>1. pc = [r \in Rings |-> IF r \in Active THEN "read" ELSE "exit"] /\ out = [r \in Rings |-> << >>]
  BY Zenon DEF Init
<1> QED BY <1>1 DEF Holding, Held, Locations

\* A line is dealt with: the reader goes back to its ring, or on to the second line, whose
\* event it counts now.
LEMMA LineEnds ==
  ASSUME Holding, NEW r \in Rings, pc[r] = "append", LineDone(r)
  PROVE  \E e : /\ e.type \in Types /\ Head(out[r]) = e
                /\ \/ /\ out[r] = <<e>> /\ out' = [out EXCEPT ![r] = << >>]
                      /\ pc' = [pc EXCEPT ![r] = "read"] /\ n' = Add(n, {})
                   \/ /\ r = "udp" /\ e.type = "udp"
                      /\ out[r] = <<e, Event("quic_candidate")>>
                      /\ out' = [out EXCEPT ![r] = <<Event("quic_candidate")>>]
                      /\ pc' = [pc EXCEPT ![r] = "lock"] /\ n' = Add(n, {"quic_candidate"})
<1>1. /\ out' = [out EXCEPT ![r] = Tail(out[r])]
      /\ n' = Add(n, Second(out[r]))
      /\ pc' = [pc EXCEPT ![r] = IF Len(out[r]) > 1 THEN "lock" ELSE "read"]
  BY Zenon DEF LineDone, Goto
<1>2. HeldLines(r, out[r])
  BY DEF Holding, Held
<1>3. ASSUME NEW e, e.type \in Types, out[r] = <<e>>
      PROVE  /\ Head(out[r]) = e /\ Tail(out[r]) = << >> /\ Second(out[r]) = {}
             /\ ~ (Len(out[r]) > 1)
  BY Zenon, <1>3, OneOrTwo DEF Second
<1>4. ASSUME NEW e, NEW q, out[r] = <<e, q>>
      PROVE  /\ Head(out[r]) = e /\ Tail(out[r]) = <<q>> /\ Second(out[r]) = {q.type}
             /\ Len(out[r]) > 1
  <2>1. Head(out[r]) = e /\ Tail(out[r]) = <<q>> /\ Len(out[r]) = 2 /\ out[r][2] = q /\ 2 > 1
    BY <1>4, OneOrTwo
  <2> QED BY Zenon, <2>1 DEF Second
<1>5. CASE \E e : e.type \in Types /\ out[r] = <<e>>
  BY Zenon, <1>1, <1>3, <1>5
<1>6. CASE r = "udp" /\ \E e : e.type = "udp" /\ out[r] = <<e, Event("quic_candidate")>>
  <2>1. "udp" \in Types
    BY TypeList
  <2>2. PICK q : q = Event("quic_candidate")
    OBVIOUS
  <2>3. q.type = "quic_candidate"
    BY Zenon, <2>2, EventType
  <2>4. PICK e : e.type = "udp" /\ out[r] = <<e, q>>
    BY Zenon, <1>6, <2>2
  <2>5. /\ Head(out[r]) = e /\ Tail(out[r]) = <<q>> /\ Second(out[r]) = {"quic_candidate"}
        /\ Len(out[r]) > 1
    BY Zenon, <1>4, <2>3, <2>4
  <2>6. out' = [out EXCEPT ![r] = <<q>>] /\ pc' = [pc EXCEPT ![r] = "lock"]
        /\ n' = Add(n, {"quic_candidate"})
    BY Zenon, <1>1, <2>5
  <2> QED BY <1>6, <2>1, <2>2, <2>4, <2>5, <2>6
<1> QED BY Zenon, <1>2, <1>5, <1>6 DEF HeldLines

LEMMA HoldingStep ==
  Holding /\ [Next]_vars =>
    Holding' /\ UNCHANGED scenario
<1>ShapeLines. ASSUME NEW r \in Rings, NEW s, NEW o, Shape(r, s, o), o.lines # << >>
               PROVE  HeldLines(r, o.lines)
  <2> USE <1>ShapeLines
  <2>1. \A type \in PlainTypes : Event(type).type \in Types
    BY EventType DEF PlainTypes
  <2>2. {"tcp", "udp", "http", "tls", "io_uring_tls"} \subseteq Types
    BY TypeList
  <2>3. "tls" \in Types /\ "io_uring_tls" \in Types
    BY <2>2
  <2>4. \A t \in {"tcp", "udp", "http"} : t \in Types
    BY <2>2
  <2> QED BY Zenon, <2>1, <2>3, <2>4 DEF Shape, Dropping, Leaving, Capping, Noting, HeldLines
<1> SUFFICES ASSUME Holding, [Next]_vars
             PROVE  Holding' /\ UNCHANGED scenario
  OBVIOUS
<1> DEFINE Busy == {"lock", "append"}
<1>1. ASSUME NEW r \in Rings, NEW lines, NEW loc \in Locations,
             UNCHANGED scenario, out' = [out EXCEPT ![r] = lines], pc' = [pc EXCEPT ![r] = loc],
             \/ loc \notin Busy /\ lines = << >>
             \/ loc \in Busy /\ scenario.logging /\ HeldLines(r, lines)
      PROVE  Holding'
  <2>1. pc' \in [Rings -> Locations] /\ out' = [q \in Rings |-> out'[q]]
    BY Zenon, <1>1 DEF Holding
  <2>2. pc'[r] = loc /\ out'[r] = lines
        /\ \A q \in Rings \ {r} : pc'[q] = pc[q] /\ out'[q] = out[q]
    BY <1>1 DEF Holding
  <2>3. ASSUME NEW q \in Rings PROVE Held(q)'
    <3>1. CASE q = r
      BY ZenonT(40), <1>1, <2>2, <3>1 DEF Held, HeldLines
    <3>2. CASE q # r
      <4>1. pc'[q] = pc[q] /\ out'[q] = out[q] /\ scenario' = scenario
        BY Zenon, <1>1, <2>2, <3>2
      <4>2. Held(q)
        BY DEF Holding
      <4> QED BY <4>1, <4>2 DEF Held, HeldLines
    <3> QED BY Zenon, <3>1, <3>2
  <2> QED BY Zenon, <2>1, <2>3 DEF Holding
<1> HIDE DEF Busy
<1>2. "read" \in Locations /\ "lock" \in Locations /\ "read" \notin Busy /\ "lock" \in Busy
      /\ "append" \in Busy /\ "append" \in Locations /\ "exit" \in Locations /\ "exit" \notin Busy
      /\ "handle" \in Locations /\ "handle" \notin Busy
  BY DEF Locations, Busy
<1>3. ASSUME NEW r \in Rings, Handle(r) PROVE Holding' /\ UNCHANGED scenario
  <2>1. PICK o \in Outcomes(r, cur[r].sample, cur[r].stamp), writes \in BOOLEAN :
          /\ writes <=> scenario.logging /\ o.lines # << >>
          /\ out' = [out EXCEPT ![r] = IF writes THEN o.lines ELSE << >>]
          /\ pc' = [pc EXCEPT ![r] = IF writes THEN "lock" ELSE "read"]
          /\ UNCHANGED scenario
    BY Zenon, <1>3, HandleParts
  <2>2. Shape(r, cur[r].sample, o)
    BY Zenon, OutcomeShape
  <2>3. CASE writes
    <3>1. HeldLines(r, o.lines)
      BY Zenon, <2>1, <2>2, <2>3, <1>ShapeLines
    <3>2. out' = [out EXCEPT ![r] = o.lines] /\ pc' = [pc EXCEPT ![r] = "lock"]
      BY Zenon, <2>1, <2>3
    <3> QED BY Zenon, <1>1, <1>2, <2>1, <2>3, <3>1, <3>2
  <2>4. CASE ~ writes
    <3>1. out' = [out EXCEPT ![r] = << >>] /\ pc' = [pc EXCEPT ![r] = "read"]
      BY Zenon, <2>1, <2>4
    <3> QED BY Zenon, <1>1, <1>2, <2>1, <3>1
  <2> QED BY <2>3, <2>4
<1>4. ASSUME NEW r \in Rings, AppendLine(r) \/ AppendFails(r)
      PROVE  Holding' /\ UNCHANGED scenario
  <2>1. pc[r] = "append" /\ LineDone(r) /\ UNCHANGED scenario
    BY Zenon, <1>4 DEF AppendLine, AppendFails, given
  <2>2. scenario.logging
    BY Zenon, <1>2, <2>1 DEF Holding, Held, Busy
  <2>3. "quic_candidate" \in Types
    BY TypeList
  <2>4. HeldLines(r, <<Event("quic_candidate")>>)
    BY Zenon, <2>3, EventType DEF HeldLines
  <2>5. CASE out' = [out EXCEPT ![r] = << >>] /\ pc' = [pc EXCEPT ![r] = "read"]
    BY Zenon, <1>1, <1>2, <2>1, <2>5
  <2>6. CASE out' = [out EXCEPT ![r] = <<Event("quic_candidate")>>]
             /\ pc' = [pc EXCEPT ![r] = "lock"]
    BY Zenon, <1>1, <1>2, <2>1, <2>2, <2>4, <2>6
  <2> QED BY Zenon, <2>1, <2>5, <2>6, LineEnds
<1>5. CASE Aside
  <2>1. UNCHANGED <<scenario, out>>
    BY Zenon, <1>5 DEF Aside
  <2>2. CASE UNCHANGED pc
    BY <2>1, <2>2 DEF Holding, Held, HeldLines
  <2>3. ASSUME NEW r \in Rings, NEW loc \in Locations, pc' = [pc EXCEPT ![r] = loc],
               pc[r] \in Busy <=> loc \in Busy
        PROVE  Holding'
    <3>1. out' = [out EXCEPT ![r] = out[r]]
      BY <2>1 DEF Holding
    <3>2. Held(r)
      BY DEF Holding
    <3> QED BY Zenon, <1>1, <2>1, <2>3, <3>1, <3>2 DEF Held, Busy
  <2> QED BY Zenon, <1>2, <1>5, <2>1, <2>2, <2>3 DEF Aside, Goto
<1> QED BY Zenon, <1>3, <1>4, <1>5, StepSorts

-----------------------------------------------------------------------------
(* The class of every line.                                                *)

RightClass(x, e) == e.type \in {"tcp", "udp", "http", "tls"} => MeansList(x, e)

\* Samples carry names, and what is written or about to be has the right class.
Ruled ==
  /\ Compiled
  /\ \A r \in Rings : pc[r] # "exit" => r \in DOMAIN scenario.samples
  /\ cur = [r \in Rings |-> cur[r]]
  /\ \A r \in Rings : IsName(cur[r].sample.chunk.name)
  /\ \A r \in Rings : \A i \in DOMAIN out[r] : RightClass(scenario, out[r][i])
  /\ IsSeq(log) /\ \A i \in 1..Len(log) : RightClass(scenario, log[i].event)

LEMMA RuledStep ==
  Ruled /\ Holding /\ Buffered /\ [Next]_vars =>
    Ruled'
\* One label in front of a suffix.
<1>OneLabelMore. ASSUME NEW S, NEW labels \in Seq(S), NEW suffix \in Seq(S)
                 PROVE  (Len(labels) = Len(suffix) + 1 /\ HasSuffix(labels, suffix))
                          <=> (labels # << >> /\ Tail(labels) = suffix)
  <2> USE <1>OneLabelMore
  <2>1. ASSUME labels # << >>
        PROVE  /\ Len(Tail(labels)) + 1 = Len(labels)
               /\ SubSeq(labels, 2, Len(labels)) = Tail(labels)
    <3>1. Len(labels) \in Nat /\ Len(labels) >= 1
      BY <2>1
    <3>2. Tail(labels) \in Seq(S) /\ Len(Tail(labels)) = Len(labels) - 1
      BY <2>1
    <3>3. SubSeq(labels, 2, Len(labels)) \in Seq(S)
          /\ Len(SubSeq(labels, 2, Len(labels))) = Len(labels) - 1
      <4>1. \A i \in 2..Len(labels) : labels[i] \in S
        OBVIOUS
      <4>2. SubSeq(labels, 2, Len(labels)) \in Seq(S)
        BY <3>1, <4>1
      <4>3. Len(SubSeq(labels, 2, Len(labels))) = Len(labels) - 1
        <5>1. CASE Len(labels) = 1
          BY <5>1
        <5>2. CASE Len(labels) >= 2
          BY <3>1, <5>2
        <5>3. \A k \in Nat : k >= 1 => k = 1 \/ k >= 2
          OBVIOUS
        <5> QED BY Zenon, <3>1, <5>1, <5>2, <5>3
      <4> QED BY <4>2, <4>3
    <3>4. \A i \in 1..(Len(labels) - 1) : Tail(labels)[i] = SubSeq(labels, 2, Len(labels))[i]
      BY SMTT(20), <2>1, <3>1
    <3> DEFINE u == Tail(labels)
               v == SubSeq(labels, 2, Len(labels))
    <3>5. u \in Seq(S) /\ v \in Seq(S) /\ Len(u) = Len(v) /\ \A i \in 1..Len(u) : u[i] = v[i]
      BY <3>2, <3>3, <3>4
    <3> HIDE DEF u, v
    <3>6. u = v
      BY SMTT(20), <3>5
    <3> QED BY <3>1, <3>2, <3>6 DEF u, v
  <2>2. ASSUME Len(labels) = Len(suffix) + 1
        PROVE  labels # << >> /\ (HasSuffix(labels, suffix) <=> Tail(labels) = suffix)
    <3>1. labels # << >> /\ Len(labels) >= Len(suffix) /\ Len(labels) - Len(suffix) + 1 = 2
      BY <2>2
    <3> QED BY Zenon, <2>1, <3>1 DEF HasSuffix
  <2>3. ASSUME labels # << >>, Tail(labels) = suffix
        PROVE  Len(labels) = Len(suffix) + 1
    BY <2>1, <2>3
  <2> QED BY Zenon, <2>2, <2>3
<1>PolicyFields. ASSUME NEW hosts, NEW ips, NEW ignored, NEW defaults,
                        ~ BuildPolicyEx(hosts, ips, ignored, defaults).error
                 PROVE  MadeFrom(BuildPolicyEx(hosts, ips, ignored, defaults), hosts, ips, ignored, defaults)
  <2> USE <1>PolicyFields
  <2> DEFINE exact == {ToLower(t.name) : t \in {x \in hosts : ~ x.wild}}
             wild == {ToLower(t.name) : t \in {x \in hosts : x.wild /\ ~ SkippedHost(x)}}
             on == exact \cup wild # {} \/ ips # {}
             merged == MergeIgnored(ignored, defaults)
             p == BuildPolicyEx(hosts, ips, ignored, defaults)
             bad == (\E t \in hosts : RejectedHost(t)) \/ (\E t \in ips : t.form = "bad")
             parsed == [error |-> FALSE, exactHosts |-> exact, wildSuffixes |-> wild,
                        ips |-> Hosts4(ips, "ip"), nets |-> Hosts4(ips, "cidr"),
                        ipv6s |-> Hosts6(ips, "ip"), ipv6nets |-> Hosts6(ips, "cidr"),
                        ignored |-> {}, enabled |-> on]
  <2>1. Parse(hosts, ips) = IF bad THEN Rejected ELSE parsed
    BY Zenon DEF Parse
  <2> HIDE DEF exact, wild, on, merged
  <2>2. Rejected.error
    BY DEF Rejected
  <2>3. ~ bad
    BY Zenon, <2>1, <2>2 DEF BuildPolicyEx
  <2>4. Parse(hosts, ips) = parsed
    BY Zenon, <2>1, <2>3
  <2>5. p = [parsed EXCEPT !.ignored = merged]
    BY Zenon, <2>2, <2>4 DEF BuildPolicyEx, merged
  <2> HIDE DEF p
  <2>6. /\ p.exactHosts = exact /\ p.wildSuffixes = wild
        /\ p.ips = Hosts4(ips, "ip") /\ p.nets = Hosts4(ips, "cidr")
        /\ p.ignored = merged /\ p.enabled = on
    BY <2>5
  <2> QED BY Zenon, <2>3, <2>6 DEF p, exact, wild, on, merged, MadeFrom
\* Classify as a chain of decisions.
<1>ClassChain. ASSUME NEW p, NEW name, NEW addr
               PROVE  Classify(p, name, addr) =
                        IF p.enabled /\ NetsContain(p.ips \cup p.nets, addr) THEN "allowed"
                        ELSE IF NetsContain(p.ignored, addr) THEN "ignored"
                        ELSE IF ~ p.enabled THEN "monitor"
                        ELSE IF ToLower(name).labels = NoLabels THEN "unknown"
                        ELSE IF \/ ToLower(name) \in p.exactHosts
                                \/ \E s \in p.wildSuffixes : HostMatchesWildcard(ToLower(name), s)
                          THEN "allowed" ELSE "not_listed"
  <2> USE <1>ClassChain
  <2> DEFINE la == p.enabled /\ NetsContain(p.ips \cup p.nets, addr)
             ig == NetsContain(p.ignored, addr)
             rest == IF ~ p.enabled THEN "monitor"
                     ELSE IF ToLower(name).labels = NoLabels THEN "unknown"
                     ELSE IF \/ ToLower(name) \in p.exactHosts
                             \/ \E s \in p.wildSuffixes : HostMatchesWildcard(ToLower(name), s)
                       THEN "allowed" ELSE "not_listed"
  <2>1. Classify(p, name, addr) =
          CASE la -> "allowed" [] ~ la /\ ig -> "ignored" [] OTHER -> rest
    BY Zenon DEF Classify
  <2> HIDE DEF la, ig, rest
  <2>2. Classify(p, name, addr) = IF la THEN "allowed" ELSE IF ig THEN "ignored" ELSE rest
    BY ZenonT(40), <2>1
  <2> QED BY Zenon, <2>2 DEF la, ig, rest
\* Fields of a name in lower case.
<1>Lowered. ASSUME NEW name, IsName(name)
            PROVE  /\ ToLower(name).labels = name.labels /\ ToLower(name).dot = name.dot
                   /\ \A other : IsName(other) =>
                        (ToLower(name) = ToLower(other) <=>
                           name.labels = other.labels /\ name.dot = other.dot /\ name.size = other.size)
  <2> USE <1>Lowered
  <2>1. ASSUME NEW x, IsName(x)
        PROVE  ToLower(x) = [labels |-> x.labels, upper |-> FALSE, dot |-> x.dot, size |-> x.size]
    <3>1. PICK l, u, d, z : x = [labels |-> l, upper |-> u, dot |-> d, size |-> z]
      BY <2>1 DEF IsName
    <3>2. PICK no : no = FALSE
      BY Zenon
    <3>3. [[labels |-> l, upper |-> u, dot |-> d, size |-> z] EXCEPT !.upper = no]
            = [labels |-> l, upper |-> no, dot |-> d, size |-> z]
      OBVIOUS
    <3>4. ToLower(x) = [x EXCEPT !.upper = no]
      BY Zenon, <3>2 DEF ToLower
    <3>5. x.labels = l /\ x.dot = d /\ x.size = z
      BY Zenon, <3>1
    <3> QED BY Zenon, <3>1, <3>2, <3>3, <3>4, <3>5
  <2>2. ASSUME NEW other, IsName(other)
        PROVE  ToLower(name) = ToLower(other) <=>
                 name.labels = other.labels /\ name.dot = other.dot /\ name.size = other.size
    <3> DEFINE R(l, d, z) == [labels |-> l, upper |-> FALSE, dot |-> d, size |-> z]
    <3>1. \A l, d, z, k, e, y : R(l, d, z) = R(k, e, y) => l = k /\ d = e /\ z = y
      OBVIOUS
    <3>2. ToLower(name) = R(name.labels, name.dot, name.size)
          /\ ToLower(other) = R(other.labels, other.dot, other.size)
      BY Zenon, <2>1, <2>2
    <3> HIDE DEF R
    <3> QED BY SMTT(20), <3>1, <3>2
  <2> QED BY <2>1, <2>2
\* The name test of Classify is coverage by a token that Parse keeps.
<1>NameMatch. ASSUME NEW hosts, NEW name, IsName(name), name.size = "fits",
                     \A t \in hosts : t.wild \in BOOLEAN /\ IsName(t.name) /\ ~ RejectedHost(t),
                     NEW exact, exact = {ToLower(t.name) : t \in {x \in hosts : ~ x.wild}},
                     NEW wild, wild = {ToLower(t.name) : t \in {x \in hosts : x.wild /\ ~ SkippedHost(x)}}
              PROVE  ( /\ ToLower(name).labels # NoLabels
                       /\ \/ ToLower(name) \in exact
                          \/ \E s \in wild : HostMatchesWildcard(ToLower(name), s) )
                       <=> \E t \in hosts : CoveredBy(t, name)
  <2> USE <1>NameMatch
  <2> DEFINE low == ToLower(name)
  <2>1. low.labels = name.labels /\ low.dot = name.dot
    BY Zenon, <1>Lowered
  <2>2. ASSUME NEW t \in hosts, ~ SkippedHost(t)
        PROVE  IsName(t.name) /\ t.name.size = "fits"
    BY Zenon, <2>2 DEF RejectedHost
  <2>3. ASSUME NEW t \in hosts, ~ t.wild
        PROVE  low = ToLower(t.name) <=> name.labels = t.name.labels /\ name.dot = t.name.dot
    BY ZenonT(40), <2>2, <2>3, <1>Lowered DEF SkippedHost
  <2>4. ASSUME NEW t \in hosts, t.wild
        PROVE  HostMatchesWildcard(low, ToLower(t.name))
                 <=> name.labels # << >> /\ Tail(name.labels) = t.name.labels /\ name.dot = t.name.dot
    <3>1. ToLower(t.name).labels = t.name.labels /\ ToLower(t.name).dot = t.name.dot
      BY Zenon, <1>Lowered
    <3>2. PICK S : name.labels \in Seq(S) /\ t.name.labels \in Seq(S)
      <4>1. PICK U, V : name.labels \in Seq(U) /\ t.name.labels \in Seq(V)
        BY Zenon DEF IsName, IsSeq
      <4>2. name.labels \in Seq(U \cup V) /\ t.name.labels \in Seq(U \cup V)
        BY <4>1
      <4> QED BY Zenon, <4>2
    <3>3. (Len(name.labels) = Len(t.name.labels) + 1 /\ HasSuffix(name.labels, t.name.labels))
            <=> (name.labels # << >> /\ Tail(name.labels) = t.name.labels)
      BY Zenon, <3>2, <1>OneLabelMore
    <3> HIDE DEF low
    <3> QED BY Zenon, <2>1, <3>1, <3>3 DEF HostMatchesWildcard
  <2>5. low \in exact <=> \E t \in hosts : ~ t.wild /\ low = ToLower(t.name)
    BY Zenon
  <2>6. (\E s \in wild : HostMatchesWildcard(low, s))
          <=> \E t \in hosts : t.wild /\ ~ SkippedHost(t) /\ HostMatchesWildcard(low, ToLower(t.name))
    BY Zenon
  <2> HIDE DEF low
  <2>7. ASSUME NEW t \in hosts
        PROVE  CoveredBy(t, name)
                 <=> /\ name.labels # << >>
                     /\ \/ ~ t.wild /\ low = ToLower(t.name)
                        \/ t.wild /\ ~ SkippedHost(t) /\ HostMatchesWildcard(low, ToLower(t.name))
    <3>1. CASE t.wild
      BY Zenon, <2>4, <3>1 DEF CoveredBy
    <3>2. CASE ~ t.wild
      <4>1. ~ SkippedHost(t)
        BY <3>2 DEF SkippedHost
      <4> QED BY ZenonT(40), <2>3, <3>2, <4>1 DEF CoveredBy
    <3> QED BY Zenon, <3>1, <3>2
  <2>8. low.labels # NoLabels <=> name.labels # << >>
    BY Zenon, <2>1 DEF NoLabels
  <2>9. ( /\ low.labels # NoLabels
          /\ \/ low \in exact
             \/ \E s \in wild : HostMatchesWildcard(low, s) )
          <=> \E t \in hosts : CoveredBy(t, name)
    BY Zenon, <2>5, <2>6, <2>7, <2>8
  <2> QED BY Zenon, <2>9 DEF low
\* A class that Classify gives means what the lists say.
<1>ClassMeans. ASSUME Compiled, NEW e, IsName(e.name), e.name.size = "fits",
                      e.policy = Classify(pol, e.name, e.dst)
               PROVE  MeansList(scenario, e)
  <2> USE <1>ClassMeans
  <2> DEFINE v4 == IsIPv4(e.dst)
             listedAddr == v4 /\ \E t \in scenario.ips : t.fam # "v6" /\ e.dst.host \in t.hosts
             ignored == v4 /\ (\/ \E t \in scenario.ignored : e.dst.host \in t.hosts
                               \/ scenario.defaults /\ \E net \in DefaultIgnored : e.dst.host \in net)
             listedName == \E t \in scenario.hosts : CoveredBy(t, e.name)
             noList == scenario.ips = {} /\ \A t \in scenario.hosts : SkippedHost(t)
             match == \/ ToLower(e.name) \in pol.exactHosts
                      \/ \E s \in pol.wildSuffixes : HostMatchesWildcard(ToLower(e.name), s)
  <2>1. /\ \A t \in scenario.hosts : ~ RejectedHost(t)
        /\ \A t \in scenario.ips : t.form # "bad"
        /\ pol.exactHosts = {ToLower(t.name) : t \in {x \in scenario.hosts : ~ x.wild}}
        /\ pol.wildSuffixes =
             {ToLower(t.name) : t \in {x \in scenario.hosts : x.wild /\ ~ SkippedHost(x)}}
        /\ pol.ips = Hosts4(scenario.ips, "ip") /\ pol.nets = Hosts4(scenario.ips, "cidr")
        /\ pol.ignored = MergeIgnored(scenario.ignored, scenario.defaults)
        /\ pol.enabled <=> pol.exactHosts \cup pol.wildSuffixes # {} \/ scenario.ips # {}
    <3>1. MadeFrom(BuildPolicyEx(scenario.hosts, scenario.ips, scenario.ignored, scenario.defaults),
                   scenario.hosts, scenario.ips, scenario.ignored, scenario.defaults)
      BY Zenon, <1>PolicyFields DEF Compiled
    <3> QED BY Zenon, <3>1 DEF Compiled, MadeFrom
  <2>2. /\ \A t \in scenario.hosts : t.wild \in BOOLEAN /\ IsName(t.name)
        /\ \A t \in scenario.ips : t.form \in {"ip", "cidr", "bad"} /\ t.fam \in {"v4", "mapped", "v6"}
    BY Zenon, ScenarioAssumption, NamesAre DEF Compiled
  <2>3. pol.enabled <=> ~ noList
    <3>1. (\E t \in scenario.hosts : ~ SkippedHost(t)) <=> pol.exactHosts \cup pol.wildSuffixes # {}
      <4>1. ASSUME NEW t \in scenario.hosts, ~ SkippedHost(t)
            PROVE  ToLower(t.name) \in pol.exactHosts \cup pol.wildSuffixes
        BY Zenon, <2>1, <4>1
      <4>2. ASSUME NEW x \in pol.exactHosts \cup pol.wildSuffixes
            PROVE  \E t \in scenario.hosts : ~ SkippedHost(t)
        BY Zenon, <2>1, <4>2 DEF SkippedHost
      <4> QED BY Zenon, <4>1, <4>2
    <3> QED BY Zenon, <2>1, <3>1
  <2>4. NetsContain(pol.ips \cup pol.nets, e.dst) <=> listedAddr
    <3>1. ASSUME NEW t \in scenario.ips
          PROVE  /\ t.fam # "v6" <=> t.fam \in {"v4", "mapped"}
                 /\ t.form = "ip" \/ t.form = "cidr"
      BY Zenon, <2>1, <2>2
    <3>2. \A net : net \in pol.ips \cup pol.nets <=>
                     \E t \in scenario.ips : t.fam # "v6" /\ net = t.hosts
      BY Zenon, <2>1, <3>1 DEF Hosts4
    <3>3. ASSUME NEW net \in pol.ips \cup pol.nets, e.dst.host \in net
          PROVE  \E t \in scenario.ips : t.fam # "v6" /\ e.dst.host \in t.hosts
      <4>1. PICK t \in scenario.ips : t.fam # "v6" /\ net = t.hosts
        BY Zenon, <3>2
      <4> QED BY Zenon, <3>3, <4>1
    <3>4. ASSUME NEW t \in scenario.ips, t.fam # "v6", e.dst.host \in t.hosts
          PROVE  \E net \in pol.ips \cup pol.nets : e.dst.host \in net
      BY Zenon, <3>2, <3>4
    <3> QED BY Zenon, <3>3, <3>4 DEF NetsContain
  <2>5. NetsContain(pol.ignored, e.dst) <=> ignored
    <3>1. \A net : net \in pol.ignored <=>
                     \/ scenario.defaults /\ net \in DefaultIgnored
                     \/ \E t \in scenario.ignored : net = t.hosts
      BY Zenon, <2>1 DEF MergeIgnored
    <3>2. ASSUME v4, NEW net \in pol.ignored, e.dst.host \in net PROVE ignored
      <4>1. CASE scenario.defaults /\ net \in DefaultIgnored
        BY Zenon, <3>2, <4>1
      <4>2. CASE \E t \in scenario.ignored : net = t.hosts
        BY Zenon, <3>2, <4>2
      <4> QED BY Zenon, <3>1, <4>1, <4>2
    <3>3. ASSUME ignored PROVE v4 /\ \E net \in pol.ignored : e.dst.host \in net
      BY Zenon, <3>1, <3>3
    <3> QED BY Zenon, <3>2, <3>3 DEF NetsContain
  <2>6. ToLower(e.name).labels # NoLabels /\ match <=> listedName
    BY Zenon, <2>1, <2>2, <1>NameMatch
  <2>7. listedAddr => ~ noList
    BY Zenon
  <2>8. listedName => ~ noList
    BY Zenon DEF CoveredBy
  <2> DEFINE empty == ToLower(e.name).labels = NoLabels
             la == pol.enabled /\ NetsContain(pol.ips \cup pol.nets, e.dst)
             ig == NetsContain(pol.ignored, e.dst)
             on == pol.enabled
  <2>9. e.policy = IF la THEN "allowed" ELSE IF ig THEN "ignored"
                   ELSE IF ~ on THEN "monitor"
                   ELSE IF empty THEN "unknown"
                   ELSE IF match THEN "allowed" ELSE "not_listed"
    <3>1. e.policy = Classify(pol, e.name, e.dst)
      OBVIOUS
    <3> QED BY Zenon, <3>1, <1>ClassChain
  <2>10. /\ la <=> listedAddr
         /\ ig <=> ignored
         /\ on <=> ~ noList
         /\ ~ empty /\ match <=> listedName
    BY Zenon, <2>3, <2>4, <2>5, <2>6, <2>7
  <2>11. MeansList(scenario, e) <=>
           /\ e.policy = "allowed" <=> listedAddr \/ (~ ignored /\ listedName)
           /\ e.policy = "ignored" <=> ignored /\ ~ listedAddr
           /\ e.policy = "monitor" <=> noList /\ ~ ignored
    BY Zenon DEF MeansList
  <2> HIDE DEF listedAddr, ignored, listedName, noList, match, empty, la, ig, on
  <2> QED BY Zenon, <2>7, <2>8, <2>9, <2>10, <2>11
<1>Sanitized. ASSUME NEW name, IsName(name)
              PROVE  IsName(Sanitize(name)) /\ Sanitize(name).size = "fits"
  <2> USE <1>Sanitized
  <2>1. CASE name.size = "fits"
    BY Zenon, <2>1 DEF Sanitize
  <2>2. CASE name.size # "fits"
    <3>1. PICK l, u, d, z :
            name = [labels |-> l, upper |-> u, dot |-> d, size |-> z] /\ IsSeq(l)
      BY DEF IsName
    <3> DEFINE m == [l EXCEPT ![Len(l)] = "cut"]
    <3>2. IsSeq(m)
      <4>1. PICK S : l \in Seq(S)
        BY <3>1 DEF IsSeq
      <4>2. PICK T : T = S \cup {"cut"}
        BY Zenon
      <4>3. "cut" \in T /\ l \in Seq(T)
        BY <4>1, <4>2
      <4>4. PICK k \in Nat : l \in [1..k -> T]
        BY <4>3
      <4>5. m \in [1..k -> T]
        BY Zenon, <4>3, <4>4
      <4> HIDE DEF m
      <4>6. m \in Seq(T)
        BY <4>5
      <4> QED BY ZenonT(40), <4>6 DEF IsSeq
    <3>3. Sanitize(name) = [labels |-> m, upper |-> u, dot |-> d, size |-> "fits"]
      BY Zenon, <2>2, <3>1 DEF Sanitize
    <3> HIDE DEF m
    <3> QED BY SMTT(20), <3>2, <3>3 DEF IsName
  <2> QED BY <2>1, <2>2
<1>JudgedRight. ASSUME Compiled, NEW e, Judged(e), IsName(e.sent)
                PROVE  MeansList(scenario, e)
  BY Zenon, <1>JudgedRight, <1>Sanitized, <1>ClassMeans DEF Judged
\* The lines of a sequence of one line, and of two.
<1>OneLine. \A lines, e : lines = <<e>> => \A i \in DOMAIN lines : lines[i] = e
  OBVIOUS
<1>TwoLines. \A lines, e, q : lines = <<e, q>> => \A i \in DOMAIN lines : lines[i] = e \/ lines[i] = q
  OBVIOUS
\* The lines of a record have the right class.
<1>OutcomeRight. ASSUME Compiled, Buffered, NEW r \in Rings, NEW s, IsName(s.chunk.name), NEW stamp,
                        NEW o \in Outcomes(r, s, stamp), NEW i \in DOMAIN o.lines
                 PROVE  RightClass(scenario, o.lines[i])
  <2> USE <1>OutcomeRight
  <2>1. Shape(r, s, o)
    BY OutcomeShape
  <2>2. \A a \in scenario.answers : IsName(a)
    BY Zenon, ScenarioAssumption, NamesAre DEF Compiled
  <2>3. ASSUME NEW e, o.lines = <<e>>, RightClass(scenario, e)
        PROVE  RightClass(scenario, o.lines[i])
    <3>1. o.lines[i] = e
      BY Zenon, <2>3, <1>OneLine
    <3> QED BY ZenonT(40), <2>3, <3>1
  <2>4. ASSUME NEW type \in PlainTypes \cup {"io_uring_tls", "quic_candidate"}, NEW e, e.type = type
        PROVE  RightClass(scenario, e)
    <3>1. type \notin {"tcp", "udp", "http", "tls"}
      BY PlainTypeList
    <3> QED BY <2>4, <3>1 DEF RightClass
  <2>5. ASSUME NEW e, Judged(e), e.sent \in scenario.answers \cup {s.chunk.name}
        PROVE  RightClass(scenario, e)
    BY Zenon, <2>2, <2>5, <1>JudgedRight DEF RightClass
  <2>6. CASE o.lines = << >>
    BY <2>6
  <2>7. CASE \E type \in PlainTypes : o.lines = <<Event(type)>>
    BY Zenon, <2>3, <2>4, <2>7, EventType
  <2>8. CASE \E e : e.type = "io_uring_tls" /\ o.lines = <<e>>
    BY Zenon, <2>3, <2>4, <2>8
  <2>9. CASE \E e : Judged(e) /\ e.sent \in scenario.answers \cup {s.chunk.name} /\ o.lines = <<e>>
    BY Zenon, <2>3, <2>5, <2>9
  <2>10. CASE \E e : /\ Judged(e) /\ e.sent \in scenario.answers
                     /\ o.lines = <<e, Event("quic_candidate")>>
    <3>1. PICK e : /\ Judged(e) /\ e.sent \in scenario.answers
                   /\ o.lines = <<e, Event("quic_candidate")>>
      BY ZenonT(40), <2>10
    <3>2. PICK q : q = Event("quic_candidate")
      OBVIOUS
    <3>3. o.lines = <<e, q>>
      BY Zenon, <3>1, <3>2
    <3>4. o.lines[i] = e \/ o.lines[i] = q
      BY <3>3, <1>TwoLines
    <3>5. RightClass(scenario, q)
      BY Zenon, <2>4, <3>2, EventType
    <3> QED BY Zenon, <2>5, <3>1, <3>4, <3>5
  <2>11. CASE r = "tls" /\ \E e : Judged(e) /\ o.lines = <<e>>
    <3>1. PICK e : Judged(e) /\ o.lines = <<e>>
      BY Zenon, <2>11
    <3>2. o.lines # << >> /\ o.lines[1] = e
      BY <3>1
    <3>3. e.sent = s.chunk.name
      BY Zenon, <2>11, <3>2, TlsFeeds
    <3> QED BY Zenon, <2>3, <2>5, <3>1, <3>3
  <2> QED BY Zenon, <2>1, <2>6, <2>7, <2>8, <2>9, <2>10, <2>11
        DEF Shape, Dropping, Leaving, Capping, Noting
\* A step moves at most one reader, and none that is done.
<1>OneReaderMoves. ASSUME Holding, [Next]_vars
                   PROVE  UNCHANGED pc \/ \E r \in Rings : \E loc : pc[r] # "exit" /\ pc' = [pc EXCEPT ![r] = loc]
  <2> USE <1>OneReaderMoves
  <2>1. ASSUME NEW r \in Rings, Handle(r)
        PROVE  pc[r] # "exit" /\ \E loc : pc' = [pc EXCEPT ![r] = loc]
    <3>1. pc[r] = "handle" /\ \E loc : pc' = [pc EXCEPT ![r] = loc]
      BY Zenon, <2>1 DEF Handle, Goto
    <3> QED BY Zenon, <3>1
  <2>2. ASSUME NEW r \in Rings, AppendLine(r) \/ AppendFails(r)
        PROVE  pc[r] # "exit" /\ \E loc : pc' = [pc EXCEPT ![r] = loc]
    <3>1. pc[r] = "append" /\ \E loc : pc' = [pc EXCEPT ![r] = loc]
      BY Zenon, <2>2 DEF AppendLine, AppendFails, LineDone, Goto
    <3> QED BY Zenon, <3>1
  <2>3. "read" # "exit" /\ "lock" # "exit"
    OBVIOUS
  <2> QED BY Zenon, <2>1, <2>2, <2>3, StepSorts DEF Aside, Goto
\* Records of the scenario and of the canary carry names.
<1>SamplesNamed. ASSUME Ruled, [Next]_vars
                 PROVE  cur' = [r \in Rings |-> cur'[r]] /\ \A r \in Rings : IsName(cur'[r].sample.chunk.name)
  <2> USE <1>SamplesNamed
  <2> USE DEF readerVars
  <2>1. IsName(NoName)
    BY DEF IsName, IsSeq, NoName, Name, NoLabels
  <2>2. ASSUME NEW r \in Rings, NEW x, cur' = [cur EXCEPT ![r] = x], IsName(x.sample.chunk.name)
        PROVE  cur' = [q \in Rings |-> cur'[q]] /\ \A q \in Rings : IsName(cur'[q].sample.chunk.name)
    <3>1. cur' = [q \in Rings |-> cur'[q]] /\ cur'[r] = x /\ \A q \in Rings \ {r} : cur'[q] = cur[q]
      BY <2>2 DEF Ruled
    <3> QED BY Zenon, <2>2, <3>1 DEF Ruled
  <2>3. ASSUME NEW r \in Rings, Read(r)
        PROVE  cur' = [q \in Rings |-> cur'[q]] /\ \A q \in Rings : IsName(cur'[q].sample.chunk.name)
    <3>1. ASSUME NEW s \in scenario.samples[r],
                 cur' = [cur EXCEPT ![r] = [sample |-> s, stamp |-> clock]]
          PROVE  cur' = [q \in Rings |-> cur'[q]] /\ \A q \in Rings : IsName(cur'[q].sample.chunk.name)
      <4>1. r \in DOMAIN scenario.samples
        <5>1. pc[r] = "read"
          BY Zenon, <2>3 DEF Read
        <5>2. pc[r] # "exit"
          BY <5>1
        <5> QED BY Zenon, <5>2 DEF Ruled
      <4>2. IsName(s.chunk.name)
        BY Zenon, <4>1, ScenarioAssumption, NamesAre DEF Ruled, Compiled
      <4>3. PICK x : x = [sample |-> s, stamp |-> clock]
        BY Zenon
      <4>4. x.sample = s
        BY <4>3
      <4> QED BY Zenon, <2>2, <3>1, <4>2, <4>3, <4>4
    <3>2. ASSUME NEW nr, NEW t, cur' = [cur EXCEPT ![r] =
                   [sample |-> [Record("canary") EXCEPT !.seqNr = nr], stamp |-> t]]
          PROVE  cur' = [q \in Rings |-> cur'[q]] /\ \A q \in Rings : IsName(cur'[q].sample.chunk.name)
      <4>1. PICK x : x = [sample |-> [Record("canary") EXCEPT !.seqNr = nr], stamp |-> t]
        BY Zenon
      <4>2. x.sample.chunk.name = NoName
        BY <4>1 DEF Record, NoChunk
      <4> QED BY Zenon, <2>1, <2>2, <3>2, <4>1, <4>2
    <3> QED BY Zenon, <2>3, <3>1, <3>2 DEF Read
  <2>4. ASSUME NEW r \in Rings, Handle(r)
        PROVE  cur' = [q \in Rings |-> cur'[q]] /\ \A q \in Rings : IsName(cur'[q].sample.chunk.name)
    <3>1. cur' = [cur EXCEPT ![r] = Nothing]
      BY Zenon, <2>4 DEF Handle
    <3>2. Nothing.sample.chunk.name = NoName
      BY Zenon DEF Nothing, Record, NoChunk
    <3> QED BY Zenon, <2>1, <2>2, <3>1, <3>2
  <2>5. CASE UNCHANGED cur
    BY Zenon, <2>5 DEF Ruled
  <2>6. ASSUME NEW r \in Rings, ReadFails(r) \/ ReaderExits(r) \/ LockAndNumber(r)
                                \/ AppendLine(r) \/ AppendFails(r)
        PROVE  UNCHANGED cur
    BY Zenon, <2>6 DEF ReadFails, ReaderExits, LockAndNumber, AppendLine, AppendFails
  <2>7. CASE Tick \/ Scribble \/ CanaryTick \/ EchoCanary \/ Cancel \/ Join
             \/ WriteShutdownTelemetry \/ UNCHANGED vars
    <3>1. UNCHANGED cur
      BY Zenon, <2>7 DEF Tick, Scribble, CanaryTick, EchoCanary, Cancel, Join,
           WriteShutdownTelemetry, vars
    <3> QED BY <2>5, <3>1
  <2> QED BY Zenon, <2>3, <2>4, <2>5, <2>6, <2>7 DEF Next
\* The file takes a line with the right class.
<1>TakesRight. ASSUME NEW x, IsSeq(log), \A i \in 1..Len(log) : RightClass(x, log[i].event),
                      NEW line, RightClass(x, line.event), FileTakes(line)
               PROVE  IsSeq(log') /\ \A i \in 1..Len(log') : RightClass(x, log'[i].event)
  <2> USE <1>TakesRight
  <2>1. CASE log' = log
    BY Zenon, <2>1
  <2>2. CASE log' = Append(log, line)
    <3>1. PICK l \in Nat : l = Len(log)
      <4>1. Len(log) \in Nat
        BY Zenon, LenType
      <4> QED BY Zenon, <4>1
    <3>2. /\ IsSeq(log') /\ Len(log') = l + 1
          /\ \A i \in 1..l : log'[i] = log[i]
          /\ log'[l + 1] = line
      <4>1. IsSeq(log)
        BY Zenon
      <4> QED BY ZenonT(40), <2>2, <3>1, <4>1, LineAdded
    <3>3. \A i \in 1..(l + 1) : i \in 1..l \/ i = l + 1
      BY <3>1
    <3> QED BY Zenon, <3>1, <3>2, <3>3
  <2> QED BY Zenon, <2>1, <2>2 DEF FileTakes
\* The lines left after one is dealt with.
<1>RestRight. ASSUME Ruled, Holding, NEW r \in Rings, pc[r] = "append", LineDone(r)
              PROVE  /\ RightClass(scenario, Head(out[r]))
                     /\ \A q \in Rings : \A i \in DOMAIN out'[q] : RightClass(scenario, out'[q][i])
  <2> USE <1>RestRight
  <2>1. ASSUME NEW rest, NEW e, out' = [out EXCEPT ![r] = rest], e = Head(out[r]), e = out[r][1],
               1 \in DOMAIN out[r],
               \A i \in DOMAIN rest : RightClass(scenario, rest[i])
        PROVE  /\ RightClass(scenario, Head(out[r]))
               /\ \A q \in Rings : \A i \in DOMAIN out'[q] : RightClass(scenario, out'[q][i])
    <3>1. out'[r] = rest /\ \A q \in Rings \ {r} : out'[q] = out[q]
      BY <2>1 DEF Holding
    <3> QED BY Zenon, <2>1, <3>1 DEF Ruled
  <2>2. PICK e : /\ e.type \in Types /\ Head(out[r]) = e
                 /\ \/ out[r] = <<e>> /\ out' = [out EXCEPT ![r] = << >>]
                    \/ /\ out[r] = <<e, Event("quic_candidate")>>
                       /\ out' = [out EXCEPT ![r] = <<Event("quic_candidate")>>]
    BY Zenon, LineEnds
  <2>3. CASE out[r] = <<e>> /\ out' = [out EXCEPT ![r] = << >>]
    <3>1. e = out[r][1] /\ 1 \in DOMAIN out[r] /\ DOMAIN << >> = {}
      BY <2>3
    <3> QED BY Zenon, <2>1, <2>2, <2>3, <3>1
  <2>4. CASE /\ out[r] = <<e, Event("quic_candidate")>>
             /\ out' = [out EXCEPT ![r] = <<Event("quic_candidate")>>]
    <3>1. PICK q : q = Event("quic_candidate")
      OBVIOUS
    <3>2. e = out[r][1] /\ 1 \in DOMAIN out[r] /\ 2 \in DOMAIN out[r] /\ out[r][2] = q
      BY SMTT(20), <2>4, <3>1
    <3>3. \A i \in DOMAIN <<q>> : <<q>>[i] = q
      OBVIOUS
    <3>4. RightClass(scenario, q)
      BY Zenon, <3>2 DEF Ruled
    <3>5. \A i \in DOMAIN <<q>> : RightClass(scenario, <<q>>[i])
      BY Zenon, <3>3, <3>4
    <3>6. out' = [out EXCEPT ![r] = <<q>>]
      BY Zenon, <2>4, <3>1
    <3> QED BY Zenon, <2>1, <2>2, <3>2, <3>5, <3>6
  <2> QED BY Zenon, <2>2, <2>3, <2>4
<1> SUFFICES ASSUME Ruled, Holding, Buffered, [Next]_vars
             PROVE  Ruled'
  OBVIOUS
<1> DEFINE Written(lines) == IsSeq(lines) /\ \A i \in 1..Len(lines) : RightClass(scenario, lines[i].event)
           Waiting(o) == \A r \in Rings : \A i \in DOMAIN o[r] : RightClass(scenario, o[r][i])
<1>1. SUFFICES UNCHANGED <<scenario, pol>> /\ Waiting(out') /\ Written(log')
  <2>1. \A r \in Rings : pc'[r] # "exit" => r \in DOMAIN scenario.samples
    <3>1. CASE UNCHANGED pc
      BY Zenon, <3>1 DEF Ruled
    <3>2. ASSUME NEW r \in Rings, NEW loc, pc[r] # "exit", pc' = [pc EXCEPT ![r] = loc]
          PROVE  \A q \in Rings : pc'[q] # "exit" => q \in DOMAIN scenario.samples
      <4>1. \A q \in Rings \ {r} : pc'[q] = pc[q]
        BY <3>2 DEF Holding
      <4> QED BY Zenon, <3>2, <4>1 DEF Ruled
    <3> QED BY Zenon, <3>1, <3>2, <1>OneReaderMoves
  <2>2. cur' = [r \in Rings |-> cur'[r]] /\ \A r \in Rings : IsName(cur'[r].sample.chunk.name)
    BY Zenon, <1>SamplesNamed
  <2>3. Compiled'
    BY Zenon, <1>1 DEF Ruled, Compiled
  <2> QED BY Zenon, <1>1, <2>1, <2>2, <2>3 DEF Ruled
<1>2. Waiting(out) /\ Written(log)
  BY Zenon DEF Ruled
<1>3. ASSUME NEW r \in Rings, Handle(r)
      PROVE  UNCHANGED <<scenario, pol>> /\ Waiting(out') /\ Written(log')
  <2>1. PICK o \in Outcomes(r, cur[r].sample, cur[r].stamp), writes \in BOOLEAN :
          /\ out' = [out EXCEPT ![r] = IF writes THEN o.lines ELSE << >>]
          /\ UNCHANGED <<scenario, pol, log>>
    BY Zenon, <1>3, HandleParts
  <2>2. \A i \in DOMAIN o.lines : RightClass(scenario, o.lines[i])
    BY Zenon, <1>OutcomeRight DEF Ruled
  <2>3. out'[r] \in {o.lines, << >>} /\ \A q \in Rings \ {r} : out'[q] = out[q]
    BY <2>1 DEF Holding
  <2>4. \A i \in DOMAIN << >> : FALSE
    OBVIOUS
  <2>5. \A i \in DOMAIN out'[r] : RightClass(scenario, out'[r][i])
    BY Zenon, <2>2, <2>3, <2>4
  <2>6. Waiting(out')
    BY Zenon, <1>2, <2>3, <2>5
  <2>7. Written(log')
    BY Zenon, <1>2, <2>1
  <2> QED BY Zenon, <2>1, <2>6, <2>7
<1>4. ASSUME NEW r \in Rings, AppendLine(r) \/ AppendFails(r)
      PROVE  UNCHANGED <<scenario, pol>> /\ Waiting(out') /\ Written(log')
  <2>1. /\ pc[r] = "append" /\ LineDone(r) /\ UNCHANGED <<scenario, pol>>
        /\ log' = log \/ FileTakes([seq |-> seq, event |-> Head(out[r])])
    BY Zenon, <1>4 DEF AppendLine, AppendFails, given
  <2>2. RightClass(scenario, Head(out[r])) /\ Waiting(out')
    BY Zenon, <2>1, <1>RestRight
  <2>3. PICK line : line = [seq |-> seq, event |-> Head(out[r])]
    BY Zenon
  <2>4. line.event = Head(out[r])
    BY <2>3
  <2>5. CASE log' = log
    BY Zenon, <1>2, <2>1, <2>2, <2>5
  <2>6. CASE FileTakes(line)
    BY Zenon, <1>2, <2>1, <2>2, <2>4, <2>6, <1>TakesRight
  <2> QED BY Zenon, <2>1, <2>3, <2>5, <2>6
<1>5. CASE Aside
  <2>1. UNCHANGED <<scenario, pol, out>>
    BY Zenon, <1>5 DEF Aside
  <2>2. \/ log' = log
        \/ FileTakes(MetaLine("", 0, log))
    BY Zenon, <1>5 DEF Aside, Scribble, WriteShutdownTelemetry
  <2>3. PICK line : line = MetaLine("", 0, log)
    BY Zenon
  <2>4. RightClass(scenario, line.event)
    <3>1. line.event.type = "meta"
      BY Zenon, <2>3 DEF MetaLine
    <3> QED BY <3>1 DEF RightClass
  <2>5. CASE log' = log
    BY Zenon, <1>2, <2>1, <2>5
  <2>6. CASE FileTakes(line)
    BY Zenon, <1>2, <2>1, <2>4, <2>6, <1>TakesRight
  <2> QED BY Zenon, <2>2, <2>3, <2>5, <2>6
<1> QED BY Zenon, <1>3, <1>4, <1>5, StepSorts

LEMMA RuledInit == Init => Ruled
<1> SUFFICES ASSUME Init PROVE Ruled
  OBVIOUS
<1>1. /\ Compiled
      /\ pc = [r \in Rings |-> IF r \in Active THEN "read" ELSE "exit"]
      /\ cur = [r \in Rings |-> Nothing] /\ out = [r \in Rings |-> << >>]
  BY Zenon DEF Init, Compiled
<1>2. IsName(Nothing.sample.chunk.name)
  <2>1. Nothing.sample.chunk.name = NoName
    BY Zenon DEF Nothing, Record, NoChunk
  <2>2. IsName(NoName)
    BY DEF IsName, IsSeq, NoName, Name, NoLabels
  <2> QED BY Zenon, <2>1, <2>2
<1>3. \A r \in Rings : pc[r] # "exit" => r \in DOMAIN scenario.samples
  BY Zenon, <1>1 DEF Active
<1>4. cur = [r \in Rings |-> cur[r]] /\ \A r \in Rings : IsName(cur[r].sample.chunk.name)
  <2>1. \A r \in Rings : cur[r] = Nothing
    BY Zenon, <1>1
  <2>2. cur = [r \in Rings |-> cur[r]]
    BY <1>1
  <2> QED BY Zenon, <1>2, <2>1, <2>2
<1>5. \A r \in Rings : \A i \in DOMAIN out[r] : RightClass(scenario, out[r][i])
  <2>1. \A i \in DOMAIN << >> : FALSE
    OBVIOUS
  <2> QED BY Zenon, <1>1, <2>1
<1>6. \A i \in 1..Len(log) : RightClass(scenario, log[i].event)
  <2>1. CASE log = << >>
    BY <2>1
  <2>2. CASE log = <<MetaLine(scenario.env, scenario.allowlist, << >>)>>
    <3>1. PICK line : line = MetaLine(scenario.env, scenario.allowlist, << >>)
      OBVIOUS
    <3>2. RightClass(scenario, line.event)
      <4>1. line.event.type = "meta"
        BY <3>1 DEF MetaLine
      <4> QED BY ZenonT(40), <4>1 DEF RightClass
    <3>3. log = <<line>>
      BY Zenon, <2>2, <3>1
    <3> QED BY <3>2, <3>3
  <2> QED BY Zenon, <2>1, <2>2 DEF Init
<1>7. IsSeq(log)
  BY Zenon, LockedInit DEF Locked
<1> QED BY Zenon, <1>1, <1>3, <1>4, <1>5, <1>6, <1>7 DEF Ruled

\* The class in every line of the log is what the allow and ignore lists say of its
\* destination, for any lists, any order of their tokens and any name.
THEOREM ClassesMeanLists == Spec => []PolicyMeansList
<1> DEFINE Inv == /\ Timed /\ Buffered /\ Holding /\ Ruled
                  /\ \A j \in 1..Len(hellos) : JoinedRight(j)
<1>1. Init => Inv
  <2> SUFFICES ASSUME Init PROVE Inv
    BY Zenon
  <2>1. hellos = << >> /\ tlsStore = {}
    BY Zenon DEF Init
  <2>2. Buffered /\ \A j \in 1..Len(hellos) : JoinedRight(j)
    BY <2>1 DEF Buffered, IsSeq
  <2> QED BY Zenon, <2>2, TimedInit, HoldingInit, RuledInit
<1>2. Inv /\ [Next]_vars => Inv'
  <2> SUFFICES ASSUME Inv, [Next]_vars PROVE Inv'
    OBVIOUS
  <2> QED BY Zenon, TimedStep, BufferedStep, HoldingStep, RuledStep
<1>3. Inv => PolicyMeansList
  <2> SUFFICES ASSUME Inv, NEW line \in Classified PROVE MeansList(scenario, line.event)
    BY Zenon DEF PolicyMeansList
  <2>1. PICK i \in 1..Len(log) : line = log[i]
    BY DEF Classified, Range, Ruled, IsSeq
  <2>2. line.event.type \in {"tcp", "udp", "http", "tls"}
    BY Zenon DEF Classified
  <2> QED BY Zenon, <2>1, <2>2 DEF Ruled, RightClass
<1> HIDE DEF Inv
<1> QED BY <1>1, <1>2, <1>3, PTL DEF Spec

=============================================================================
