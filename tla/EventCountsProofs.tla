-------------------------- MODULE EventCountsProofs -------------------------
(***************************************************************************)
(* The counters of the agent, its drop counters and its log agree at every *)
(* moment, for any scenario and any interleaving of the readers.           *)
(*                                                                         *)
(* The count of a type changes with the place where a line of that type is *)
(* (Whereabouts): with its reader, in the log, swallowed by a broken line, *)
(* or dropped.  A record is entered once (Entered), so that the sums of    *)
(* the counters follow the number of records read.  Lines and sums are     *)
(* counted as sets, with a few facts about finite sets that the library    *)
(* proves (at the end of this module).                                     *)
(***************************************************************************)
EXTENDS EventReadersProofs

-----------------------------------------------------------------------------
(* The counters of lines.                                                  *)

Extras == {"full", "partial", "unknown", "unknown_ktls", "quic_observed", "confirmed", "refused"}

\* Counters of lines are no others; types share a counter when they share a drop kind.
LEMMA CounterFacts ==
  /\ \A type \in Types : CounterOf(type) \notin Extras
  /\ \A type \in Types : CounterOf(type) = "fs_event" <=> type = "fs_event"
  /\ \A type \in Types : CounterOf(type) = "udp" <=> type = "udp"
  /\ \A type \in Types : CounterOf(type) = "quic_candidate" <=> type = "quic_candidate"
  /\ \A type \in Types : CounterOf(type) = "io_uring_tls" <=> type = "io_uring_tls"
  /\ \A type \in Types \ {"io_uring_tls"} : CounterOf(type) \in Counters
<1>1. \A type \in Types \ {"io_uring_tls"} : CounterOf(type) \in Counters
  BY Zenon DEF Counters
<1> QED BY <1>1, TypeList DEF CounterOf, Extras

-----------------------------------------------------------------------------
(* Finite sets.                                                            *)

\* What is used of finite sets below; the library's theorems, at the end of this module.
FiniteSetFacts ==
  /\ IsFiniteSet({}) /\ Cardinality({}) = 0
  /\ \A S : IsFiniteSet(S) => Cardinality(S) \in Nat /\ (Cardinality(S) = 0 <=> S = {})
  /\ \A S, x : IsFiniteSet(S) =>
       /\ IsFiniteSet(S \cup {x})
       /\ Cardinality(S \cup {x}) = IF x \in S THEN Cardinality(S) ELSE Cardinality(S) + 1
  /\ \A S, x : IsFiniteSet(S) =>
       /\ IsFiniteSet(S \ {x})
       /\ Cardinality(S \ {x}) = IF x \in S THEN Cardinality(S) - 1 ELSE Cardinality(S)
  /\ \A S, T : IsFiniteSet(S) /\ T \subseteq S =>
       IsFiniteSet(T) /\ Cardinality(T) <= Cardinality(S)
  /\ \A a, b \in Int : IsFiniteSet(a..b)
  /\ \A S, T : IsFiniteSet(S) /\ IsFiniteSet(T) =>
       /\ IsFiniteSet(S \cup T)
       /\ S \cap T = {} => Cardinality(S \cup T) = Cardinality(S) + Cardinality(T)

\* A cardinality is a number, and zero only for the empty set.
LEMMA CardinalityType ==
  ASSUME FiniteSetFacts, NEW S, IsFiniteSet(S)
  PROVE  Cardinality(S) \in Nat /\ (Cardinality(S) = 0 <=> S = {})
BY Zenon DEF FiniteSetFacts

\* The empty set is finite and has no elements.
LEMMA CardinalityEmpty == FiniteSetFacts => IsFiniteSet({}) /\ Cardinality({}) = 0
BY Zenon DEF FiniteSetFacts

\* One more element.
LEMMA CardinalityAdd ==
  ASSUME FiniteSetFacts, NEW S, NEW x, IsFiniteSet(S)
  PROVE  /\ IsFiniteSet(S \cup {x})
         /\ Cardinality(S \cup {x}) =
              IF x \in S THEN Cardinality(S) ELSE Cardinality(S) + 1
BY Zenon DEF FiniteSetFacts

\* One element less.
LEMMA CardinalityRemove ==
  ASSUME FiniteSetFacts, NEW S, NEW x, IsFiniteSet(S)
  PROVE  /\ IsFiniteSet(S \ {x})
         /\ Cardinality(S \ {x}) =
              IF x \in S THEN Cardinality(S) - 1 ELSE Cardinality(S)
BY Zenon DEF FiniteSetFacts

\* A subset of a finite set is finite and no larger.
LEMMA CardinalitySubset ==
  ASSUME FiniteSetFacts, NEW S, IsFiniteSet(S), NEW T \in SUBSET S
  PROVE  IsFiniteSet(T) /\ Cardinality(T) <= Cardinality(S)
BY Zenon DEF FiniteSetFacts

LEMMA FiniteRings ==
  ASSUME FiniteSetFacts
  PROVE  IsFiniteSet(Rings)
<1>FiniteFour. ASSUME NEW a, NEW b, NEW c, NEW d
               PROVE  IsFiniteSet({a, b, c, d})
  <2> USE <1>FiniteFour
  <2>1. IsFiniteSet({a} \cup {b} \cup {c} \cup {d})
    <3>1. IsFiniteSet({a})
      <4>1. IsFiniteSet({} \cup {a}) /\ {} \cup {a} = {a}
        BY Zenon, CardinalityEmpty, CardinalityAdd
      <4> QED BY <4>1
    <3> QED BY Zenon, <3>1, CardinalityAdd
  <2>2. {a} \cup {b} \cup {c} \cup {d} = {a, b, c, d}
    BY Zenon
  <2> QED BY <2>1, <2>2
\* A union of two finite sets.
<1>CardinalityUnion. ASSUME NEW S, NEW T, IsFiniteSet(S), IsFiniteSet(T)
                     PROVE  /\ IsFiniteSet(S \cup T)
                            /\ S \cap T = {} => Cardinality(S \cup T) = Cardinality(S) + Cardinality(T)
  BY Zenon, <1>CardinalityUnion DEF FiniteSetFacts
<1> DEFINE A == {"exec", "fork", "fs", "tcp"}
           B == {"tls", "udp", "http", "dns"}
           C == {"ktls", "tcp_state", "io_uring", "io_uring_tls"}
           D == {"egress_backstop", "bpf_self_defense", "bpf_audit", "ipv6_obs"}
<1>1. IsFiniteSet(A) /\ IsFiniteSet(B) /\ IsFiniteSet(C) /\ IsFiniteSet(D)
  BY Zenon, <1>FiniteFour
<1>2. Rings = A \cup B \cup C \cup D
  BY DEF Rings
<1> HIDE DEF A, B, C, D
<1>3. IsFiniteSet(A \cup B \cup C \cup D)
  BY Zenon, <1>1, <1>CardinalityUnion
<1> QED BY <1>2, <1>3

-----------------------------------------------------------------------------
(* Sums of counters.                                                       *)

\* The things that Sum counts.
Units(counts, S) == UNION {{c} \X (1..counts[c]) : c \in S}

\* How many of S (none or one) are in T.
Hits(T, S, k) ==
  \/ k = 0 /\ \A x \in S : x \notin T
  \/ k = 1 /\ \E c \in S : \A x \in S : x \in T <=> x = c

\* A sum grows by the one of its counters that is added to.
LEMMA SumAdd ==
  ASSUME FiniteSetFacts, NEW D, NEW counts \in [D -> Nat], NEW S \in SUBSET D,
         IsFiniteSet(Units(counts, S)), NEW T, NEW k, Hits(T, S, k)
  PROVE  /\ Sum(counts, S) \in Nat
         /\ IsFiniteSet(Units(Add(counts, T), S))
         /\ Sum(Add(counts, T), S) = Sum(counts, S) + k
<1> DEFINE U == Units(counts, S)
           V == Units(Add(counts, T), S)
<1>1. Sum(counts, S) = Cardinality(U) /\ Sum(Add(counts, T), S) = Cardinality(V)
  BY Zenon DEF Sum, Units
<1>2. Cardinality(U) \in Nat
  BY Zenon, CardinalityType
<1>3. \A c \in S : Add(counts, T)[c] = counts[c] + (IF c \in T THEN 1 ELSE 0) /\ counts[c] \in Nat
  BY DEF Add
<1>4. CASE k = 0 /\ \A x \in S : x \notin T
  <2>1. \A c \in S : Add(counts, T)[c] = counts[c]
    BY <1>3, <1>4
  <2>2. U = V
    BY Zenon, <2>1 DEF Units
  <2> QED BY <1>1, <1>2, <1>4, <2>2
<1>5. ASSUME NEW c \in S, \A x \in S : x \in T <=> x = c, k = 1
      PROVE  IsFiniteSet(V) /\ Cardinality(V) = Cardinality(U) + 1
  <2>1. /\ counts[c] \in Nat /\ Add(counts, T)[c] = counts[c] + 1
        /\ \A x \in S \ {c} : Add(counts, T)[x] = counts[x]
    BY <1>3, <1>5
  <2> DEFINE last == counts[c] + 1
  <2>2. last \notin 1..counts[c] /\ 1..Add(counts, T)[c] = (1..counts[c]) \cup {last}
    BY <2>1
  <2> HIDE DEF last
  <2>3. <<c, last>> \notin U
    <3> SUFFICES ASSUME <<c, last>> \in U PROVE FALSE
      OBVIOUS
    <3>1. PICK x \in S : <<c, last>> \in {x} \X (1..counts[x])
      BY Zenon DEF Units
    <3>2. x = c /\ last \in 1..counts[x]
      BY <3>1
    <3> QED BY Zenon, <2>2, <3>2
  <2>4. V = U \cup {<<c, last>>}
    <3>1. ASSUME NEW u \in V PROVE u \in U \cup {<<c, last>>}
      <4>1. PICK x \in S : u \in {x} \X (1..Add(counts, T)[x])
        BY Zenon DEF Units
      <4>2. CASE x = c
        <5>1. u \in {c} \X (1..counts[c]) \/ u = <<c, last>>
          BY <2>2, <4>1, <4>2
        <5> QED BY Zenon, <5>1 DEF Units
      <4>3. CASE x # c
        BY Zenon, <2>1, <4>1, <4>3 DEF Units
      <4> QED BY <4>2, <4>3
    <3>2. ASSUME NEW u \in U PROVE u \in V
      <4>1. PICK x \in S : u \in {x} \X (1..counts[x])
        BY Zenon DEF Units
      <4>2. u \in {x} \X (1..Add(counts, T)[x])
        <5>1. CASE x = c
          BY <2>2, <4>1, <5>1
        <5>2. CASE x # c
          BY Zenon, <2>1, <4>1, <5>2
        <5> QED BY <5>1, <5>2
      <4> QED BY Zenon, <4>2 DEF Units
    <3>3. <<c, last>> \in V
      <4>1. <<c, last>> \in {c} \X (1..Add(counts, T)[c])
        BY <2>2
      <4> QED BY Zenon, <4>1 DEF Units
    <3> QED BY Zenon, <3>1, <3>2, <3>3
  <2> HIDE DEF U, V
  <2>5. /\ IsFiniteSet(U \cup {<<c, last>>})
        /\ Cardinality(U \cup {<<c, last>>}) =
             IF <<c, last>> \in U THEN Cardinality(U) ELSE Cardinality(U) + 1
    <3>1. IsFiniteSet(U)
      BY DEF U
    <3> QED BY Zenon, <3>1, CardinalityAdd
  <2> QED BY Zenon, <2>3, <2>4, <2>5
<1> HIDE DEF U, V
<1>6. CASE \E c \in S : k = 1 /\ \A x \in S : x \in T <=> x = c
  <2>1. k = 1 /\ IsFiniteSet(V) /\ Cardinality(V) = Cardinality(U) + 1
    BY Zenon, <1>5, <1>6
  <2> QED BY Zenon, <1>1, <1>2, <2>1 DEF V
<1> QED BY Zenon, <1>4, <1>6 DEF Hits

\* Counters that are all zero.
LEMMA SumZero ==
  ASSUME FiniteSetFacts, NEW counts, NEW S, \A c \in S : counts[c] = 0
  PROVE  IsFiniteSet(Units(counts, S)) /\ Sum(counts, S) = 0
<1>1. 1..0 = {}
  OBVIOUS
<1>2. \A c \in S : {c} \X (1..counts[c]) = {}
  BY <1>1
<1>3. Units(counts, S) = {}
  BY Zenon, <1>2 DEF Units
<1>4. Sum(counts, S) = Cardinality(Units(counts, S))
  BY Zenon DEF Sum, Units
<1> QED BY Zenon, <1>3, <1>4, CardinalityEmpty

-----------------------------------------------------------------------------
(* The books: what a record enters in the counters.                        *)

LineCounters == {CounterOf(t) : t \in Types \ {"io_uring_tls", "quic_candidate"}}

UncappedDrops == ReaderDrops \ {"fs_cap"}

In(c, S) == IF c \in S THEN 1 ELSE 0

\* A record is entered once in each breakdown it belongs to.
BrokenDown(r, o) ==
  /\ \E k : /\ Hits({o.class}, Classes, k)
            /\ k = In("tcp", o.count) + In("udp", o.count) + In("http", o.count) + In("tls", o.count)
  /\ In("tls", o.count) = In("full", o.count) + In("partial", o.count) + In("unknown", o.count)
  /\ In("unknown_ktls", o.count) <= In("unknown", o.count)
  /\ In("confirmed", o.count) + In("refused", o.count) <= In("tcp_state", o.count)
  /\ "quic_candidate" \notin o.count
  /\ \/ ~ (Len(o.lines) > 1) /\ Second(o.lines) = {} /\ "quic_observed" \notin o.count
     \/ /\ r = "udp" /\ Len(o.lines) > 1 /\ Second(o.lines) = {"quic_candidate"}
        /\ "quic_observed" \in o.count /\ o.lines # << >>

\* A record is a drop, a counted line, a quiet one, or a line without a counter.
Entered(r, o) ==
  \E drop, line, quiet, plain \in {0, 1} :
    /\ drop + line + quiet + plain = 1
    /\ Hits({o.drop}, UncappedDrops, drop)
    /\ Hits(o.count, LineCounters, line)
    /\ quiet = IF r \in QuietRings /\ o.drop = "none" /\ o.lines = << >> THEN 1 ELSE 0
    /\ plain = IF o.lines # << >> /\ Head(o.lines).type \in Alike("io_uring_tls") THEN 1 ELSE 0

LEMMA LineCounterList ==
  LineCounters = {"exec", "proc_fork", "fs_event", "tcp", "tcp_result", "tls", "udp", "http",
                  "ktls_offload", "tcp_state", "io_uring_send", "egress_backstop",
                  "bpf_self_defense", "bpf_audit", "ipv6"}
<1> DEFINE L == {"exec", "proc_fork", "fs_event", "tcp", "tcp_result", "tls", "udp", "http",
                 "ktls_offload", "tcp_state", "io_uring_send", "egress_backstop",
                 "bpf_self_defense", "bpf_audit", "ipv6"}
<1>1. \A t \in Types \ {"io_uring_tls", "quic_candidate"} : CounterOf(t) \in L
  BY TypeList DEF CounterOf
<1>2. \A c \in L \ {"ipv6"} :
        c \in Types \ {"io_uring_tls", "quic_candidate"} /\ CounterOf(c) = c
  BY TypeList DEF CounterOf
<1>3. "tcp6" \in Types \ {"io_uring_tls", "quic_candidate"} /\ CounterOf("tcp6") = "ipv6"
  BY TypeList DEF CounterOf
<1> HIDE DEF L
<1>4. L = LineCounters
  BY Zenon, <1>1, <1>2, <1>3 DEF LineCounters
<1> QED BY <1>4 DEF L

\* The only line without a counter.
LEMMA AloneAlike == \A t \in Types : t \in Alike("io_uring_tls") <=> t = "io_uring_tls"
<1>1. CounterOf("io_uring_tls") = "io_uring_tls"
  BY DEF CounterOf
<1> QED BY Zenon, <1>1, CounterFacts DEF Alike

LEMMA ShapeBooks ==
  ASSUME NEW r \in Rings, NEW s, NEW o, Shape(r, s, o)
  PROVE  BrokenDown(r, o) /\ Entered(r, o)
\* Every verdict is one of the classes.
<1>JudgedClass. ASSUME NEW e, Judged(e)
                PROVE  e.policy \in Classes
  <2> USE <1>JudgedClass
  <2>1. \A p, name, addr : Classify(p, name, addr) \in Classes
    BY DEF Classify, Classes
  <2> QED BY Zenon, <2>1 DEF Judged
<1>1. Extras \cap LineCounters = {} /\ "none" \notin Classes /\ "none" \notin ReaderDrops
  BY LineCounterList DEF Extras, Classes, ReaderDrops
<1>2. ASSUME NEW S, NEW x, x \in S PROVE Hits({x}, S, 1)
  BY Zenon, <1>2 DEF Hits
<1>3. ASSUME NEW S, NEW x, x \notin S PROVE Hits({x}, S, 0)
  BY Zenon, <1>3 DEF Hits
<1>4. ASSUME NEW c \in LineCounters, NEW extra \in SUBSET Extras
      PROVE  Hits(extra \cup {c}, LineCounters, 1)
  BY Zenon, <1>1 DEF Hits
<1>5. \A S : Hits({}, S, 0)
  BY Zenon DEF Hits
<1>6. \A e : <<e>> # << >> /\ Head(<<e>>) = e /\ ~ (Len(<<e>>) > 1) /\ Second(<<e>>) = {}
  BY DEF Second
<1>7. \A e, q : /\ <<e, q>> # << >> /\ Head(<<e, q>>) = e /\ Len(<<e, q>>) > 1
                /\ Second(<<e, q>>) = {q.type}
  BY DEF Second
<1>8. ~ (Len(<< >>) > 1) /\ Second(<< >>) = {}
  BY DEF Second
<1>9. ASSUME ~ (Len(o.lines) > 1), Second(o.lines) = {}, o.class = "none", o.count = {}
      PROVE  BrokenDown(r, o)
  <2>1. /\ In("tcp", o.count) = 0 /\ In("udp", o.count) = 0 /\ In("http", o.count) = 0
        /\ In("tls", o.count) = 0 /\ In("full", o.count) = 0 /\ In("partial", o.count) = 0
        /\ In("unknown", o.count) = 0 /\ In("unknown_ktls", o.count) = 0
        /\ In("confirmed", o.count) = 0 /\ In("refused", o.count) = 0
        /\ In("tcp_state", o.count) = 0 /\ "quic_candidate" \notin o.count
        /\ "quic_observed" \notin o.count
    BY Zenon, <1>9 DEF In
  <2>2. Hits({o.class}, Classes, 0)
    BY Zenon, <1>1, <1>3, <1>9
  <2>3. 0 = 0 + 0 + 0 + 0 /\ 0 = 0 + 0 + 0 /\ 0 <= 0 /\ 0 + 0 <= 0
    OBVIOUS
  <2> QED BY Zenon, <1>9, <2>1, <2>2, <2>3 DEF BrokenDown
<1>10. CASE Dropping(o)
  <2>1. /\ o.lines = << >> /\ o.class = "none" /\ o.count = {} /\ o.drop \in UncappedDrops
        /\ o.drop # "none"
    BY Zenon, <1>1, <1>10 DEF Dropping, UncappedDrops
  <2>2. Hits({o.drop}, UncappedDrops, 1) /\ Hits(o.count, LineCounters, 0)
    BY Zenon, <1>2, <1>5, <2>1
  <2>3. 1 + 0 + 0 + 0 = 1 /\ 1 \in {0, 1} /\ 0 \in {0, 1}
    OBVIOUS
  <2>4. Entered(r, o)
    BY Zenon, <2>1, <2>2, <2>3 DEF Entered
  <2> QED BY Zenon, <1>8, <1>9, <2>1, <2>4
<1>11. CASE Leaving(o) /\ r \in QuietRings
  <2>1. o.lines = << >> /\ o.class = "none" /\ o.count = {} /\ o.drop = "none"
    BY Zenon, <1>11 DEF Leaving
  <2>2. Hits({o.drop}, UncappedDrops, 0) /\ Hits(o.count, LineCounters, 0)
    BY Zenon, <1>1, <1>3, <1>5, <2>1 DEF UncappedDrops
  <2>3. 0 + 0 + 1 + 0 = 1 /\ 1 \in {0, 1} /\ 0 \in {0, 1}
    OBVIOUS
  <2>4. Entered(r, o)
    BY Zenon, <1>11, <2>1, <2>2, <2>3 DEF Entered
  <2> QED BY Zenon, <1>8, <1>9, <2>1, <2>4
<1>12. CASE Capping(o)
  <2>1. /\ o.lines = << >> /\ o.class = "none" /\ o.count = {"fs_event"} /\ o.drop = "fs_cap"
        /\ "fs_cap" # "none" /\ "fs_cap" \notin UncappedDrops
    BY <1>12 DEF Capping, UncappedDrops
  <2>2. "fs_event" \in LineCounters
    BY LineCounterList
  <2>3. Hits({o.drop}, UncappedDrops, 0) /\ Hits(o.count, LineCounters, 1)
    <3>1. o.drop \notin UncappedDrops
      BY Zenon, <2>1
    <3>2. Hits({"fs_event"}, LineCounters, 1) /\ Hits({o.drop}, UncappedDrops, 0)
      BY Zenon, <1>2, <1>3, <2>2, <3>1
    <3> QED BY Zenon, <2>1, <3>2
  <2>4. 0 + 1 + 0 + 0 = 1 /\ 1 \in {0, 1} /\ 0 \in {0, 1}
    OBVIOUS
  <2>5. Entered(r, o)
    BY Zenon, <2>1, <2>3, <2>4 DEF Entered
  <2>6. \A c : c # "fs_event" => In(c, o.count) = 0
    BY Zenon, <2>1 DEF In
  <2>7. /\ In("tcp", o.count) = 0 /\ In("udp", o.count) = 0 /\ In("http", o.count) = 0
        /\ In("tls", o.count) = 0 /\ In("full", o.count) = 0 /\ In("partial", o.count) = 0
        /\ In("unknown", o.count) = 0 /\ In("unknown_ktls", o.count) = 0
        /\ In("confirmed", o.count) = 0 /\ In("refused", o.count) = 0
        /\ In("tcp_state", o.count) = 0 /\ "quic_candidate" \notin o.count
        /\ "quic_observed" \notin o.count
    BY <2>1, <2>6
  <2>8. Hits({o.class}, Classes, 0)
    BY Zenon, <1>1, <1>3, <2>1
  <2>9. 0 = 0 + 0 + 0 + 0 /\ 0 = 0 + 0 + 0 /\ 0 <= 0 /\ 0 + 0 <= 0
    OBVIOUS
  <2>10. BrokenDown(r, o)
    BY Zenon, <1>8, <2>1, <2>7, <2>8, <2>9 DEF BrokenDown
  <2> QED BY Zenon, <2>5, <2>10
<1>13. ASSUME NEW c \in LineCounters, NEW extra \in SUBSET Extras, o.count = extra \cup {c},
              o.drop = "none", o.lines # << >>, Head(o.lines).type \in Types \ {"io_uring_tls"}
       PROVE  Entered(r, o)
  <2>1. Hits({o.drop}, UncappedDrops, 0) /\ Hits(o.count, LineCounters, 1)
    BY Zenon, <1>1, <1>3, <1>4, <1>13 DEF UncappedDrops
  <2>2. 0 + 1 + 0 + 0 = 1 /\ 1 \in {0, 1} /\ 0 \in {0, 1}
    OBVIOUS
  <2>3. Head(o.lines).type \notin Alike("io_uring_tls")
    BY Zenon, <1>13, AloneAlike
  <2> QED BY Zenon, <1>13, <2>1, <2>2, <2>3 DEF Entered
<1>14. ASSUME NEW type \in PlainTypes, NEW extra \in {{}, {"confirmed"}, {"refused"}},
              Noting(o, Event(type), extra, "none"), extra = {} \/ type = "tcp_state"
       PROVE  BrokenDown(r, o) /\ Entered(r, o)
  <2>1. PICK c : c = CounterOf(type)
    OBVIOUS
  <2>2. /\ c \in LineCounters \ {"tcp", "udp", "http", "tls"} /\ (type = "tcp_state" <=> c = "tcp_state")
        /\ type \in Types \ {"io_uring_tls"}
    BY <2>1, PlainTypeList, TypeList, LineCounterList DEF CounterOf
  <2>3. /\ o.lines = <<Event(type)>> /\ o.class = "none" /\ o.count = extra \cup {c} /\ o.drop = "none"
    BY Zenon, <1>14, <2>1, EventType DEF Noting
  <2>4. extra \in SUBSET Extras
    BY DEF Extras
  <2>5. o.lines # << >> /\ Head(o.lines).type = type /\ ~ (Len(o.lines) > 1) /\ Second(o.lines) = {}
    BY Zenon, <1>6, <2>3, EventType
  <2>6. Entered(r, o)
    BY Zenon, <1>13, <2>2, <2>3, <2>4, <2>5
  <2>7. /\ In("tcp", o.count) = 0 /\ In("udp", o.count) = 0 /\ In("http", o.count) = 0
        /\ In("tls", o.count) = 0 /\ In("full", o.count) = 0 /\ In("partial", o.count) = 0
        /\ In("unknown", o.count) = 0 /\ In("unknown_ktls", o.count) = 0
        /\ "quic_candidate" \notin o.count /\ "quic_observed" \notin o.count
    BY <2>2, <2>3, LineCounterList DEF In
  <2>8. In("confirmed", o.count) + In("refused", o.count) <= In("tcp_state", o.count)
    BY SMTT(20), <1>14, <2>2, <2>3, LineCounterList DEF In
  <2>9. Hits({o.class}, Classes, 0)
    BY Zenon, <1>1, <1>3, <2>3
  <2>10. 0 = 0 + 0 + 0 + 0 /\ 0 = 0 + 0 + 0 /\ 0 <= 0
    OBVIOUS
  <2>11. BrokenDown(r, o)
    BY Zenon, <2>5, <2>7, <2>8, <2>9, <2>10 DEF BrokenDown
  <2> QED BY Zenon, <2>6, <2>11
<1>15. ASSUME NEW e, e.type \in {"tcp", "udp", "http"}, Judged(e), Noting(o, e, {}, e.policy)
       PROVE  BrokenDown(r, o) /\ Entered(r, o)
  <2>1. PICK c : c = e.type
    OBVIOUS
  <2>2. /\ c \in {"tcp", "udp", "http"} /\ c \in LineCounters /\ CounterOf(c) = c
        /\ c \in Types \ {"io_uring_tls"}
    BY <1>15, <2>1, TypeList, LineCounterList DEF CounterOf
  <2>3. /\ o.lines = <<e>> /\ o.class \in Classes /\ o.count = {} \cup {c} /\ o.drop = "none"
    BY Zenon, <1>15, <2>1, <2>2, <1>JudgedClass DEF Noting
  <2>4. {} \in SUBSET Extras
    OBVIOUS
  <2>5. o.lines # << >> /\ Head(o.lines) = e /\ ~ (Len(o.lines) > 1) /\ Second(o.lines) = {}
    BY Zenon, <1>6, <2>3
  <2>6. Entered(r, o)
    BY Zenon, <1>13, <2>1, <2>2, <2>3, <2>4, <2>5
  <2>7. /\ In("full", o.count) = 0 /\ In("partial", o.count) = 0
        /\ In("unknown", o.count) = 0 /\ In("unknown_ktls", o.count) = 0
        /\ In("confirmed", o.count) = 0 /\ In("refused", o.count) = 0
        /\ In("tcp_state", o.count) = 0 /\ In("tls", o.count) = 0
        /\ "quic_candidate" \notin o.count /\ "quic_observed" \notin o.count
    BY <2>2, <2>3 DEF In
  <2>8. 1 = In("tcp", o.count) + In("udp", o.count) + In("http", o.count) + In("tls", o.count)
    BY <2>2, <2>3 DEF In
  <2>9. Hits({o.class}, Classes, 1)
    BY Zenon, <1>2, <2>3
  <2>10. 0 = 0 + 0 + 0 /\ 0 <= 0 /\ 0 + 0 <= 0
    OBVIOUS
  <2>11. BrokenDown(r, o)
    BY Zenon, <2>5, <2>7, <2>8, <2>9, <2>10 DEF BrokenDown
  <2> QED BY Zenon, <2>6, <2>11
<1>16. ASSUME NEW e, r = "udp", e.type = "udp", Judged(e),
              o.lines = <<e, Event("quic_candidate")>>, o.class = e.policy,
              o.count = {"quic_observed", "udp"}, o.drop = "none"
       PROVE  BrokenDown(r, o) /\ Entered(r, o)
  <2>1. "udp" \in LineCounters /\ "udp" \in Types \ {"io_uring_tls"}
    BY TypeList, LineCounterList
  <2>2. PICK extra : extra = {"quic_observed"}
    BY Zenon
  <2>3. extra \in SUBSET Extras /\ o.count = extra \cup {"udp"}
    BY <1>16, <2>2 DEF Extras
  <2>4. /\ o.lines # << >> /\ Head(o.lines) = e /\ Len(o.lines) > 1
        /\ Second(o.lines) = {"quic_candidate"}
    <3>1. PICK q : q = Event("quic_candidate")
      OBVIOUS
    <3>2. o.lines = <<e, q>> /\ q.type = "quic_candidate"
      BY Zenon, <1>16, <3>1, EventType
    <3> QED BY Zenon, <1>7, <3>2
  <2>5. Entered(r, o)
    BY Zenon, <1>13, <1>16, <2>1, <2>3, <2>4
  <2>6. /\ In("full", o.count) = 0 /\ In("partial", o.count) = 0
        /\ In("unknown", o.count) = 0 /\ In("unknown_ktls", o.count) = 0
        /\ In("confirmed", o.count) = 0 /\ In("refused", o.count) = 0
        /\ In("tcp_state", o.count) = 0 /\ In("tls", o.count) = 0
        /\ "quic_candidate" \notin o.count /\ "quic_observed" \in o.count
        /\ 1 = In("tcp", o.count) + In("udp", o.count) + In("http", o.count) + In("tls", o.count)
    BY <1>16 DEF In
  <2>7. Hits({o.class}, Classes, 1)
    BY Zenon, <1>2, <1>16, <1>JudgedClass
  <2>8. 0 = 0 + 0 + 0 /\ 0 <= 0 /\ 0 + 0 <= 0
    OBVIOUS
  <2>9. BrokenDown(r, o)
    BY Zenon, <1>16, <2>4, <2>6, <2>7, <2>8 DEF BrokenDown
  <2> QED BY Zenon, <2>5, <2>9
<1>17. ASSUME NEW e, NEW extra, e.type = "tls", Judged(e), e.conf \in {"full", "partial", "unknown"},
              extra = {e.conf} \/ (e.conf = "unknown" /\ extra = {"unknown", "unknown_ktls"}),
              Noting(o, e, extra, e.policy)
       PROVE  BrokenDown(r, o) /\ Entered(r, o)
  <2>1. /\ "tls" \in LineCounters /\ CounterOf("tls") = "tls" /\ "tls" \in Types \ {"io_uring_tls"}
    BY TypeList, LineCounterList DEF CounterOf
  <2>2. extra \in SUBSET Extras
    BY <1>17 DEF Extras
  <2>3. /\ o.lines = <<e>> /\ o.class \in Classes /\ o.count = extra \cup {"tls"} /\ o.drop = "none"
    BY Zenon, <1>17, <2>1, <1>JudgedClass DEF Noting
  <2>4. o.lines # << >> /\ Head(o.lines) = e /\ ~ (Len(o.lines) > 1) /\ Second(o.lines) = {}
    BY Zenon, <1>6, <2>3
  <2>5. Entered(r, o)
    BY Zenon, <1>13, <1>17, <2>1, <2>2, <2>3, <2>4
  <2>6. /\ In("tls", o.count) = In("full", o.count) + In("partial", o.count) + In("unknown", o.count)
        /\ In("unknown_ktls", o.count) <= In("unknown", o.count)
    BY <1>17, <2>3 DEF In
  <2>7. /\ In("confirmed", o.count) = 0 /\ In("refused", o.count) = 0
        /\ In("tcp_state", o.count) = 0
        /\ "quic_candidate" \notin o.count /\ "quic_observed" \notin o.count
        /\ 1 = In("tcp", o.count) + In("udp", o.count) + In("http", o.count) + In("tls", o.count)
    BY <1>17, <2>3 DEF In
  <2>8. Hits({o.class}, Classes, 1)
    BY Zenon, <1>2, <2>3
  <2>9. 0 + 0 <= 0
    OBVIOUS
  <2>10. BrokenDown(r, o)
    BY Zenon, <2>4, <2>6, <2>7, <2>8, <2>9 DEF BrokenDown
  <2> QED BY Zenon, <2>5, <2>10
<1>18. ASSUME NEW e, e.type = "io_uring_tls", o.lines = <<e>>, o.class = "none", o.count = {},
              o.drop = "none"
       PROVE  BrokenDown(r, o) /\ Entered(r, o)
  <2>1. o.lines # << >> /\ Head(o.lines) = e /\ ~ (Len(o.lines) > 1) /\ Second(o.lines) = {}
    BY Zenon, <1>6, <1>18
  <2>2. Hits({o.drop}, UncappedDrops, 0) /\ Hits(o.count, LineCounters, 0)
        /\ Hits({o.class}, Classes, 0)
    BY Zenon, <1>1, <1>3, <1>5, <1>18 DEF UncappedDrops
  <2>3. Head(o.lines).type \in Alike("io_uring_tls")
    <3>1. "io_uring_tls" \in Types
      BY TypeList
    <3> QED BY Zenon, <1>18, <2>1, <3>1, AloneAlike
  <2>4. 0 + 0 + 0 + 1 = 1 /\ 1 \in {0, 1} /\ 0 \in {0, 1}
    OBVIOUS
  <2>5. Entered(r, o)
    BY Zenon, <2>1, <2>2, <2>3, <2>4 DEF Entered
  <2> QED BY Zenon, <1>9, <1>18, <2>1, <2>5
<1>19. CASE \E type \in PlainTypes, extra \in {{}, {"confirmed"}, {"refused"}} :
              Noting(o, Event(type), extra, "none") /\ (extra = {} \/ type = "tcp_state")
  BY Zenon, <1>14, <1>19
<1>20. CASE \E e : /\ e.type \in {"tcp", "udp", "http"} /\ Judged(e)
                   /\ e.sent \in scenario.answers \cup {s.chunk.name}
                   /\ Noting(o, e, {}, e.policy)
  BY <1>15, <1>20
<1>21. CASE \E e : /\ r = "udp" /\ e.type = "udp" /\ Judged(e) /\ e.sent \in scenario.answers
                   /\ o.lines = <<e, Event("quic_candidate")>> /\ o.class = e.policy
                   /\ o.count = {"quic_observed", "udp"} /\ o.drop = "none"
  BY Zenon, <1>16, <1>21
<1>22. CASE \E e, extra :
              /\ e.type = "tls" /\ Judged(e) /\ e.conf \in {"full", "partial", "unknown"}
              /\ \/ extra = {e.conf}
                 \/ e.conf = "unknown" /\ extra = {"unknown", "unknown_ktls"}
              /\ r = "tls" /\ Noting(o, e, extra, e.policy)
  BY <1>17, <1>22
<1>23. CASE \E e : /\ e.type = "io_uring_tls" /\ o.lines = <<e>> /\ o.class = "none" /\ o.count = {}
                   /\ o.drop = "none"
  BY Zenon, <1>18, <1>23
<1> QED BY Zenon, <1>10, <1>11, <1>12, <1>19, <1>20, <1>21, <1>22, <1>23 DEF Shape

-----------------------------------------------------------------------------
(* What a record counts, and what the file does with a line.               *)

LEMMA JsonlFacts ==
  /\ \A type \in Types : JsonlDrop[type] \in DropKinds
  /\ \A type \in Types : JsonlDrop[type] \notin ReaderDrops \cup {"none"}
  /\ \A type, other \in Types : JsonlDrop[type] = JsonlDrop[other] <=> other \in Alike(type)
<1>1. \A type \in Types : JsonlDrop[type] \in DropKinds
  BY Zenon DEF DropKinds
<1>2. /\ JsonlDrop["exec"] = "exec_jsonl" /\ JsonlDrop["proc_fork"] = "proc_fork_jsonl"
      /\ JsonlDrop["fs_event"] = "fs_jsonl" /\ JsonlDrop["tcp"] = "tcp_jsonl"
      /\ JsonlDrop["tcp_result"] = "tcp_result_jsonl" /\ JsonlDrop["tls"] = "tls_jsonl"
      /\ JsonlDrop["udp"] = "udp_jsonl" /\ JsonlDrop["quic_candidate"] = "quic_candidate_jsonl"
      /\ JsonlDrop["http"] = "http_jsonl" /\ JsonlDrop["ktls_offload"] = "ktls_jsonl"
      /\ JsonlDrop["tcp_state"] = "tcp_state_jsonl"
      /\ JsonlDrop["io_uring_send"] = "io_uring_jsonl"
      /\ JsonlDrop["io_uring_tls"] = "io_uring_tls_jsonl"
      /\ JsonlDrop["egress_backstop"] = "egress_backstop_jsonl"
      /\ JsonlDrop["bpf_self_defense"] = "bpf_self_defense_jsonl"
      /\ JsonlDrop["bpf_audit"] = "bpf_audit_jsonl"
      /\ JsonlDrop["tcp6"] = "ipv6_obs_jsonl" /\ JsonlDrop["udp6"] = "ipv6_obs_jsonl"
  BY DEF JsonlDrop
<1>3. \A type \in Types : JsonlDrop[type] \notin ReaderDrops \cup {"none"}
  BY <1>2, TypeList DEF ReaderDrops
<1>4. ASSUME NEW type \in Types, NEW other \in Types
      PROVE  JsonlDrop[type] = JsonlDrop[other] <=> CounterOf(other) = CounterOf(type)
  BY <1>2, TypeList DEF CounterOf
<1> QED BY Zenon, <1>1, <1>3, <1>4 DEF Alike

\* What a record adds to the counters of lines is its first line, or the file event
\* after the cap.
LEMMA ShapeCounts ==
  ASSUME NEW r, NEW s, NEW o, Shape(r, s, o)
  PROVE  /\ o.drop \in ReaderDrops \cup {"none"}
         /\ o.drop # "none" => o.lines = << >>
         /\ \A type \in Types \ {"io_uring_tls"} :
              CounterOf(type) \in o.count <=>
                \/ o.lines # << >> /\ Head(o.lines).type \in Alike(type)
                \/ type = "fs_event" /\ o.drop = "fs_cap"
<1> DEFINE Right == /\ o.drop \in ReaderDrops \cup {"none"}
                    /\ o.drop # "none" => o.lines = << >>
                    /\ \A type \in Types \ {"io_uring_tls"} :
                         CounterOf(type) \in o.count <=>
                           \/ o.lines # << >> /\ Head(o.lines).type \in Alike(type)
                           \/ type = "fs_event" /\ o.drop = "fs_cap"
<1>1. \A e : <<e>> # << >> /\ Head(<<e>>) = e
  OBVIOUS
<1>2. \A e, q : <<e, q>> # << >> /\ Head(<<e, q>>) = e
  OBVIOUS
<1>3. "none" # "fs_cap" /\ "fs_cap" \in ReaderDrops
  BY DEF ReaderDrops
<1>4. ASSUME Dropping(o) \/ Leaving(o) PROVE Right
  BY Zenon, <1>3, <1>4 DEF Dropping, Leaving
<1>5. ASSUME Capping(o) PROVE Right
  <2>1. \A type \in Types : CounterOf(type) \in {"fs_event"} <=> type = "fs_event"
    BY Zenon, CounterFacts
  <2> QED BY Zenon, <1>3, <1>5, <2>1 DEF Capping
<1>6. ASSUME NEW e, NEW extra, NEW class, Noting(o, e, extra, class), e.type \in Types,
             extra \subseteq Extras
      PROVE  Right
  <2>1. o.lines # << >> /\ Head(o.lines) = e /\ o.drop = "none"
    BY Zenon, <1>1, <1>6 DEF Noting
  <2>2. ASSUME NEW type \in Types
        PROVE  CounterOf(type) \in o.count <=> e.type \in Alike(type)
    <3>1. CounterOf(type) \notin extra
      BY Zenon, <1>6, CounterFacts
    <3> QED BY Zenon, <1>6, <3>1 DEF Noting, Alike
  <2> QED BY Zenon, <1>3, <2>1, <2>2
<1>7. ASSUME NEW e, e.type = "udp", o.lines = <<e, Event("quic_candidate")>>,
             o.count = {"quic_observed", "udp"}, o.drop = "none"
      PROVE  Right
  <2>1. o.lines # << >> /\ Head(o.lines) = e
    BY Zenon, <1>2, <1>7
  <2>2. ASSUME NEW type \in Types
        PROVE  CounterOf(type) \in o.count <=> e.type \in Alike(type)
    <3>1. "quic_observed" \in Extras /\ "udp" \in Types
      BY TypeList DEF Extras
    <3>2. CounterOf("udp") = "udp"
      BY DEF CounterOf
    <3>3. CounterOf(type) # "quic_observed"
      BY Zenon, <3>1, CounterFacts
    <3> QED BY Zenon, <1>7, <3>1, <3>2, <3>3 DEF Alike
  <2> QED BY Zenon, <1>3, <1>7, <2>1, <2>2
<1>8. ASSUME NEW e, e.type = "io_uring_tls", o.lines = <<e>>, o.count = {}, o.drop = "none"
      PROVE  Right
  <2>1. o.lines # << >> /\ Head(o.lines) = e
    BY Zenon, <1>1, <1>8
  <2>2. CounterOf("io_uring_tls") = "io_uring_tls"
    BY DEF CounterOf
  <2>3. \A type \in Types \ {"io_uring_tls"} : e.type \notin Alike(type)
    BY Zenon, <1>8, <2>2, CounterFacts DEF Alike
  <2> QED BY Zenon, <1>3, <1>8, <2>1, <2>3
<1>9. \A t \in PlainTypes \cup {"tcp", "udp", "http", "tls"} : t \in Types
  BY TypeList DEF PlainTypes
<1>10. ASSUME NEW type \in PlainTypes, NEW extra \in {{}, {"confirmed"}, {"refused"}},
              Noting(o, Event(type), extra, "none")
       PROVE  Right
  <2>1. extra \subseteq Extras
    BY DEF Extras
  <2> QED BY Zenon, <1>6, <1>9, <1>10, <2>1, EventType
<1>11. ASSUME NEW e, e.type \in {"tcp", "udp", "http"}, Noting(o, e, {}, e.policy)
       PROVE  Right
  <2>1. PICK extra : extra = {}
    BY Zenon
  <2>2. extra \subseteq Extras /\ e.type \in Types /\ Noting(o, e, extra, e.policy)
    BY <1>9, <1>11, <2>1
  <2> QED BY Zenon, <1>6, <2>2
<1>12. ASSUME NEW e, NEW extra, e.type = "tls", e.conf \in {"full", "partial", "unknown"},
              extra = {e.conf} \/ extra = {"unknown", "unknown_ktls"},
              Noting(o, e, extra, e.policy)
       PROVE  Right
  <2>1. extra \subseteq Extras
    BY <1>12 DEF Extras
  <2> QED BY Zenon, <1>6, <1>9, <1>12, <2>1
<1>13. Right
  <2> HIDE DEF Right
  <2>1. CASE \E type \in PlainTypes, extra \in {{}, {"confirmed"}, {"refused"}} :
               Noting(o, Event(type), extra, "none") /\ (extra = {} \/ type = "tcp_state")
    BY Zenon, <1>10, <2>1
  <2>2. CASE \E e : /\ e.type \in {"tcp", "udp", "http"} /\ Judged(e)
                    /\ e.sent \in scenario.answers \cup {s.chunk.name}
                    /\ Noting(o, e, {}, e.policy)
    BY <1>11, <2>2
  <2>3. CASE \E e : /\ r = "udp" /\ e.type = "udp" /\ Judged(e) /\ e.sent \in scenario.answers
                    /\ o.lines = <<e, Event("quic_candidate")>> /\ o.class = e.policy
                    /\ o.count = {"quic_observed", "udp"} /\ o.drop = "none"
    BY Zenon, <1>7, <2>3
  <2>4. CASE \E e, extra :
               /\ e.type = "tls" /\ Judged(e) /\ e.conf \in {"full", "partial", "unknown"}
               /\ \/ extra = {e.conf}
                  \/ e.conf = "unknown" /\ extra = {"unknown", "unknown_ktls"}
               /\ r = "tls" /\ Noting(o, e, extra, e.policy)
    BY <1>12, <2>4
  <2>5. CASE \E e : /\ e.type = "io_uring_tls" /\ o.lines = <<e>> /\ o.class = "none" /\ o.count = {}
                    /\ o.drop = "none"
    BY Zenon, <1>8, <2>5
  <2> QED BY ZenonT(40), <1>4, <1>5, <2>1, <2>2, <2>3, <2>4, <2>5 DEF Shape
<1> QED BY <1>13

-----------------------------------------------------------------------------
(* Counters and lines.                                                     *)

Tallied ==
  /\ n \in [Counters -> Nat] /\ dropped \in [DropKinds -> Nat]
  /\ IsSeq(log) /\ IsSeq(swallowed)

\* A broken line is counted when it is left behind, and spoils at most the next one.
Glued ==
  /\ malformed \in Nat /\ torn \in BOOLEAN
  /\ Len(swallowed) + (IF torn THEN 1 ELSE 0) <= malformed

\* What CountsMatchLog says of a type.
Counted(type) ==
  n[CounterOf(type)] = Whereabouts(type) + (IF type = "fs_event" THEN dropped["fs_cap"] ELSE 0)

LEMMA AddTyped ==
  ASSUME NEW D, NEW counts \in [D -> Nat], NEW S
  PROVE  /\ Add(counts, S) \in [D -> Nat]
         /\ \A c \in D : Add(counts, S)[c] = counts[c] + (IF c \in S THEN 1 ELSE 0)
BY DEF Add

\* The counters and the log keep their types.
LEMMA HandleTallies ==
  ASSUME Tallied, NEW r \in Rings, Handle(r)
  PROVE  Tallied'
<1>1. \A S : Add(n, S) \in [Counters -> Nat] /\ Add(dropped, S) \in [DropKinds -> Nat]
  BY AddTyped DEF Tallied
<1>2. PICK counts, drops :
        /\ n' = Add(n, counts) /\ dropped' = Add(dropped, drops)
        /\ log' = log /\ swallowed' = swallowed
  BY Zenon, HandleParts
<1> QED BY Zenon, <1>1, <1>2 DEF Tallied

\* A broken line spoils at most one line.
LEMMA GluedStep ==
  ASSUME Tallied, Glued, [Next]_vars
  PROVE  Glued'
<1>1. PICK l \in Nat : l = Len(swallowed)
  BY DEF Tallied, IsSeq
<1>2. malformed \in Nat /\ torn \in BOOLEAN /\ l + (IF torn THEN 1 ELSE 0) <= malformed
  BY Zenon, <1>1 DEF Glued
<1>3. ASSUME NEW line, FileTakes(line) PROVE Glued'
  <2>1. CASE torn
    <3>1. torn' = FALSE /\ malformed' = malformed /\ swallowed' = Append(swallowed, line)
      BY Zenon, <1>3, <2>1 DEF FileTakes
    <3>2. Len(swallowed') = l + 1
      BY Zenon, <1>1, <3>1, LineAdded DEF Tallied
    <3>3. l + 1 <= malformed
      BY <1>2, <2>1
    <3>4. (IF torn' THEN 1 ELSE 0) = 0 /\ torn' \in BOOLEAN /\ malformed' \in Nat
      BY Zenon, <1>2, <3>1
    <3>5. Len(swallowed') + (IF torn' THEN 1 ELSE 0) <= malformed'
      BY SMTT(20), <1>1, <3>1, <3>2, <3>3, <3>4
    <3> QED BY Zenon, <3>4, <3>5 DEF Glued
  <2>2. CASE ~ torn
    BY Zenon, <1>3, <2>2 DEF FileTakes, Glued
  <2> QED BY <2>1, <2>2
<1>4. CASE UNCHANGED <<malformed, torn, swallowed>>
  BY Zenon, <1>4 DEF Glued
<1>5. ASSUME swallowed' = swallowed, torn' \in BOOLEAN,
             malformed' = malformed + (IF torn THEN 0 ELSE 1)
      PROVE  Glued'
  <2>1. malformed' \in Nat /\ l + (IF torn' THEN 1 ELSE 0) <= malformed'
    BY <1>2, <1>5
  <2> QED BY Zenon, <1>1, <1>5, <2>1 DEF Glued
<1>6. ASSUME NEW r \in Rings, AppendLine(r) PROVE Glued'
  BY Zenon, <1>3, <1>6 DEF AppendLine
<1>7. ASSUME NEW r \in Rings, AppendFails(r) PROVE Glued'
  BY Zenon, <1>4, <1>5, <1>7 DEF AppendFails
<1>8. ASSUME Scribble PROVE Glued'
  BY Zenon, <1>5, <1>8 DEF Scribble
<1>9. ASSUME WriteShutdownTelemetry PROVE Glued'
  BY Zenon, <1>3, <1>4, <1>9 DEF WriteShutdownTelemetry
<1>10. ASSUME NEW r \in Rings, Handle(r) PROVE Glued'
  BY Zenon, <1>4, <1>10, HandleParts
<1> QED BY Zenon, <1>4, <1>6, <1>7, <1>8, <1>9, <1>10, StepSorts DEF Aside

-----------------------------------------------------------------------------
(* Counting lines.                                                         *)

\* Lines is a number, and a line at the end counts if it has one of the types.
LEMMA LinesAppend ==
  ASSUME FiniteSetFacts, NEW s, IsSeq(s), NEW line, NEW types
  PROVE  /\ Lines(s, types) \in Nat
         /\ Lines(Append(s, line), types) =
              Lines(s, types) + (IF line.event.type \in types THEN 1 ELSE 0)
\* An interval is finite.
<1>FiniteInterval. ASSUME NEW a \in Int, NEW b \in Int
                   PROVE  IsFiniteSet(a..b)
  BY Zenon, <1>FiniteInterval DEF FiniteSetFacts
\* The lines of a kind, when there is one more line.
<1>OneMore. ASSUME NEW l \in Nat, NEW S \in SUBSET (1..l), NEW T \in SUBSET (1..(l + 1)),
                   \A i \in 1..l : i \in S <=> i \in T
            PROVE  /\ Cardinality(S) \in Nat
                   /\ Cardinality(T) = Cardinality(S) + (IF l + 1 \in T THEN 1 ELSE 0)
  <2> USE <1>OneMore
  <2>1. IsFiniteSet(S)
    <3>1. IsFiniteSet(1..l)
      BY <1>FiniteInterval
    <3> QED BY Zenon, <3>1, CardinalitySubset
  <2>2. Cardinality(S) \in Nat
    BY <2>1, CardinalityType
  <2>3. l + 1 \notin S /\ \A i \in 1..(l + 1) : i \in 1..l \/ i = l + 1
    OBVIOUS
  <2>4. CASE l + 1 \in T
    <3>1. T = S \cup {l + 1}
      BY Zenon, <2>3, <2>4
    <3>2. Cardinality(T) = Cardinality(S) + 1
      BY SMTT(20), <2>1, <2>3, <3>1, CardinalityAdd
    <3> QED BY <2>2, <2>4, <3>2
  <2>5. CASE l + 1 \notin T
    <3>1. T = S
      BY Zenon, <2>3, <2>5
    <3> QED BY <2>2, <2>5, <3>1
  <2> QED BY <2>4, <2>5
<1> DEFINE t == Append(s, line)
           S == {i \in 1..Len(s) : s[i].event.type \in types}
           T == {i \in 1..Len(t) : t[i].event.type \in types}
<1>1. PICK l \in Nat : l = Len(s)
  BY DEF IsSeq
<1>2. Len(t) = l + 1 /\ (\A i \in 1..l : t[i] = s[i]) /\ t[l + 1] = line
  BY <1>1, LineAdded
<1>3. Lines(s, types) = Cardinality(S) /\ Lines(t, types) = Cardinality(T)
  BY Zenon DEF Lines
<1> HIDE DEF t
<1>4. \A i \in 1..l : i \in S <=> i \in T
  BY <1>1, <1>2
<1>5. S \in SUBSET (1..l) /\ T \in SUBSET (1..(l + 1)) /\ (l + 1 \in T <=> line.event.type \in types)
  BY <1>1, <1>2
<1> HIDE DEF S, T
<1>6. /\ Cardinality(S) \in Nat
      /\ Cardinality(T) = Cardinality(S) + (IF l + 1 \in T THEN 1 ELSE 0)
  BY <1>4, <1>5, <1>OneMore
<1> QED BY Zenon, <1>3, <1>5, <1>6 DEF t

\* The readers of a kind, when one reader changes.
LEMMA OneChanges ==
  ASSUME FiniteSetFacts, NEW r \in Rings, NEW P \in SUBSET Rings, NEW Q \in SUBSET Rings,
         \A q \in Rings \ {r} : q \in P <=> q \in Q
  PROVE  /\ Cardinality(P) \in Nat
         /\ Cardinality(Q) = Cardinality(P) - (IF r \in P THEN 1 ELSE 0) + (IF r \in Q THEN 1 ELSE 0)
<1>1. IsFiniteSet(P) /\ IsFiniteSet(P \ {r})
  BY Zenon, FiniteRings, CardinalitySubset
<1>2. Cardinality(P) \in Nat /\ Cardinality(P \ {r}) \in Nat
      /\ Cardinality(P \ {r}) = IF r \in P THEN Cardinality(P) - 1 ELSE Cardinality(P)
  BY <1>1, CardinalityType, CardinalityRemove
<1>3. CASE r \in Q
  <2>1. Q = (P \ {r}) \cup {r}
    BY Zenon, <1>3
  <2>2. Cardinality(Q) = Cardinality(P \ {r}) + 1
    BY <1>1, <2>1, CardinalityAdd
  <2> QED BY <1>2, <1>3, <2>2
<1>4. CASE r \notin Q
  <2>1. Q = P \ {r}
    BY Zenon, <1>4
  <2> QED BY <1>2, <1>4, <2>1
<1> QED BY <1>3, <1>4

\* The readers whose current line has one of these types, when one reader's lines change.
LEMMA PendingChanges ==
  ASSUME FiniteSetFacts, out = [q \in Rings |-> out[q]], NEW r \in Rings, NEW lines,
         out' = [out EXCEPT ![r] = lines], NEW types
  PROVE  /\ Cardinality(Pending(types)) \in Nat
         /\ Cardinality(Pending(types)') =
              Cardinality(Pending(types))
                - (IF out[r] # << >> /\ Head(out[r]).type \in types THEN 1 ELSE 0)
                + (IF lines # << >> /\ Head(lines).type \in types THEN 1 ELSE 0)
<1> DEFINE P == {q \in Rings : out[q] # << >> /\ Head(out[q]).type \in types}
           Q == {q \in Rings : out'[q] # << >> /\ Head(out'[q]).type \in types}
<1>1. Pending(types) = P /\ Pending(types)' = Q
  BY Zenon DEF Pending
<1>2. out'[r] = lines /\ \A q \in Rings \ {r} : out'[q] = out[q]
  OBVIOUS
<1>3. /\ r \in P <=> out[r] # << >> /\ Head(out[r]).type \in types
      /\ r \in Q <=> lines # << >> /\ Head(lines).type \in types
      /\ \A q \in Rings \ {r} : q \in P <=> q \in Q
      /\ P \in SUBSET Rings /\ Q \in SUBSET Rings
  BY Zenon, <1>2
<1> HIDE DEF P, Q
<1>4. /\ Cardinality(P) \in Nat
      /\ Cardinality(Q) = Cardinality(P) - (IF r \in P THEN 1 ELSE 0) + (IF r \in Q THEN 1 ELSE 0)
  BY ZenonT(40), <1>3, OneChanges
<1> QED BY Zenon, <1>1, <1>3, <1>4

-----------------------------------------------------------------------------
(* Where the lines of a type are.                                          *)

\* A line goes to the log, or is swallowed.
LEMMA TakesLines ==
  ASSUME FiniteSetFacts, IsSeq(log), IsSeq(swallowed), NEW line, FileTakes(line)
  PROVE  /\ IsSeq(log') /\ IsSeq(swallowed')
         /\ \A types : /\ Lines(log, types) \in Nat /\ Lines(swallowed, types) \in Nat
                       /\ Lines(log', types) + Lines(swallowed', types)
                            = Lines(log, types) + Lines(swallowed, types)
                                + (IF line.event.type \in types THEN 1 ELSE 0)
<1>1. \A types : Lines(log, types) \in Nat /\ Lines(swallowed, types) \in Nat
  BY Zenon, LinesAppend
<1>2. CASE log' = log /\ swallowed' = Append(swallowed, line)
  <2>1. IsSeq(swallowed')
    BY <1>2, LineAdded
  <2>2. \A types : Lines(swallowed', types) =
                     Lines(swallowed, types) + (IF line.event.type \in types THEN 1 ELSE 0)
    BY ZenonT(40), <1>2, LinesAppend
  <2> QED BY <1>1, <1>2, <2>1, <2>2
<1>3. CASE swallowed' = swallowed /\ log' = Append(log, line)
  <2>1. IsSeq(log')
    BY <1>3, LineAdded
  <2>2. \A types : Lines(log', types) =
                     Lines(log, types) + (IF line.event.type \in types THEN 1 ELSE 0)
    BY ZenonT(40), <1>3, LinesAppend
  <2> QED BY <1>1, <1>3, <2>1, <2>2
<1> QED BY Zenon, <1>2, <1>3 DEF FileTakes

LEMMA WhereaboutsType ==
  ASSUME FiniteSetFacts, Holding, Tallied, NEW type \in Types
  PROVE  /\ Whereabouts(type) \in Nat /\ dropped[JsonlDrop[type]] \in Nat
         /\ Lines(log, Alike(type)) \in Nat /\ Lines(swallowed, Alike(type)) \in Nat
         /\ Cardinality(Pending(Alike(type))) \in Nat
<1>1. Lines(log, Alike(type)) \in Nat /\ Lines(swallowed, Alike(type)) \in Nat
  BY Zenon, LinesAppend DEF Tallied
<1>2. dropped[JsonlDrop[type]] \in Nat
  BY Zenon, JsonlFacts DEF Tallied
<1>3. Cardinality(Pending(Alike(type))) \in Nat
  <2>1. Pending(Alike(type)) \subseteq Rings
    BY Zenon DEF Pending
  <2> QED BY Zenon, <2>1, FiniteRings, CardinalitySubset, CardinalityType
<1> QED BY <1>1, <1>2, <1>3 DEF Whereabouts

\* A record that leaves a line puts it with its reader.
LEMMA HandleWhere ==
  ASSUME FiniteSetFacts, Holding, Tallied, NEW r \in Rings, pc[r] \notin {"lock", "append"},
         NEW lines, NEW drop,
         drop \in ReaderDrops \cup {"none"},
         out' = [out EXCEPT ![r] = lines], dropped' = Add(dropped, {drop}),
         UNCHANGED <<log, swallowed>>, NEW type \in Types
  PROVE  Whereabouts(type)' =
           Whereabouts(type) + (IF lines # << >> /\ Head(lines).type \in Alike(type) THEN 1 ELSE 0)
<1>1. /\ Whereabouts(type) \in Nat /\ dropped[JsonlDrop[type]] \in Nat
      /\ Lines(log, Alike(type)) \in Nat /\ Lines(swallowed, Alike(type)) \in Nat
      /\ Cardinality(Pending(Alike(type))) \in Nat
  BY Zenon, WhereaboutsType
<1>2. out[r] = << >>
  BY Zenon DEF Holding, Held
<1>3. Cardinality(Pending(Alike(type))') =
        Cardinality(Pending(Alike(type)))
          + (IF lines # << >> /\ Head(lines).type \in Alike(type) THEN 1 ELSE 0)
  <2>1. Cardinality(Pending(Alike(type))') =
          Cardinality(Pending(Alike(type)))
            - (IF out[r] # << >> /\ Head(out[r]).type \in Alike(type) THEN 1 ELSE 0)
            + (IF lines # << >> /\ Head(lines).type \in Alike(type) THEN 1 ELSE 0)
    BY Zenon, PendingChanges DEF Holding
  <2> QED BY <1>1, <1>2, <2>1
<1>4. dropped'[JsonlDrop[type]] = dropped[JsonlDrop[type]]
  <2>1. JsonlDrop[type] \in DropKinds /\ JsonlDrop[type] # drop
    BY Zenon, JsonlFacts
  <2> QED BY SMTT(20), <1>1, <2>1, AddTyped DEF Tallied
<1> DEFINE a == Lines(log, Alike(type))
           b == Lines(swallowed, Alike(type))
           c == dropped[JsonlDrop[type]]
           p == Cardinality(Pending(Alike(type)))
           q == Cardinality(Pending(Alike(type))')
           more == IF lines # << >> /\ Head(lines).type \in Alike(type) THEN 1 ELSE 0
<1>5. Whereabouts(type) = a + b + c + p /\ Whereabouts(type)' = a + b + c + q
  BY Zenon, <1>4 DEF Whereabouts
<1>6. a \in Nat /\ b \in Nat /\ c \in Nat /\ p \in Nat /\ q = p + more /\ more \in Nat
  BY Zenon, <1>1, <1>3
<1> HIDE DEF a, b, c, p, q, more
<1>7. Whereabouts(type)' = Whereabouts(type) + more
  BY <1>5, <1>6
<1> QED BY <1>7 DEF more

\* Afterwards the reader goes back to its ring, or counts the second line of a QUIC
\* candidate, which it holds now.
LEMMA EndsWhere ==
  ASSUME FiniteSetFacts, Holding, Tallied, NEW r \in Rings, AppendLine(r) \/ AppendFails(r)
  PROVE  /\ Tallied'
         /\ \/ /\ n' = Add(n, {})
               /\ \A type \in Types : Whereabouts(type)' = Whereabouts(type)
            \/ /\ n' = Add(n, {"quic_candidate"})
               /\ \A type \in Types :
                    Whereabouts(type)' =
                      Whereabouts(type) + (IF "quic_candidate" \in Alike(type) THEN 1 ELSE 0)
\* A line that leaves its reader goes where it is counted.
<1>LeavesWhere. ASSUME NEW e, e.type \in Types, out[r] # << >>, Head(out[r]) = e, NEW lines,
                       out' = [out EXCEPT ![r] = lines], NEW type \in Types,
                       Lines(log', Alike(type)) \in Nat, Lines(swallowed', Alike(type)) \in Nat,
                       dropped'[JsonlDrop[type]] \in Nat,
                       Lines(log', Alike(type)) + Lines(swallowed', Alike(type)) + dropped'[JsonlDrop[type]]
                         = Lines(log, Alike(type)) + Lines(swallowed, Alike(type)) + dropped[JsonlDrop[type]]
                             + (IF e.type \in Alike(type) THEN 1 ELSE 0)
                PROVE  Whereabouts(type)' =
                         Whereabouts(type) + (IF lines # << >> /\ Head(lines).type \in Alike(type) THEN 1 ELSE 0)
  <2> USE <1>LeavesWhere
  <2> DEFINE a == Lines(log, Alike(type)) + Lines(swallowed, Alike(type)) + dropped[JsonlDrop[type]]
             b == Lines(log', Alike(type)) + Lines(swallowed', Alike(type))
                    + dropped'[JsonlDrop[type]]
             p == Cardinality(Pending(Alike(type)))
             q == Cardinality(Pending(Alike(type))')
             less == IF e.type \in Alike(type) THEN 1 ELSE 0
             more == IF lines # << >> /\ Head(lines).type \in Alike(type) THEN 1 ELSE 0
  <2>1. /\ dropped[JsonlDrop[type]] \in Nat /\ p \in Nat
        /\ Lines(log, Alike(type)) \in Nat /\ Lines(swallowed, Alike(type)) \in Nat
    BY Zenon, WhereaboutsType
  <2>2. q = p - less + more
    BY Zenon, PendingChanges DEF Holding
  <2>3. Whereabouts(type) = a + p /\ Whereabouts(type)' = b + q /\ b = a + less
    BY Zenon DEF Whereabouts
  <2>4. a \in Nat /\ b \in Nat /\ less \in Nat /\ more \in Nat
    <3>1. \A x, y, z \in Nat : x + y + z \in Nat
      OBVIOUS
    <3>2. less \in Nat /\ more \in Nat
      BY Zenon
    <3> QED BY ZenonT(40), <2>1, <3>1, <3>2
  <2> HIDE DEF a, b, p, q, less, more
  <2>5. Whereabouts(type)' = Whereabouts(type) + more
    <3>1. a \in Nat /\ p \in Nat /\ less \in Nat /\ more \in Nat
      BY Zenon, <2>1, <2>4
    <3>2. Whereabouts(type)' = (a + less) + (p - less + more)
      BY Zenon, <2>2, <2>3
    <3>3. Whereabouts(type) + more = (a + p) + more
      BY Zenon, <2>3
    <3>4. (a + less) + (p - less + more) = (a + p) + more
      BY SMTT(20), <3>1
    <3> QED BY Zenon, <3>2, <3>3, <3>4
  <2> QED BY <2>5 DEF more
\* The line of an append goes to the log, is swallowed, or is dropped.
<1>LineGoes. ASSUME Head(out[r]).type \in Types
             PROVE  /\ IsSeq(log') /\ IsSeq(swallowed') /\ dropped' \in [DropKinds -> Nat]
                    /\ \A type \in Types :
                         /\ Lines(log', Alike(type)) \in Nat /\ Lines(swallowed', Alike(type)) \in Nat
                         /\ Lines(log', Alike(type)) + Lines(swallowed', Alike(type)) + dropped'[JsonlDrop[type]]
                              = Lines(log, Alike(type)) + Lines(swallowed, Alike(type)) + dropped[JsonlDrop[type]]
                                  + (IF Head(out[r]).type \in Alike(type) THEN 1 ELSE 0)
  <2> USE <1>LineGoes
  <2>1. /\ IsSeq(log) /\ IsSeq(swallowed) /\ dropped \in [DropKinds -> Nat]
        /\ \A type \in Types : JsonlDrop[type] \in DropKinds
        /\ \A types : Lines(log, types) \in Nat /\ Lines(swallowed, types) \in Nat
    BY Zenon, JsonlFacts, LinesAppend DEF Tallied
  <2>2. \A type \in Types : dropped[JsonlDrop[type]] \in Nat
    BY <2>1
  <2>3. CASE AppendLine(r)
    <3>1. PICK line : FileTakes(line) /\ line.event = Head(out[r])
      <4>1. FileTakes([seq |-> seq, event |-> Head(out[r])])
        BY Zenon, <2>3 DEF AppendLine
      <4>2. [seq |-> seq, event |-> Head(out[r])].event = Head(out[r])
        OBVIOUS
      <4> QED BY Zenon, <4>1, <4>2
    <3>2. dropped' = dropped
      BY Zenon, <2>3 DEF AppendLine
    <3>3. /\ IsSeq(log') /\ IsSeq(swallowed')
          /\ \A types : Lines(log', types) + Lines(swallowed', types)
                          = Lines(log, types) + Lines(swallowed, types)
                              + (IF Head(out[r]).type \in types THEN 1 ELSE 0)
      BY Zenon, <2>1, <3>1, TakesLines
    <3>4. \A types : Lines(log', types) \in Nat /\ Lines(swallowed', types) \in Nat
      BY ZenonT(40), <3>3, LinesAppend
    <3>5. ASSUME NEW type \in Types
          PROVE  Lines(log', Alike(type)) + Lines(swallowed', Alike(type)) + dropped'[JsonlDrop[type]]
                   = Lines(log, Alike(type)) + Lines(swallowed, Alike(type)) + dropped[JsonlDrop[type]]
                       + (IF Head(out[r]).type \in Alike(type) THEN 1 ELSE 0)
      <4> DEFINE more == IF Head(out[r]).type \in Alike(type) THEN 1 ELSE 0
      <4>1. more \in Nat
        OBVIOUS
      <4>3. /\ Lines(log', Alike(type)) + Lines(swallowed', Alike(type))
                 = Lines(log, Alike(type)) + Lines(swallowed, Alike(type)) + more
            /\ dropped'[JsonlDrop[type]] = dropped[JsonlDrop[type]]
        BY Zenon, <3>2, <3>3
      <4> HIDE DEF more
      <4>4. /\ Lines(log', Alike(type)) \in Nat /\ Lines(swallowed', Alike(type)) \in Nat
            /\ Lines(log, Alike(type)) \in Nat /\ Lines(swallowed, Alike(type)) \in Nat
            /\ dropped[JsonlDrop[type]] \in Nat
        BY ZenonT(40), <2>1, <2>2, <3>4
      <4>5. Lines(log', Alike(type)) + Lines(swallowed', Alike(type)) + dropped'[JsonlDrop[type]]
              = Lines(log, Alike(type)) + Lines(swallowed, Alike(type)) + dropped[JsonlDrop[type]] + more
        BY SMTT(20), <4>1, <4>3, <4>4
      <4> QED BY <4>5 DEF more
    <3> QED BY Zenon, <2>1, <3>2, <3>3, <3>4, <3>5
  <2>4. CASE AppendFails(r)
    <3>1. dropped' = Add(dropped, {JsonlDrop[Head(out[r]).type]}) /\ log' = log
          /\ swallowed' = swallowed
      BY Zenon, <2>4 DEF AppendFails
    <3>2. /\ dropped' \in [DropKinds -> Nat]
          /\ \A c \in DropKinds : dropped'[c] = dropped[c] + (IF c \in {JsonlDrop[Head(out[r]).type]}
                                                                THEN 1 ELSE 0)
      <4>1. PICK S : S = {JsonlDrop[Head(out[r]).type]}
        BY Zenon
      <4>2. /\ Add(dropped, S) \in [DropKinds -> Nat]
            /\ \A c \in DropKinds : Add(dropped, S)[c] = dropped[c] + (IF c \in S THEN 1 ELSE 0)
        BY <2>1, AddTyped
      <4> QED BY Zenon, <3>1, <4>1, <4>2
    <3>3. \A type \in Types :
            dropped'[JsonlDrop[type]] =
              dropped[JsonlDrop[type]] + (IF Head(out[r]).type \in Alike(type) THEN 1 ELSE 0)
      <4> TAKE type \in Types
      <4>1. JsonlDrop[type] \in {JsonlDrop[Head(out[r]).type]} <=> Head(out[r]).type \in Alike(type)
        BY Zenon, JsonlFacts
      <4> QED BY Zenon, <2>1, <3>2, <4>1
    <3>4. ASSUME NEW type \in Types
          PROVE  Lines(log', Alike(type)) + Lines(swallowed', Alike(type)) + dropped'[JsonlDrop[type]]
                   = Lines(log, Alike(type)) + Lines(swallowed, Alike(type)) + dropped[JsonlDrop[type]]
                       + (IF Head(out[r]).type \in Alike(type) THEN 1 ELSE 0)
      <4> DEFINE more == IF Head(out[r]).type \in Alike(type) THEN 1 ELSE 0
      <4>1. more \in Nat
        OBVIOUS
      <4>3. dropped'[JsonlDrop[type]] = dropped[JsonlDrop[type]] + more
        BY ZenonT(40), <3>3
      <4> HIDE DEF more
      <4>4. Lines(log', Alike(type)) + Lines(swallowed', Alike(type)) + dropped'[JsonlDrop[type]]
              = Lines(log, Alike(type)) + Lines(swallowed, Alike(type)) + dropped[JsonlDrop[type]] + more
        BY <2>1, <2>2, <3>1, <4>1, <4>3
      <4> QED BY <4>4 DEF more
    <3> QED BY ZenonT(40), <2>1, <3>1, <3>2, <3>4
  <2> QED BY ZenonT(40), <2>3, <2>4
<1>1. LineDone(r) /\ pc[r] = "append"
  BY Zenon DEF AppendLine, AppendFails
<1>2. PICK e : /\ e.type \in Types /\ Head(out[r]) = e
               /\ \/ /\ out[r] = <<e>> /\ out' = [out EXCEPT ![r] = << >>]
                     /\ n' = Add(n, {})
                  \/ /\ out[r] = <<e, Event("quic_candidate")>>
                     /\ out' = [out EXCEPT ![r] = <<Event("quic_candidate")>>]
                     /\ n' = Add(n, {"quic_candidate"})
  BY Zenon, <1>1, LineEnds
<1>3. /\ IsSeq(log') /\ IsSeq(swallowed') /\ dropped' \in [DropKinds -> Nat]
      /\ \A type \in Types :
           /\ Lines(log', Alike(type)) \in Nat /\ Lines(swallowed', Alike(type)) \in Nat
           /\ Lines(log', Alike(type)) + Lines(swallowed', Alike(type)) + dropped'[JsonlDrop[type]]
                = Lines(log, Alike(type)) + Lines(swallowed, Alike(type)) + dropped[JsonlDrop[type]]
                    + (IF e.type \in Alike(type) THEN 1 ELSE 0)
  BY Zenon, <1>2, <1>LineGoes
<1>4. \A type \in Types : dropped'[JsonlDrop[type]] \in Nat
  BY Zenon, <1>3, JsonlFacts
<1>5. out[r] # << >>
  BY <1>2
<1>6. ASSUME NEW lines, out' = [out EXCEPT ![r] = lines], NEW type \in Types
      PROVE  Whereabouts(type)' =
               Whereabouts(type)
                 + (IF lines # << >> /\ Head(lines).type \in Alike(type) THEN 1 ELSE 0)
  BY ZenonT(40), <1>2, <1>3, <1>4, <1>5, <1>6, <1>LeavesWhere
<1>7. Tallied'
  <2>1. n' \in [Counters -> Nat]
    <3>1. \A S : Add(n, S) \in [Counters -> Nat]
      BY AddTyped DEF Tallied
    <3> QED BY Zenon, <1>2, <3>1
  <2> QED BY Zenon, <1>3, <2>1 DEF Tallied
<1>8. CASE out' = [out EXCEPT ![r] = << >>] /\ n' = Add(n, {})
  <2>1. PICK none : none = << >>
    OBVIOUS
  <2>2. ASSUME NEW type \in Types PROVE Whereabouts(type)' = Whereabouts(type)
    <3>1. Whereabouts(type)' = Whereabouts(type) + 0
      BY Zenon, <1>6, <1>8, <2>1
    <3>2. Whereabouts(type) \in Nat
      BY Zenon, WhereaboutsType
    <3> QED BY <3>1, <3>2
  <2> QED BY Zenon, <1>7, <1>8, <2>2
<1>9. CASE /\ out' = [out EXCEPT ![r] = <<Event("quic_candidate")>>]
           /\ n' = Add(n, {"quic_candidate"})
  <2>1. PICK lines : lines = <<Event("quic_candidate")>>
    BY Zenon
  <2>2. lines # << >> /\ Head(lines).type = "quic_candidate"
    BY <2>1, EventType
  <2> QED BY Zenon, <1>6, <1>7, <1>9, <2>1, <2>2
<1> QED BY ZenonT(40), <1>2, <1>8, <1>9

\* A record is counted with the line it leaves, or as a file event after the cap.
LEMMA HandleCounts ==
  ASSUME FiniteSetFacts, Holding, Tallied, scenario.logging, NEW r \in Rings, Handle(r)
  PROVE  /\ Tallied'
         /\ \A type \in Types \ {"io_uring_tls"} : Counted(type) => Counted(type)'
<1>1. PICK o \in Outcomes(r, cur[r].sample, cur[r].stamp), writes \in BOOLEAN :
        /\ writes <=> scenario.logging /\ o.lines # << >>
        /\ pc[r] = "handle"
        /\ n' = Add(n, o.count \cup (IF writes THEN {} ELSE Second(o.lines)))
        /\ dropped' = Add(dropped, {o.drop})
        /\ out' = [out EXCEPT ![r] = IF writes THEN o.lines ELSE << >>]
        /\ log' = log /\ swallowed' = swallowed
  BY ZenonT(40), HandleParts
<1>2. /\ o.drop \in ReaderDrops \cup {"none"}
      /\ o.drop # "none" => o.lines = << >>
      /\ \A type \in Types \ {"io_uring_tls"} :
           CounterOf(type) \in o.count <=>
             \/ o.lines # << >> /\ Head(o.lines).type \in Alike(type)
             \/ type = "fs_event" /\ o.drop = "fs_cap"
  BY Zenon, OutcomeShape, ShapeCounts
<1>3. Second(<< >>) = {}
  BY DEF Second
<1>4. out' = [out EXCEPT ![r] = o.lines] /\ n' = Add(n, o.count)
  <2>1. CASE writes
    <3>1. (IF writes THEN o.lines ELSE << >>) = o.lines
          /\ o.count \cup (IF writes THEN {} ELSE Second(o.lines)) = o.count
      BY Zenon, <2>1
    <3> QED BY Zenon, <1>1, <3>1
  <2>2. CASE ~ writes
    <3>1. o.lines = << >>
      BY Zenon, <1>1, <2>2
    <3>2. (IF writes THEN o.lines ELSE << >>) = o.lines
          /\ o.count \cup (IF writes THEN {} ELSE Second(o.lines)) = o.count
      BY Zenon, <1>3, <2>2, <3>1
    <3> QED BY Zenon, <1>1, <3>2
  <2> QED BY Zenon, <2>1, <2>2
<1>5. /\ \A c \in Counters : Add(n, o.count)[c] = n[c] + (IF c \in o.count THEN 1 ELSE 0)
      /\ \A c \in DropKinds :
           Add(dropped, {o.drop})[c] = dropped[c] + (IF c \in {o.drop} THEN 1 ELSE 0)
  BY AddTyped DEF Tallied
<1>6. Tallied'
  BY Zenon, HandleTallies
<1>7. "fs_cap" \in DropKinds /\ "fs_cap" \in ReaderDrops /\ "fs_cap" # "none"
  BY DEF DropKinds, ReaderDrops
<1>8. pc[r] \notin {"lock", "append"}
  BY <1>1
<1>9. ASSUME NEW type \in Types \ {"io_uring_tls"}, Counted(type) PROVE Counted(type)'
  <2> DEFINE more == IF o.lines # << >> /\ Head(o.lines).type \in Alike(type) THEN 1 ELSE 0
             cap == IF type = "fs_event" THEN dropped["fs_cap"] ELSE 0
             after == IF type = "fs_event" THEN dropped'["fs_cap"] ELSE 0
  <2>1. Whereabouts(type)' = Whereabouts(type) + more
    BY Zenon, <1>1, <1>2, <1>4, <1>8, HandleWhere
  <2>2. n'[CounterOf(type)] = n[CounterOf(type)] + (IF CounterOf(type) \in o.count THEN 1 ELSE 0)
    BY Zenon, <1>4, <1>5, CounterFacts
  <2>3. dropped'["fs_cap"] = dropped["fs_cap"] + (IF o.drop = "fs_cap" THEN 1 ELSE 0)
    BY Zenon, <1>1, <1>5, <1>7
  <2>4. Whereabouts(type) \in Nat /\ dropped["fs_cap"] \in Nat
    BY Zenon, <1>7, WhereaboutsType DEF Tallied
  <2>5. n[CounterOf(type)] = Whereabouts(type) + cap
    BY Zenon, <1>9 DEF Counted
  <2>6. n'[CounterOf(type)] = Whereabouts(type)' + after
    <3>1. CASE o.drop = "fs_cap"
      <4>1. more = 0 /\ (CounterOf(type) \in o.count <=> type = "fs_event")
        BY ZenonT(40), <1>2, <1>7, <3>1
      <4> HIDE DEF more
      <4> QED BY SMTT(20), <2>1, <2>2, <2>3, <2>4, <2>5, <3>1, <4>1
    <3>2. CASE o.drop # "fs_cap"
      <4>1. CounterOf(type) \in o.count <=> o.lines # << >> /\ Head(o.lines).type \in Alike(type)
        BY Zenon, <1>2, <3>2
      <4>2. after = cap
        BY SMTT(20), <2>3, <2>4, <3>2
      <4>3. more = IF CounterOf(type) \in o.count THEN 1 ELSE 0
        BY Zenon, <4>1
      <4> HIDE DEF more, cap, after
      <4>4. cap \in Nat
        BY <2>4 DEF cap
      <4> QED BY SMTT(20), <2>1, <2>2, <2>4, <2>5, <4>2, <4>3, <4>4
    <3> QED BY ZenonT(40), <3>1, <3>2
  <2> QED BY Zenon, <2>6 DEF Counted
<1> QED BY Zenon, <1>6, <1>9

\* What neither counts nor ends a line leaves its whereabouts.
LEMMA AsideWhere ==
  ASSUME FiniteSetFacts, Tallied, Aside
  PROVE  Tallied' /\ \A type \in Types : Whereabouts(type)' = Whereabouts(type)
<1>1. UNCHANGED <<out, n, dropped>>
  BY Zenon DEF Aside
<1>2. CASE log' = log /\ swallowed' = swallowed
  BY Zenon, <1>1, <1>2 DEF Tallied, Whereabouts, Pending
<1>3. CASE WriteShutdownTelemetry
  <2>1. CASE FileTakes(MetaLine("", 0, log))
    <3>1. PICK line : line = MetaLine("", 0, log)
      OBVIOUS
    <3>2. line.event.type = "meta"
      BY ZenonT(40), <3>1 DEF MetaLine
    <3>3. "meta" \notin Types
      BY TypeList
    <3>4. IsSeq(log) /\ IsSeq(swallowed)
      BY Zenon DEF Tallied
    <3>5. /\ IsSeq(log') /\ IsSeq(swallowed')
          /\ \A types : /\ Lines(log, types) \in Nat /\ Lines(swallowed, types) \in Nat
                        /\ Lines(log', types) + Lines(swallowed', types)
                             = Lines(log, types) + Lines(swallowed, types)
                                 + (IF line.event.type \in types THEN 1 ELSE 0)
      BY Zenon, <2>1, <3>1, <3>4, TakesLines
    <3>6. \A type : "meta" \notin Alike(type)
      BY Zenon, <3>3 DEF Alike
    <3>7. \A a, b \in Nat : a + b + 0 = a + b
      OBVIOUS
    <3>8. ASSUME NEW type \in Types PROVE Whereabouts(type)' = Whereabouts(type)
      <4>1. Lines(log', Alike(type)) + Lines(swallowed', Alike(type))
              = Lines(log, Alike(type)) + Lines(swallowed, Alike(type))
        BY Zenon, <3>2, <3>5, <3>6, <3>7
      <4> QED BY Zenon, <1>1, <4>1 DEF Whereabouts, Pending
    <3> QED BY Zenon, <1>1, <3>5, <3>8 DEF Tallied
  <2> QED BY Zenon, <1>2, <1>3, <2>1 DEF WriteShutdownTelemetry
<1> QED BY Zenon, <1>2, <1>3 DEF Aside, Scribble

LEMMA AsideCounts ==
  ASSUME FiniteSetFacts, Tallied, Aside
  PROVE  Tallied' /\ \A type \in Types : Counted(type) => Counted(type)'
<1>1. UNCHANGED <<n, dropped>>
  BY Zenon DEF Aside
<1> QED BY Zenon, <1>1, AsideWhere DEF Counted

\* A line that is dealt with was counted; the second line of a QUIC candidate is counted
\* when its reader comes to it.
LEMMA EndCounts ==
  ASSUME FiniteSetFacts, Holding, Tallied, NEW r \in Rings, AppendLine(r) \/ AppendFails(r)
  PROVE  /\ Tallied'
         /\ \A type \in Types \ {"io_uring_tls"} : Counted(type) => Counted(type)'
<1>1. /\ Tallied'
      /\ \/ /\ n' = Add(n, {})
            /\ \A type \in Types : Whereabouts(type)' = Whereabouts(type)
         \/ /\ n' = Add(n, {"quic_candidate"})
            /\ \A type \in Types :
                 Whereabouts(type)' =
                   Whereabouts(type) + (IF "quic_candidate" \in Alike(type) THEN 1 ELSE 0)
  BY Zenon, EndsWhere
<1>2. "fs_cap" \in DropKinds /\ "fs_cap" \in ReaderDrops
  BY Zenon DEF DropKinds, ReaderDrops
<1>3. dropped'["fs_cap"] = dropped["fs_cap"] /\ dropped["fs_cap"] \in Nat
  <2>1. Head(out[r]).type \in Types
    BY Zenon, LineEnds DEF AppendLine, AppendFails
  <2>2. dropped \in [DropKinds -> Nat] /\ "fs_cap" # JsonlDrop[Head(out[r]).type]
    BY Zenon, <1>2, <2>1, JsonlFacts DEF Tallied
  <2>3. dropped' = dropped \/ dropped' = Add(dropped, {JsonlDrop[Head(out[r]).type]})
    BY Zenon DEF AppendLine, AppendFails
  <2> QED BY ZenonT(40), <1>2, <2>2, <2>3 DEF Add
<1>4. ASSUME NEW type \in Types \ {"io_uring_tls"}, Counted(type) PROVE Counted(type)'
  <2> DEFINE cap == IF type = "fs_event" THEN dropped["fs_cap"] ELSE 0
  <2>1. cap \in Nat
    BY <1>3
  <2>2. (IF type = "fs_event" THEN dropped'["fs_cap"] ELSE 0) = cap
    BY Zenon, <1>3
  <2>3. n[CounterOf(type)] = Whereabouts(type) + cap
    BY Zenon, <1>4 DEF Counted
  <2> HIDE DEF cap
  <2>4. Whereabouts(type) \in Nat
    BY ZenonT(40), WhereaboutsType
  <2>5. ASSUME NEW S, NEW more \in {0, 1}, n' = Add(n, S), CounterOf(type) \in S <=> more = 1,
               Whereabouts(type)' = Whereabouts(type) + more
        PROVE  n'[CounterOf(type)] = Whereabouts(type)' + cap
    <3>1. CounterOf(type) \in Counters /\ n \in [Counters -> Nat]
      BY Zenon, CounterFacts DEF Tallied
    <3>2. n'[CounterOf(type)] = n[CounterOf(type)] + more
      BY SMTT(20), <2>5, <3>1, AddTyped
    <3> QED BY SMTT(20), <2>1, <2>3, <2>4, <2>5, <3>2
  <2>6. n'[CounterOf(type)] = Whereabouts(type)' + cap
    <3>1. CASE n' = Add(n, {}) /\ Whereabouts(type)' = Whereabouts(type)
      BY SMTT(20), <2>4, <2>5, <3>1
    <3>2. CASE /\ n' = Add(n, {"quic_candidate"})
               /\ Whereabouts(type)' =
                    Whereabouts(type) + (IF "quic_candidate" \in Alike(type) THEN 1 ELSE 0)
      <4>1. PICK more \in {0, 1} :
              /\ more = 1 <=> "quic_candidate" \in Alike(type)
              /\ more = IF "quic_candidate" \in Alike(type) THEN 1 ELSE 0
        OBVIOUS
      <4>2. "quic_candidate" \in Alike(type) <=> CounterOf(type) \in {"quic_candidate"}
        <5>1. "quic_candidate" \in Types /\ CounterOf("quic_candidate") = "quic_candidate"
          BY TypeList DEF CounterOf
        <5> QED BY Zenon, <5>1 DEF Alike
      <4> QED BY Zenon, <2>5, <3>2, <4>1, <4>2
    <3> QED BY ZenonT(40), <1>1, <3>1, <3>2
  <2> QED BY Zenon, <2>2, <2>6 DEF Counted
<1> QED BY Zenon, <1>1, <1>4

\* At first there is nothing to count.
LEMMA CountedInit ==
  ASSUME FiniteSetFacts, Init
  PROVE  /\ Tallied /\ Glued
         /\ \A type \in Types \ {"io_uring_tls"} : Counted(type)
         /\ \A type \in Types : Whereabouts(type) = 0
<1>1. /\ n = [c \in Counters |-> 0] /\ dropped = [d \in DropKinds |-> 0]
      /\ swallowed = << >> /\ malformed = 0 /\ torn = FALSE
      /\ out = [r \in Rings |-> << >>]
      /\ log = << >> \/ log = <<MetaLine(scenario.env, scenario.allowlist, << >>)>>
  BY Zenon DEF Init
<1>2. Tallied
  <2>1. IsSeq(log)
    BY Zenon, LockedInit DEF Locked
  <2> QED BY <1>1, <2>1 DEF Tallied, IsSeq
<1>3. Glued
  <2>1. (IF torn THEN 1 ELSE 0) = 0 /\ torn \in BOOLEAN
    BY Zenon, <1>1
  <2>2. malformed \in Nat /\ Len(swallowed) + (IF torn THEN 1 ELSE 0) <= malformed
    BY <1>1, <2>1
  <2> QED BY Zenon, <2>1, <2>2 DEF Glued
<1>4. \A types : Lines(<< >>, types) = 0
  <2> TAKE types
  <2>1. PICK none : none = << >>
    OBVIOUS
  <2>2. {i \in 1..Len(none) : none[i].event.type \in types} = {}
    BY <2>1
  <2>3. Lines(none, types) = 0
    BY Zenon, <2>2, CardinalityEmpty DEF Lines
  <2> QED BY SMTT(20), <2>1, <2>3
<1>5. ASSUME NEW line, line.event.type = "meta", NEW types, "meta" \notin types
      PROVE  Lines(<<line>>, types) = 0
  <2>1. PICK none : none = << >>
    OBVIOUS
  <2>2. IsSeq(none) /\ Append(none, line) = <<line>>
    BY SMTT(20), <2>1 DEF IsSeq
  <2>3. \A l, ts : Lines(Append(none, l), ts) =
                     Lines(none, ts) + (IF l.event.type \in ts THEN 1 ELSE 0)
    BY LinesAppend, <2>2
  <2>4. (IF line.event.type \in types THEN 1 ELSE 0) = 0 /\ Lines(none, types) = 0
    BY ZenonT(40), <1>4, <1>5, <2>1
  <2>5. Lines(Append(none, line), types) = 0
    BY SMTT(20), <2>3, <2>4
  <2> QED BY Zenon, <2>2, <2>5
<1>6. ASSUME NEW type \in Types
      PROVE  Whereabouts(type) = 0 /\ dropped["fs_cap"] = 0
  <2>1. "meta" \notin Alike(type)
    BY TypeList DEF Alike
  <2>2. Lines(log, Alike(type)) = 0 /\ Lines(swallowed, Alike(type)) = 0
    <3>1. PICK line : line = MetaLine(scenario.env, scenario.allowlist, << >>)
      BY ZenonT(40)
    <3>2. line.event.type = "meta"
      BY <3>1 DEF MetaLine
    <3> QED BY ZenonT(40), <1>1, <1>4, <1>5, <2>1, <3>1, <3>2
  <2>3. Cardinality(Pending(Alike(type))) = 0
    <3>1. Pending(Alike(type)) = {}
      BY Zenon, <1>1 DEF Pending
    <3> QED BY Zenon, <3>1, CardinalityEmpty
  <2>4. dropped[JsonlDrop[type]] = 0 /\ dropped["fs_cap"] = 0
    <3>1. "fs_cap" \in DropKinds
      BY DEF DropKinds, ReaderDrops
    <3> QED BY Zenon, <1>1, <3>1, JsonlFacts
  <2> QED BY SMTT(20), <2>2, <2>3, <2>4 DEF Whereabouts
<1>7. ASSUME NEW type \in Types \ {"io_uring_tls"} PROVE Counted(type)
  <2>1. n[CounterOf(type)] = 0
    BY Zenon, <1>1, CounterFacts
  <2> QED BY <1>6, <2>1 DEF Counted
<1> QED BY Zenon, <1>2, <1>3, <1>6, <1>7

-----------------------------------------------------------------------------
(* The books balance.                                                      *)

Handling == {r \in Rings : pc[r] = "handle"}

\* The sums are sums of finitely many numbers.
Summable ==
  /\ policyCounts \in [Classes -> Nat] /\ silent \in Nat /\ reads \in Nat
  /\ IsFiniteSet(Units(policyCounts, Classes))
  /\ IsFiniteSet(Units(dropped, UncappedDrops))
  /\ IsFiniteSet(Units(n, LineCounters))

\* What RecordsAccounted says of the breakdowns, and of the records.
QuicAgrees == n["quic_observed"] = n["quic_candidate"] + (IF Len(out["udp"]) > 1 THEN 1 ELSE 0)

Breakdowns ==
  /\ Sum(policyCounts, Classes) = n["tcp"] + n["udp"] + n["http"] + n["tls"]
  /\ n["tls"] = n["full"] + n["partial"] + n["unknown"]
  /\ n["unknown_ktls"] <= n["unknown"]
  /\ n["confirmed"] + n["refused"] <= n["tcp_state"]
  /\ QuicAgrees

Balanced ==
  reads = silent + Sum(dropped, UncappedDrops) + Sum(n, LineCounters)
            + Whereabouts("io_uring_tls") + Cardinality(Handling)

LEMMA CounterNames ==
  /\ {"tcp", "udp", "http", "tls", "full", "partial", "unknown", "unknown_ktls", "confirmed",
      "refused", "tcp_state", "quic_observed", "quic_candidate"} \subseteq Counters
  /\ LineCounters \subseteq Counters /\ "quic_candidate" \notin LineCounters
  /\ UncappedDrops \subseteq DropKinds
<1>1. LineCounters \subseteq Counters /\ UncappedDrops \subseteq DropKinds
  BY Zenon DEF LineCounters, Counters, UncappedDrops, DropKinds
<1>2. CounterOf("quic_candidate") = "quic_candidate" /\ "quic_candidate" \in Types \ {"io_uring_tls"}
  BY TypeList DEF CounterOf
<1>3. "quic_candidate" \in Counters
  BY Zenon, <1>2 DEF Counters
<1>4. {"tcp", "udp", "http", "tls", "tcp_state"} \subseteq LineCounters
      /\ "quic_candidate" \notin LineCounters
  BY LineCounterList
<1>5. {"full", "partial", "unknown", "unknown_ktls", "quic_observed", "confirmed", "refused"}
        \subseteq Counters
  BY Zenon DEF Counters
<1> QED BY SMTT(20), <1>1, <1>3, <1>4, <1>5

\* The numbers in the breakdowns, in any state.
LEMMA CounterNumbers ==
  ASSUME Tallied
  PROVE  /\ n["tcp"] \in Nat /\ n["udp"] \in Nat /\ n["http"] \in Nat /\ n["tls"] \in Nat
         /\ n["full"] \in Nat /\ n["partial"] \in Nat /\ n["unknown"] \in Nat
         /\ n["unknown_ktls"] \in Nat /\ n["confirmed"] \in Nat /\ n["refused"] \in Nat
         /\ n["tcp_state"] \in Nat /\ n["quic_observed"] \in Nat /\ n["quic_candidate"] \in Nat
BY CounterNames DEF Tallied

\* One reader more or less is handling a record.
LEMMA HandlingChanges ==
  ASSUME FiniteSetFacts, Holding, NEW r \in Rings, NEW loc, pc' = [pc EXCEPT ![r] = loc]
  PROVE  /\ Cardinality(Handling) \in Nat
         /\ Cardinality(Handling') =
              Cardinality(Handling) - (IF pc[r] = "handle" THEN 1 ELSE 0)
                + (IF loc = "handle" THEN 1 ELSE 0)
<1> DEFINE P == {q \in Rings : pc[q] = "handle"}
           Q == {q \in Rings : pc'[q] = "handle"}
<1>1. Handling = P /\ Handling' = Q
  BY Zenon DEF Handling
<1>2. pc'[r] = loc /\ \A q \in Rings \ {r} : pc'[q] = pc[q]
  BY DEF Holding
<1>3. /\ r \in P <=> pc[r] = "handle"
      /\ r \in Q <=> loc = "handle"
      /\ \A q \in Rings \ {r} : q \in P <=> q \in Q
      /\ P \in SUBSET Rings /\ Q \in SUBSET Rings
  BY Zenon, <1>2
<1> HIDE DEF P, Q
<1>4. /\ Cardinality(P) \in Nat
      /\ Cardinality(Q) = Cardinality(P) - (IF r \in P THEN 1 ELSE 0) + (IF r \in Q THEN 1 ELSE 0)
  BY Zenon, <1>3, OneChanges
<1> QED BY Zenon, <1>1, <1>3, <1>4

\* A record is entered once.
LEMMA HandleBooks ==
  ASSUME FiniteSetFacts, Holding, Tallied, Summable, NEW r \in Rings, Handle(r)
  PROVE  /\ Summable'
         /\ Breakdowns => Breakdowns'
         /\ scenario.logging /\ Balanced => Balanced'
\* With a log, the reader keeps the lines of its record.
<1>HandleKeeps. ASSUME scenario.logging, NEW lines, NEW writes \in BOOLEAN,
                       writes <=> scenario.logging /\ lines # << >>,
                       out' = [out EXCEPT ![r] = IF writes THEN lines ELSE << >>]
                PROVE  out' = [out EXCEPT ![r] = lines]
  <2> USE <1>HandleKeeps
  <2>1. (IF writes THEN lines ELSE << >>) = lines
    BY Zenon
  <2> QED BY Zenon, <2>1
\* A record changes the breakdowns by what it enters there.
<1>HandleBreaks. ASSUME Breakdowns, pc[r] = "handle", NEW o, BrokenDown(r, o),
                        NEW writes \in BOOLEAN,
                        n' = Add(n, o.count \cup (IF writes THEN {} ELSE Second(o.lines))),
                        out' = [out EXCEPT ![r] = IF writes THEN o.lines ELSE << >>],
                        Sum(policyCounts, Classes) \in Nat,
                        \A k : Hits({o.class}, Classes, k) =>
                                 Sum(policyCounts', Classes) = Sum(policyCounts, Classes) + k
                 PROVE  Breakdowns'
  <2> USE <1>HandleBreaks
  <2> DEFINE later == IF writes THEN {} ELSE Second(o.lines)
  <2>1. later = {} \/ later = {"quic_candidate"}
    BY ZenonT(40) DEF BrokenDown
  <2>2. \A c \in Counters : n'[c] = n[c] + (IF c \in o.count \cup later THEN 1 ELSE 0)
    BY AddTyped DEF Tallied
  <2> HIDE DEF later
  <2>3. \A c \in Counters \ {"quic_candidate"} : n'[c] = n[c] + In(c, o.count)
    <3> TAKE c \in Counters \ {"quic_candidate"}
    <3>1. c \in o.count \cup later <=> c \in o.count
      BY Zenon, <2>1
    <3> QED BY Zenon, <2>2, <3>1 DEF In
  <2>4. /\ n'["tcp"] = n["tcp"] + In("tcp", o.count) /\ n'["udp"] = n["udp"] + In("udp", o.count)
        /\ n'["http"] = n["http"] + In("http", o.count) /\ n'["tls"] = n["tls"] + In("tls", o.count)
        /\ n'["full"] = n["full"] + In("full", o.count)
        /\ n'["partial"] = n["partial"] + In("partial", o.count)
        /\ n'["unknown"] = n["unknown"] + In("unknown", o.count)
        /\ n'["unknown_ktls"] = n["unknown_ktls"] + In("unknown_ktls", o.count)
        /\ n'["confirmed"] = n["confirmed"] + In("confirmed", o.count)
        /\ n'["refused"] = n["refused"] + In("refused", o.count)
        /\ n'["tcp_state"] = n["tcp_state"] + In("tcp_state", o.count)
        /\ n'["quic_observed"] = n["quic_observed"] + In("quic_observed", o.count)
    BY ZenonT(40), <2>3, CounterNames
  <2>5. /\ In("tcp", o.count) \in Nat /\ In("udp", o.count) \in Nat /\ In("http", o.count) \in Nat
        /\ In("tls", o.count) \in Nat /\ In("full", o.count) \in Nat
        /\ In("partial", o.count) \in Nat /\ In("unknown", o.count) \in Nat
        /\ In("unknown_ktls", o.count) \in Nat /\ In("confirmed", o.count) \in Nat
        /\ In("refused", o.count) \in Nat /\ In("tcp_state", o.count) \in Nat
    BY DEF In
  <2>0. /\ n["tcp"] \in Nat /\ n["udp"] \in Nat /\ n["http"] \in Nat /\ n["tls"] \in Nat
        /\ n["full"] \in Nat /\ n["partial"] \in Nat /\ n["unknown"] \in Nat
        /\ n["unknown_ktls"] \in Nat /\ n["confirmed"] \in Nat /\ n["refused"] \in Nat
        /\ n["tcp_state"] \in Nat /\ n["quic_observed"] \in Nat /\ n["quic_candidate"] \in Nat
    BY Zenon, CounterNumbers
  <2>6. Sum(policyCounts', Classes) = n'["tcp"] + n'["udp"] + n'["http"] + n'["tls"]
    <3>1. PICK k : /\ Hits({o.class}, Classes, k)
                   /\ k = In("tcp", o.count) + In("udp", o.count) + In("http", o.count)
                            + In("tls", o.count)
      BY Zenon DEF BrokenDown
    <3>2. Sum(policyCounts', Classes) = Sum(policyCounts, Classes) + k
      BY Zenon, <3>1
    <3>3. Sum(policyCounts, Classes) = n["tcp"] + n["udp"] + n["http"] + n["tls"]
      BY Zenon DEF Breakdowns
    <3>4. Sum(policyCounts', Classes)
            = (n["tcp"] + n["udp"] + n["http"] + n["tls"])
                + (In("tcp", o.count) + In("udp", o.count) + In("http", o.count) + In("tls", o.count))
      BY Zenon, <3>1, <3>2, <3>3
    <3>5. (n["tcp"] + n["udp"] + n["http"] + n["tls"])
              + (In("tcp", o.count) + In("udp", o.count) + In("http", o.count) + In("tls", o.count))
            = (n["tcp"] + In("tcp", o.count)) + (n["udp"] + In("udp", o.count))
                + (n["http"] + In("http", o.count)) + (n["tls"] + In("tls", o.count))
      <4> DEFINE a == n["tcp"]
                 b == n["udp"]
                 c == n["http"]
                 d == n["tls"]
                 p == In("tcp", o.count)
                 q == In("udp", o.count)
                 v == In("http", o.count)
                 w == In("tls", o.count)
      <4>1. /\ a \in Nat /\ b \in Nat /\ c \in Nat /\ d \in Nat
            /\ p \in Nat /\ q \in Nat /\ v \in Nat /\ w \in Nat
        BY ZenonT(40), <2>0, <2>5
      <4> HIDE DEF a, b, c, d, p, q, v, w
      <4>2. (a + b + c + d) + (p + q + v + w) = (a + p) + (b + q) + (c + v) + (d + w)
        BY <4>1
      <4> QED BY Zenon, <4>2 DEF a, b, c, d, p, q, v, w
    <3> QED BY Zenon, <2>4, <3>4, <3>5
  <2>7. /\ n'["tls"] = n'["full"] + n'["partial"] + n'["unknown"]
        /\ n'["unknown_ktls"] <= n'["unknown"]
        /\ n'["confirmed"] + n'["refused"] <= n'["tcp_state"]
    <3>1. /\ n["tls"] = n["full"] + n["partial"] + n["unknown"]
          /\ n["unknown_ktls"] <= n["unknown"]
          /\ n["confirmed"] + n["refused"] <= n["tcp_state"]
      BY Zenon DEF Breakdowns
    <3>2. /\ In("tls", o.count) = In("full", o.count) + In("partial", o.count) + In("unknown", o.count)
          /\ In("unknown_ktls", o.count) <= In("unknown", o.count)
          /\ In("confirmed", o.count) + In("refused", o.count) <= In("tcp_state", o.count)
      BY Zenon DEF BrokenDown
    <3> DEFINE a == n["full"]
               b == n["partial"]
               c == n["unknown"]
               d == n["unknown_ktls"]
               x == n["confirmed"]
               y == n["refused"]
               z == n["tcp_state"]
               p == In("full", o.count)
               q == In("partial", o.count)
               v == In("unknown", o.count)
               w == In("unknown_ktls", o.count)
               f == In("confirmed", o.count)
               g == In("refused", o.count)
               h == In("tcp_state", o.count)
    <3>3. /\ a \in Nat /\ b \in Nat /\ c \in Nat /\ d \in Nat /\ x \in Nat /\ y \in Nat /\ z \in Nat
          /\ p \in Nat /\ q \in Nat /\ v \in Nat /\ w \in Nat /\ f \in Nat /\ g \in Nat /\ h \in Nat
          /\ d <= c /\ w <= v /\ x + y <= z /\ f + g <= h
      BY ZenonT(40), <2>0, <2>5, <3>1, <3>2
    <3> HIDE DEF a, b, c, d, x, y, z, p, q, v, w, f, g, h
    <3>4. /\ (a + b + c) + (p + q + v) = (a + p) + (b + q) + (c + v)
          /\ d + w <= c + v
          /\ (x + f) + (y + g) <= z + h
      BY <3>3
    <3> QED BY Zenon, <2>4, <3>1, <3>2, <3>4 DEF a, b, c, d, x, y, z, p, q, v, w, f, g, h
  <2>8. n'["quic_observed"] = n'["quic_candidate"] + (IF Len(out'["udp"]) > 1 THEN 1 ELSE 0)
    <3>0. n["quic_candidate"] + 0 = n["quic_candidate"] /\ n["quic_observed"] + 0 = n["quic_observed"]
      <4>1. \A x \in Nat : x + 0 = x
        OBVIOUS
      <4> QED BY ZenonT(40), <2>0, <4>1
    <3>1. n["quic_observed"] = n["quic_candidate"] + (IF Len(out["udp"]) > 1 THEN 1 ELSE 0)
      BY Zenon DEF Breakdowns, QuicAgrees
    <3>2. n'["quic_candidate"] = n["quic_candidate"] + (IF "quic_candidate" \in later THEN 1 ELSE 0)
      <4>1. "quic_candidate" \in Counters
        BY CounterNames
      <4>2. "quic_candidate" \in o.count \cup later <=> "quic_candidate" \in later
        BY Zenon DEF BrokenDown
      <4> QED BY ZenonT(40), <2>2, <4>1, <4>2
    <3>3. r = "udp" => ~ (Len(out["udp"]) > 1)
      <4>1. out[r] = << >>
        BY ZenonT(40) DEF Holding, Held
      <4>2. ~ (Len(<< >>) > 1)
        OBVIOUS
      <4> QED BY Zenon, <4>1, <4>2
    <3>4. CASE ~ (Len(o.lines) > 1) /\ Second(o.lines) = {} /\ "quic_observed" \notin o.count
      <4>1. later = {} /\ In("quic_observed", o.count) = 0
        BY ZenonT(40), <3>4 DEF later, In
      <4>2. Len(out'["udp"]) > 1 <=> Len(out["udp"]) > 1
        <5>1. CASE r = "udp"
          <6>1. out'["udp"] = o.lines \/ out'["udp"] = << >>
            BY <5>1 DEF Holding
          <6>2. ~ (Len(<< >>) > 1)
            OBVIOUS
          <6> QED BY Zenon, <3>3, <3>4, <5>1, <6>1, <6>2
        <5>2. CASE r # "udp"
          <6>1. out'["udp"] = out["udp"]
            BY <5>2 DEF Rings, Holding
          <6> QED BY Zenon, <6>1
        <5> QED BY ZenonT(40), <5>1, <5>2
      <4>3. n'["quic_observed"] = n["quic_observed"] + 0 /\ n'["quic_candidate"] = n["quic_candidate"] + 0
        BY Zenon, <2>4, <3>2, <4>1
      <4> QED BY Zenon, <3>0, <3>1, <4>2, <4>3
    <3>5. CASE /\ r = "udp" /\ Len(o.lines) > 1 /\ Second(o.lines) = {"quic_candidate"}
               /\ "quic_observed" \in o.count
      <4>1. In("quic_observed", o.count) = 1
        BY ZenonT(40), <3>5 DEF In
      <4>2. (Len(out'["udp"]) > 1 /\ "quic_candidate" \notin later)
            \/ (~ (Len(out'["udp"]) > 1) /\ "quic_candidate" \in later)
        <5>1. CASE writes
          <6>1. out'["udp"] = o.lines /\ later = {}
            BY ZenonT(40), <3>5, <5>1 DEF Holding, later
          <6> QED BY ZenonT(40), <3>5, <6>1
        <5>2. CASE ~ writes
          <6>1. out'["udp"] = << >> /\ later = {"quic_candidate"}
            BY <3>5, <5>2 DEF Holding, later
          <6>2. ~ (Len(<< >>) > 1)
            OBVIOUS
          <6> QED BY ZenonT(40), <6>1, <6>2
        <5> QED BY ZenonT(40), ZenonT(40), <5>1, <5>2
      <4>3. n["quic_observed"] = n["quic_candidate"]
        <5>1. n["quic_observed"] = n["quic_candidate"] + 0
          BY Zenon, <3>1, <3>3, <3>5
        <5> QED BY Zenon, <3>0, <5>1
      <4>4. n'["quic_observed"] = n["quic_candidate"] + 1
        BY Zenon, <2>4, <4>1, <4>3
      <4>5. CASE Len(out'["udp"]) > 1 /\ "quic_candidate" \notin later
        <5>1. n'["quic_candidate"] = n["quic_candidate"] + 0
          BY Zenon, <3>2, <4>5
        <5>2. n'["quic_candidate"] = n["quic_candidate"]
          BY Zenon, <3>0, <5>1
        <5> QED BY Zenon, <4>4, <4>5, <5>2
      <4>6. CASE ~ (Len(out'["udp"]) > 1) /\ "quic_candidate" \in later
        <5>1. n'["quic_candidate"] = n["quic_candidate"] + 1
          BY ZenonT(40), <3>2, <4>6
        <5>2. n["quic_candidate"] + 1 = n["quic_candidate"] + 1 + 0
          <6>1. \A x \in Nat : x + 1 = x + 1 + 0
            OBVIOUS
          <6> QED BY ZenonT(40), <2>0, <6>1
        <5> QED BY Zenon, <4>4, <4>6, <5>1, <5>2
      <4> QED BY Zenon, <4>2, <4>5, <4>6
    <3> QED BY Zenon, <3>4, <3>5 DEF BrokenDown
  <2> QED BY Zenon, <2>6, <2>7, <2>8 DEF Breakdowns, QuicAgrees
<1>1. PICK o \in Outcomes(r, cur[r].sample, cur[r].stamp), writes \in BOOLEAN :
        /\ writes <=> scenario.logging /\ o.lines # << >>
        /\ pc[r] = "handle"
        /\ n' = Add(n, o.count \cup (IF writes THEN {} ELSE Second(o.lines)))
        /\ policyCounts' = Add(policyCounts, {o.class})
        /\ dropped' = Add(dropped, {o.drop})
        /\ silent' = silent + (IF r \in QuietRings /\ o.drop = "none" /\ o.lines = << >>
                                 THEN 1 ELSE 0)
        /\ out' = [out EXCEPT ![r] = IF writes THEN o.lines ELSE << >>]
        /\ pc' = [pc EXCEPT ![r] = IF writes THEN "lock" ELSE "read"]
        /\ UNCHANGED <<log, swallowed, reads>>
  BY Zenon, HandleParts
<1>2. BrokenDown(r, o) /\ Entered(r, o)
  BY Zenon, OutcomeShape, ShapeBooks
<1>3. PICK later : later = IF writes THEN {} ELSE Second(o.lines)
  BY Zenon
<1>4. \A x \in LineCounters : x \notin later
  <2>1. later = {} \/ later = {"quic_candidate"}
    BY Zenon, <1>2, <1>3 DEF BrokenDown
  <2> QED BY Zenon, <2>1, CounterNames
<1>5. PICK drop, line, quiet, plain \in {0, 1} :
        /\ drop + line + quiet + plain = 1
        /\ Hits({o.drop}, UncappedDrops, drop)
        /\ Hits(o.count, LineCounters, line)
        /\ quiet = IF r \in QuietRings /\ o.drop = "none" /\ o.lines = << >> THEN 1 ELSE 0
        /\ plain = IF o.lines # << >> /\ Head(o.lines).type \in Alike("io_uring_tls") THEN 1 ELSE 0
  BY Zenon, <1>2 DEF Entered
<1>6. Hits(o.count \cup later, LineCounters, line)
  BY Zenon, <1>4, <1>5 DEF Hits
<1>7. /\ Sum(dropped, UncappedDrops) \in Nat
      /\ IsFiniteSet(Units(Add(dropped, {o.drop}), UncappedDrops))
      /\ Sum(Add(dropped, {o.drop}), UncappedDrops) = Sum(dropped, UncappedDrops) + drop
  <2>1. /\ dropped \in [DropKinds -> Nat] /\ UncappedDrops \in SUBSET DropKinds
        /\ IsFiniteSet(Units(dropped, UncappedDrops))
    BY Zenon, CounterNames DEF Tallied, Summable
  <2>2. PICK T : T = {o.drop}
    BY Zenon
  <2>3. Hits(T, UncappedDrops, drop)
    BY Zenon, <1>5, <2>2
  <2>4. /\ Sum(dropped, UncappedDrops) \in Nat /\ IsFiniteSet(Units(Add(dropped, T), UncappedDrops))
        /\ Sum(Add(dropped, T), UncappedDrops) = Sum(dropped, UncappedDrops) + drop
    BY SMTT(20), <2>1, <2>3, SumAdd
  <2> QED BY Zenon, <2>2, <2>4
<1>8. /\ Sum(n, LineCounters) \in Nat
      /\ IsFiniteSet(Units(Add(n, o.count \cup later), LineCounters))
      /\ Sum(Add(n, o.count \cup later), LineCounters) = Sum(n, LineCounters) + line
  <2>1. /\ n \in [Counters -> Nat] /\ LineCounters \in SUBSET Counters
        /\ IsFiniteSet(Units(n, LineCounters))
    BY Zenon, CounterNames DEF Tallied, Summable
  <2>2. PICK T : T = o.count \cup later
    BY Zenon
  <2>3. Hits(T, LineCounters, line)
    BY Zenon, <1>6, <2>2
  <2>4. /\ Sum(n, LineCounters) \in Nat /\ IsFiniteSet(Units(Add(n, T), LineCounters))
        /\ Sum(Add(n, T), LineCounters) = Sum(n, LineCounters) + line
    BY SMTT(20), <2>1, <2>3, SumAdd
  <2> QED BY Zenon, <2>2, <2>4
<1>9. ASSUME NEW k, Hits({o.class}, Classes, k)
      PROVE  /\ Sum(policyCounts, Classes) \in Nat
             /\ IsFiniteSet(Units(Add(policyCounts, {o.class}), Classes))
             /\ Sum(Add(policyCounts, {o.class}), Classes) = Sum(policyCounts, Classes) + k
  <2>1. /\ policyCounts \in [Classes -> Nat] /\ Classes \in SUBSET Classes
        /\ IsFiniteSet(Units(policyCounts, Classes))
    BY Zenon DEF Summable
  <2>2. PICK T : T = {o.class}
    BY Zenon
  <2>3. Hits(T, Classes, k)
    BY ZenonT(40), <1>9, <2>2
  <2>4. /\ Sum(policyCounts, Classes) \in Nat /\ IsFiniteSet(Units(Add(policyCounts, T), Classes))
        /\ Sum(Add(policyCounts, T), Classes) = Sum(policyCounts, Classes) + k
    BY SMTT(20), <2>1, <2>3, SumAdd
  <2> QED BY Zenon, <2>2, <2>4
<1>10. Summable'
  <2>1. policyCounts' \in [Classes -> Nat]
    <3>1. \A S : Add(policyCounts, S) \in [Classes -> Nat]
      BY ZenonT(40), AddTyped DEF Summable
    <3> QED BY Zenon, <1>1, <3>1
  <2>2. silent' \in Nat /\ reads' \in Nat
    <3>1. reads' = reads /\ (silent' = silent + 1 \/ silent' = silent + 0)
      BY ZenonT(40), <1>1
    <3>2. \A x \in Nat : x + 1 \in Nat /\ x + 0 \in Nat
      OBVIOUS
    <3> QED BY Zenon, <3>1, <3>2 DEF Summable
  <2>3. IsFiniteSet(Units(policyCounts', Classes))
    BY Zenon, <1>1, <1>2, <1>9 DEF BrokenDown
  <2>4. IsFiniteSet(Units(dropped', UncappedDrops)) /\ IsFiniteSet(Units(n', LineCounters))
    BY Zenon, <1>1, <1>3, <1>7, <1>8
  <2> QED BY Zenon, <2>1, <2>2, <2>3, <2>4 DEF Summable, Units
<1>11. ASSUME Breakdowns PROVE Breakdowns'
  <2>1. Sum(policyCounts, Classes) \in Nat
    BY Zenon, <1>2, <1>9 DEF BrokenDown
  <2>2. \A k : Hits({o.class}, Classes, k) =>
                 Sum(policyCounts', Classes) = Sum(policyCounts, Classes) + k
    BY Zenon, <1>1, <1>9
  <2> QED BY Zenon, <1>1, <1>2, <1>11, <2>1, <2>2, <1>HandleBreaks
<1>12. ASSUME scenario.logging, Balanced PROVE Balanced'
  <2>1. out' = [out EXCEPT ![r] = o.lines]
    BY Zenon, <1>1, <1>12, <1>HandleKeeps
  <2>2. o.drop \in ReaderDrops \cup {"none"} /\ pc[r] \notin {"lock", "append"}
    <3>1. o.drop \in ReaderDrops \cup {"none"}
      BY Zenon, OutcomeShape, ShapeCounts
    <3> QED BY Zenon, <1>1, <3>1
  <2>3. "io_uring_tls" \in Types
    BY TypeList
  <2>4. Whereabouts("io_uring_tls")' = Whereabouts("io_uring_tls") + plain
    BY ZenonT(40), <1>1, <1>5, <2>1, <2>2, <2>3, HandleWhere
  <2>5. Whereabouts("io_uring_tls") \in Nat
    BY ZenonT(40), <2>3, WhereaboutsType
  <2>6. PICK loc : loc = (IF writes THEN "lock" ELSE "read") /\ loc # "handle"
    OBVIOUS
  <2>7. /\ Cardinality(Handling) \in Nat
        /\ Cardinality(Handling') = Cardinality(Handling) - 1 + 0
    BY ZenonT(40), <1>1, <2>6, HandlingChanges
  <2>8. /\ reads' = reads /\ silent' = silent + quiet
        /\ Sum(dropped', UncappedDrops) = Sum(dropped, UncappedDrops) + drop
        /\ Sum(n', LineCounters) = Sum(n, LineCounters) + line
    BY ZenonT(40), <1>1, <1>3, <1>5, <1>7, <1>8
  <2>9. reads = silent + Sum(dropped, UncappedDrops) + Sum(n, LineCounters)
                  + Whereabouts("io_uring_tls") + Cardinality(Handling)
        /\ silent \in Nat
    BY Zenon, <1>12 DEF Balanced, Summable
  <2>10. reads' = silent' + Sum(dropped', UncappedDrops) + Sum(n', LineCounters)
                    + Whereabouts("io_uring_tls")' + Cardinality(Handling')
    <3> DEFINE a == Sum(dropped, UncappedDrops)
               b == Sum(n, LineCounters)
               w == Whereabouts("io_uring_tls")
               h == Cardinality(Handling)
    <3>1. a \in Nat /\ b \in Nat /\ w \in Nat /\ h \in Nat /\ silent \in Nat
      BY Zenon, <1>7, <1>8, <2>5, <2>7, <2>9
    <3>2. reads' = silent + a + b + w + h
      BY ZenonT(40), <2>8, <2>9
    <3> HIDE DEF a, b, w, h
    <3>3. reads' = (silent + quiet) + (a + drop) + (b + line) + (w + plain) + (h - 1 + 0)
      <4>1. /\ drop \in {0, 1} /\ line \in {0, 1} /\ quiet \in {0, 1} /\ plain \in {0, 1}
            /\ drop + line + quiet + plain = 1
        BY Zenon, <1>5
      <4> QED BY SMTT(20), <3>1, <3>2, <4>1
    <3> QED BY ZenonT(40), <2>4, <2>7, <2>8, <3>3 DEF a, b, w, h
  <2> QED BY Zenon, <2>10 DEF Balanced, Sum
<1> QED BY ZenonT(40), <1>10, <1>11, <1>12

\* A line that is dealt with has been entered; the second line of a QUIC candidate is
\* entered now.
LEMMA EndBooks ==
  ASSUME FiniteSetFacts, Holding, Tallied, Summable, NEW r \in Rings, AppendLine(r) \/ AppendFails(r)
  PROVE  /\ Summable'
         /\ Breakdowns => Breakdowns'
         /\ Balanced => Balanced'
<1>1. LineDone(r) /\ pc[r] = "append" /\ UNCHANGED <<policyCounts, silent, reads>>
  BY Zenon DEF AppendLine, AppendFails
<1>2. PICK e : /\ e.type \in Types /\ Head(out[r]) = e
               /\ \/ /\ out[r] = <<e>> /\ out' = [out EXCEPT ![r] = << >>]
                     /\ pc' = [pc EXCEPT ![r] = "read"] /\ n' = Add(n, {})
                  \/ /\ r = "udp" /\ e.type = "udp"
                     /\ out[r] = <<e, Event("quic_candidate")>>
                     /\ out' = [out EXCEPT ![r] = <<Event("quic_candidate")>>]
                     /\ pc' = [pc EXCEPT ![r] = "lock"] /\ n' = Add(n, {"quic_candidate"})
  BY Zenon, <1>1, LineEnds
<1>3. PICK T : n' = Add(n, T) /\ (T = {} \/ T = {"quic_candidate"})
  BY Zenon, <1>2
<1>4. Sum(n', LineCounters) = Sum(n, LineCounters) /\ IsFiniteSet(Units(n', LineCounters))
  <2>1. /\ n \in [Counters -> Nat] /\ LineCounters \in SUBSET Counters
        /\ IsFiniteSet(Units(n, LineCounters))
    BY Zenon, CounterNames DEF Tallied, Summable
  <2>2. Hits(T, LineCounters, 0)
    BY ZenonT(40), <1>3, CounterNames DEF Hits
  <2>3. /\ Sum(n, LineCounters) \in Nat /\ IsFiniteSet(Units(Add(n, T), LineCounters))
        /\ Sum(Add(n, T), LineCounters) = Sum(n, LineCounters) + 0
    BY ZenonT(40), <2>1, <2>2, SumAdd
  <2>4. Sum(Add(n, T), LineCounters) = Sum(n, LineCounters)
    BY <2>3
  <2> QED BY Zenon, <1>3, <2>3, <2>4
<1>5. /\ Sum(dropped', UncappedDrops) = Sum(dropped, UncappedDrops)
      /\ IsFiniteSet(Units(dropped', UncappedDrops))
  <2>1. /\ dropped \in [DropKinds -> Nat] /\ UncappedDrops \in SUBSET DropKinds
        /\ IsFiniteSet(Units(dropped, UncappedDrops))
    BY Zenon, CounterNames DEF Tallied, Summable
  <2>2. CASE AppendLine(r)
    <3>1. dropped' = dropped
      BY Zenon, <2>2 DEF AppendLine
    <3> QED BY Zenon, <2>1, <3>1
  <2>3. CASE AppendFails(r)
    <3>1. PICK D : D = {JsonlDrop[e.type]} /\ dropped' = Add(dropped, D)
      BY Zenon, <1>2, <2>3 DEF AppendFails
    <3>2. Hits(D, UncappedDrops, 0)
      BY ZenonT(40), <1>2, <3>1, JsonlFacts DEF Hits, UncappedDrops
    <3>3. /\ Sum(dropped, UncappedDrops) \in Nat /\ IsFiniteSet(Units(Add(dropped, D), UncappedDrops))
          /\ Sum(Add(dropped, D), UncappedDrops) = Sum(dropped, UncappedDrops) + 0
      BY <2>1, <3>2, SumAdd
    <3>4. Sum(Add(dropped, D), UncappedDrops) = Sum(dropped, UncappedDrops)
      BY <3>3
    <3> QED BY Zenon, <3>1, <3>3, <3>4
  <2> QED BY Zenon, <2>2, <2>3
<1>6. Summable'
  BY ZenonT(40), <1>1, <1>4, <1>5 DEF Summable, Units
<1>7. ASSUME Breakdowns PROVE Breakdowns'
  <2>1. \A c \in Counters \ {"quic_candidate"} : n'[c] = n[c]
    <3>1. \A c \in Counters : n'[c] = n[c] + (IF c \in T THEN 1 ELSE 0)
      <4>1. n \in [Counters -> Nat]
        BY Zenon DEF Tallied
      <4>2. \A c \in Counters : Add(n, T)[c] = n[c] + (IF c \in T THEN 1 ELSE 0)
        BY SMTT(20), <4>1, AddTyped
      <4> QED BY Zenon, <1>3, <4>2
    <3> TAKE c \in Counters \ {"quic_candidate"}
    <3>2. n'[c] = n[c] + 0 /\ n[c] \in Nat
      BY ZenonT(40), <1>3, <3>1 DEF Tallied
    <3> QED BY <3>2
  <2>2. /\ n'["tcp"] = n["tcp"] /\ n'["udp"] = n["udp"] /\ n'["http"] = n["http"]
        /\ n'["tls"] = n["tls"] /\ n'["full"] = n["full"] /\ n'["partial"] = n["partial"]
        /\ n'["unknown"] = n["unknown"] /\ n'["unknown_ktls"] = n["unknown_ktls"]
        /\ n'["confirmed"] = n["confirmed"] /\ n'["refused"] = n["refused"]
        /\ n'["tcp_state"] = n["tcp_state"] /\ n'["quic_observed"] = n["quic_observed"]
    BY SMTT(20), <2>1, CounterNames
  <2>3. Sum(policyCounts', Classes) = Sum(policyCounts, Classes)
    BY Zenon, <1>1
  <2>4. QuicAgrees'
    <3>1. n["quic_candidate"] \in Nat /\ "quic_candidate" \in Counters
      BY Zenon, CounterNumbers, CounterNames
    <3>2. n["quic_observed"] = n["quic_candidate"] + (IF Len(out["udp"]) > 1 THEN 1 ELSE 0)
      BY Zenon, <1>7 DEF Breakdowns, QuicAgrees
    <3>3. \A a, b : Len(<<a>>) = 1 /\ Len(<<a, b>>) = 2 /\ Len(<< >>) = 0 /\ 2 > 1 /\ ~ (1 > 1) /\ ~ (0 > 1)
      OBVIOUS
    <3>4. CASE /\ out[r] = <<e>> /\ out' = [out EXCEPT ![r] = << >>] /\ n' = Add(n, {})
      <4>1. n'["quic_candidate"] = n["quic_candidate"]
        BY SMTT(20), <3>1, <3>4, AddTyped DEF Tallied
      <4>2. Len(out'["udp"]) > 1 <=> Len(out["udp"]) > 1
        <5>1. CASE r = "udp"
          <6>1. out'["udp"] = << >> /\ out["udp"] = <<e>>
            BY <3>4, <5>1 DEF Holding
          <6> QED BY Zenon, <3>3, <6>1
        <5>2. CASE r # "udp"
          <6>1. out'["udp"] = out["udp"]
            BY <3>4, <5>2 DEF Holding, Rings
          <6> QED BY Zenon, <6>1
        <5> QED BY Zenon, <5>1, <5>2
      <4> QED BY ZenonT(40), <2>2, <3>2, <4>1, <4>2 DEF QuicAgrees
    <3>5. CASE /\ r = "udp" /\ out[r] = <<e, Event("quic_candidate")>>
               /\ out' = [out EXCEPT ![r] = <<Event("quic_candidate")>>]
               /\ n' = Add(n, {"quic_candidate"})
      <4>1. n'["quic_candidate"] = n["quic_candidate"] + 1
        BY SMTT(20), <3>1, <3>5, AddTyped DEF Tallied
      <4>2. PICK q : q = Event("quic_candidate")
        OBVIOUS
      <4>3. out["udp"] = <<e, q>> /\ out'["udp"] = <<q>>
        BY <3>5, <4>2 DEF Holding
      <4>4. Len(out["udp"]) > 1 /\ ~ (Len(out'["udp"]) > 1)
        BY Zenon, <3>3, <4>3
      <4>5. n["quic_candidate"] + 1 = n["quic_candidate"] + 1 + 0
        BY <3>1
      <4> QED BY ZenonT(40), <2>2, <3>2, <4>1, <4>4, <4>5 DEF QuicAgrees
    <3> QED BY Zenon, <1>2, <3>4, <3>5
  <2> QED BY Zenon, <1>7, <2>2, <2>3, <2>4 DEF Breakdowns
<1>8. ASSUME Balanced PROVE Balanced'
  <2>1. "io_uring_tls" \in Types /\ "quic_candidate" \in Types
    BY TypeList
  <2>2. Whereabouts("io_uring_tls")' = Whereabouts("io_uring_tls")
    <3>1. "quic_candidate" \notin Alike("io_uring_tls")
      BY Zenon, <2>1, AloneAlike
    <3>2. \/ Whereabouts("io_uring_tls")' = Whereabouts("io_uring_tls")
          \/ Whereabouts("io_uring_tls")' = Whereabouts("io_uring_tls") + 0
      BY Zenon, <2>1, <3>1, EndsWhere
    <3>3. Whereabouts("io_uring_tls") \in Nat
      BY Zenon, <2>1, WhereaboutsType
    <3> QED BY SMTT(20), <3>2, <3>3
  <2>3. Cardinality(Handling') = Cardinality(Handling)
    <3>1. PICK loc : pc' = [pc EXCEPT ![r] = loc] /\ loc # "handle"
      <4>1. "read" # "handle" /\ "lock" # "handle"
        OBVIOUS
      <4> QED BY Zenon, <1>2, <4>1
    <3>2. pc[r] # "handle"
      BY <1>1
    <3>3. Cardinality(Handling) \in Nat /\ Cardinality(Handling') = Cardinality(Handling) - 0 + 0
      BY Zenon, <3>1, <3>2, HandlingChanges
    <3> QED BY <3>3
  <2>4. /\ reads' = reads /\ silent' = silent
        /\ reads = silent + Sum(dropped, UncappedDrops) + Sum(n, LineCounters)
                     + Whereabouts("io_uring_tls") + Cardinality(Handling)
    BY Zenon, <1>1, <1>8 DEF Balanced
  <2>5. reads' = silent' + Sum(dropped', UncappedDrops) + Sum(n', LineCounters)
                   + Whereabouts("io_uring_tls")' + Cardinality(Handling')
    BY Zenon, <1>4, <1>5, <2>2, <2>3, <2>4
  <2> QED BY Zenon, <2>5 DEF Balanced, Sum
<1> QED BY Zenon, <1>6, <1>7, <1>8

\* A record that is read is with its reader; nothing else matters to the books.
LEMMA AsideBooks ==
  ASSUME FiniteSetFacts, Holding, Tallied, Summable, Aside
  PROVE  /\ Summable'
         /\ Breakdowns => Breakdowns'
         /\ Balanced => Balanced'
<1>1. UNCHANGED <<out, n, policyCounts, dropped, silent>>
  BY Zenon DEF Aside
<1>2. Breakdowns => Breakdowns'
  BY Zenon, <1>1 DEF Breakdowns, QuicAgrees, Sum
<1>3. "io_uring_tls" \in Types
  BY TypeList
<1>4. Whereabouts("io_uring_tls")' = Whereabouts("io_uring_tls")
  BY Zenon, <1>3, AsideWhere
<1>5. CASE UNCHANGED <<pc, reads>>
  BY Zenon, <1>1, <1>2, <1>4, <1>5 DEF Summable, Units, Balanced, Handling, Sum
<1>6. ASSUME NEW r \in Rings, NEW loc, NEW more \in {0, 1}, pc' = [pc EXCEPT ![r] = loc],
             pc[r] # "handle", loc = "handle" <=> more = 1, reads' = reads + more
      PROVE  Summable' /\ (Balanced => Balanced')
  <2>1. reads' \in Nat
    BY <1>6 DEF Summable
  <2>2. Summable'
    BY Zenon, <1>1, <2>1 DEF Summable, Units
  <2>3. ASSUME Balanced PROVE Balanced'
    <3> DEFINE a == silent + Sum(dropped, UncappedDrops) + Sum(n, LineCounters)
                      + Whereabouts("io_uring_tls")
               h == Cardinality(Handling)
    <3>1. h \in Nat /\ Cardinality(Handling') = h - 0 + (IF loc = "handle" THEN 1 ELSE 0)
      BY Zenon, <1>6, HandlingChanges
    <3>2. a \in Nat
      <4>1. \A S : Hits({}, S, 0)
        BY Zenon DEF Hits
      <4>2. Sum(dropped, UncappedDrops) \in Nat /\ Sum(n, LineCounters) \in Nat
        <5>1. /\ dropped \in [DropKinds -> Nat] /\ UncappedDrops \in SUBSET DropKinds
              /\ IsFiniteSet(Units(dropped, UncappedDrops))
              /\ n \in [Counters -> Nat] /\ LineCounters \in SUBSET Counters
              /\ IsFiniteSet(Units(n, LineCounters))
          BY Zenon, CounterNames DEF Tallied, Summable
        <5> QED BY Zenon, <4>1, <5>1, SumAdd
      <4>3. Whereabouts("io_uring_tls") \in Nat
        BY Zenon, <1>3, WhereaboutsType
      <4> QED BY <4>2, <4>3 DEF Summable
    <3>3. reads = a + h
      BY Zenon, <2>3 DEF Balanced
    <3>4. a = silent' + Sum(dropped', UncappedDrops) + Sum(n', LineCounters)
                + Whereabouts("io_uring_tls")'
      BY Zenon, <1>1, <1>4
    <3> HIDE DEF a, h
    <3>5. Cardinality(Handling') = h + more
      BY SMTT(20), <1>6, <3>1
    <3>6. reads' = a + Cardinality(Handling')
      BY SMTT(20), <1>6, <3>1, <3>2, <3>3, <3>5
    <3> QED BY Zenon, <3>4, <3>6 DEF Balanced, Sum
  <2> QED BY Zenon, <2>2, <2>3
<1>7. ASSUME NEW r \in Rings, pc[r] = "read", Goto(r, "handle"), reads' = reads + 1
      PROVE  Summable' /\ (Balanced => Balanced')
  BY Zenon, <1>6, <1>7 DEF Goto
<1>8. ASSUME NEW r \in Rings, NEW loc \in {"exit", "append"}, pc[r] \in {"read", "lock"},
             Goto(r, loc), reads' = reads
      PROVE  Summable' /\ (Balanced => Balanced')
  <2>1. reads' = reads + 0
    BY <1>8 DEF Summable
  <2>2. loc # "handle" /\ pc[r] # "handle" /\ 0 \in {0, 1} /\ 0 # 1
    BY <1>8
  <2>3. pc' = [pc EXCEPT ![r] = loc]
    BY Zenon, <1>8 DEF Goto
  <2> QED BY ZenonT(40), <1>6, <2>1, <2>2, <2>3
<1>9. "exit" \in {"exit", "append"} /\ "append" \in {"exit", "append"}
      /\ "read" \in {"read", "lock"} /\ "lock" \in {"read", "lock"}
  OBVIOUS
<1> QED BY Zenon, <1>2, <1>5, <1>7, <1>8, <1>9 DEF Aside

\* At first the books are empty.
LEMMA BooksInit ==
  ASSUME FiniteSetFacts, Init
  PROVE  Summable /\ Breakdowns /\ Balanced
<1>1. /\ n = [c \in Counters |-> 0] /\ dropped = [d \in DropKinds |-> 0]
      /\ policyCounts = [c \in Classes |-> 0] /\ silent = 0 /\ reads = 0
      /\ out = [r \in Rings |-> << >>]
      /\ pc = [r \in Rings |-> IF r \in Active THEN "read" ELSE "exit"]
  BY Zenon DEF Init
<1>2. /\ IsFiniteSet(Units(policyCounts, Classes)) /\ Sum(policyCounts, Classes) = 0
      /\ IsFiniteSet(Units(dropped, UncappedDrops)) /\ Sum(dropped, UncappedDrops) = 0
      /\ IsFiniteSet(Units(n, LineCounters)) /\ Sum(n, LineCounters) = 0
  <2>1. /\ \A c \in Classes : policyCounts[c] = 0
        /\ \A c \in UncappedDrops : dropped[c] = 0
        /\ \A c \in LineCounters : n[c] = 0
    BY Zenon, <1>1, CounterNames
  <2> QED BY Zenon, <2>1, SumZero
<1>3. Summable
  <2>1. policyCounts \in [Classes -> Nat] /\ silent \in Nat /\ reads \in Nat
    BY <1>1
  <2> QED BY Zenon, <1>2, <2>1 DEF Summable
<1>4. Breakdowns
  <2>1. /\ n["tcp"] = 0 /\ n["udp"] = 0 /\ n["http"] = 0 /\ n["tls"] = 0 /\ n["full"] = 0
        /\ n["partial"] = 0 /\ n["unknown"] = 0 /\ n["unknown_ktls"] = 0 /\ n["confirmed"] = 0
        /\ n["refused"] = 0 /\ n["tcp_state"] = 0 /\ n["quic_observed"] = 0
        /\ n["quic_candidate"] = 0
    BY ZenonT(40), <1>1, CounterNames
  <2>2. ~ (Len(out["udp"]) > 1)
    BY <1>1 DEF Rings
  <2>3. QuicAgrees
    <3>1. 0 = 0 + 0
      OBVIOUS
    <3> QED BY Zenon, <2>1, <2>2, <3>1 DEF QuicAgrees
  <2>4. 0 = 0 + 0 + 0 + 0 /\ 0 = 0 + 0 + 0 /\ 0 <= 0 /\ 0 + 0 <= 0
    OBVIOUS
  <2> QED BY ZenonT(40), <1>2, <2>1, <2>3, <2>4 DEF Breakdowns
<1>5. Balanced
  <2>1. Whereabouts("io_uring_tls") = 0
    <3>1. "io_uring_tls" \in Types
      BY TypeList
    <3> QED BY Zenon, <3>1, CountedInit
  <2>2. Cardinality(Handling) = 0
    <3>1. Handling = {}
      BY <1>1 DEF Handling
    <3> QED BY Zenon, <3>1, CardinalityEmpty
  <2>3. 0 = 0 + 0 + 0 + 0 + 0
    OBVIOUS
  <2> QED BY ZenonT(40), <1>1, <1>2, <2>1, <2>2, <2>3 DEF Balanced
<1> QED BY Zenon, <1>3, <1>4, <1>5

-----------------------------------------------------------------------------
(* The theorem, with what the library proves of finite sets.               *)

Fin == INSTANCE FiniteSetTheorems

\* The library speaks of the same finite sets and cardinalities.
LEMMA SameCardinality ==
  ASSUME NEW S
  PROVE  /\ Fin!IsFiniteSet(S) <=> IsFiniteSet(S)
         /\ Fin!Cardinality(S) = Cardinality(S)
BY Zenon DEF IsFiniteSet, Fin!IsFiniteSet, Cardinality, Fin!Cardinality

LEMMA FiniteSets == FiniteSetFacts
<1>1. IsFiniteSet({}) /\ Cardinality({}) = 0
  BY ZenonT(40), SameCardinality, Fin!FS_EmptySet
<1>2. ASSUME NEW S, IsFiniteSet(S)
      PROVE  Cardinality(S) \in Nat /\ (Cardinality(S) = 0 <=> S = {})
  BY ZenonT(40), <1>2, SameCardinality, Fin!FS_CardinalityType, Fin!FS_EmptySet
<1>3. ASSUME NEW S, NEW x, IsFiniteSet(S)
      PROVE  /\ IsFiniteSet(S \cup {x})
             /\ Cardinality(S \cup {x}) = IF x \in S THEN Cardinality(S) ELSE Cardinality(S) + 1
  BY ZenonT(40), <1>3, SameCardinality, Fin!FS_AddElement
<1>4. ASSUME NEW S, NEW x, IsFiniteSet(S)
      PROVE  /\ IsFiniteSet(S \ {x})
             /\ Cardinality(S \ {x}) = IF x \in S THEN Cardinality(S) - 1 ELSE Cardinality(S)
  BY ZenonT(40), <1>4, SameCardinality, Fin!FS_RemoveElement
<1>5. ASSUME NEW S, NEW T \in SUBSET S, IsFiniteSet(S)
      PROVE  IsFiniteSet(T) /\ Cardinality(T) <= Cardinality(S)
  BY ZenonT(40), <1>5, SameCardinality, Fin!FS_Subset
<1>6. \A a, b \in Int : IsFiniteSet(a..b)
  BY ZenonT(40), SameCardinality, Fin!FS_Interval
<1>7. ASSUME NEW S, NEW T, IsFiniteSet(S), IsFiniteSet(T)
      PROVE  /\ IsFiniteSet(S \cup T)
             /\ S \cap T = {} => Cardinality(S \cup T) = Cardinality(S) + Cardinality(T)
  <2>1. /\ IsFiniteSet(S \cup T)
        /\ Cardinality(S \cup T) = Cardinality(S) + Cardinality(T) - Cardinality(S \cap T)
    <3>1. Fin!IsFiniteSet(S) /\ Fin!IsFiniteSet(T)
      BY ZenonT(40), <1>7, SameCardinality
    <3>2. /\ Fin!IsFiniteSet(S \cup T)
          /\ Fin!Cardinality(S \cup T) =
               Fin!Cardinality(S) + Fin!Cardinality(T) - Fin!Cardinality(S \cap T)
      BY ZenonT(40), <3>1, Fin!FS_Union
    <3>3. /\ Fin!Cardinality(S) = Cardinality(S) /\ Fin!Cardinality(T) = Cardinality(T)
          /\ Fin!Cardinality(S \cup T) = Cardinality(S \cup T)
          /\ Fin!Cardinality(S \cap T) = Cardinality(S \cap T)
          /\ Fin!IsFiniteSet(S \cup T) <=> IsFiniteSet(S \cup T)
      BY Zenon, SameCardinality
    <3> QED BY Zenon, <3>2, <3>3
  <2>2. S \cap T = {} => Cardinality(S \cap T) = 0
    BY Zenon, <1>1
  <2>3. Cardinality(S) \in Nat /\ Cardinality(T) \in Nat
    BY Zenon, <1>2, <1>7
  <2>4. \A x, y \in Nat : x + y - 0 = x + y
    OBVIOUS
  <2> QED BY ZenonT(40), <2>1, <2>2, <2>3, <2>4
<1> QED BY ZenonT(40), <1>1, <1>2, <1>3, <1>4, <1>5, <1>6, <1>7 DEF FiniteSetFacts

\* An event that is counted is in the log, counted as dropped, with its reader, or glued
\* to a broken line; and no more lines are lost that way than there are broken ones.
THEOREM CountersMatchLog == Spec => []CountsMatchLog
<1> DEFINE Agree == scenario.logging => \A type \in Types \ {"io_uring_tls"} : Counted(type)
           Inv == Holding /\ Tallied /\ Glued /\ Agree
<1>1. Init => Inv
  BY ZenonT(40), FiniteSets, CountedInit, HoldingInit
<1>2. Inv /\ [Next]_vars => Inv'
  <2> SUFFICES ASSUME Inv, [Next]_vars PROVE Inv'
    OBVIOUS
  <2>1. Holding' /\ Glued'
    BY ZenonT(40), HoldingStep, GluedStep
  <2>2. scenario' = scenario
    BY ZenonT(40), HoldingStep
  <2>3. ASSUME NEW r \in Rings, Handle(r) PROVE Tallied' /\ Agree'
    <3>1. CASE scenario.logging
      BY ZenonT(40), <2>3, <3>1, FiniteSets, HandleCounts
    <3>2. CASE ~ scenario.logging
      <4>1. Tallied'
        BY ZenonT(40), <2>3, HandleTallies
      <4> QED BY Zenon, <2>2, <3>2, <4>1
    <3> QED BY Zenon, <3>1, <3>2
  <2>4. ASSUME NEW r \in Rings, AppendLine(r) \/ AppendFails(r) PROVE Tallied' /\ Agree'
    BY Zenon, <2>2, <2>4, FiniteSets, EndCounts
  <2>5. ASSUME Aside PROVE Tallied' /\ Agree'
    BY Zenon, <2>2, <2>5, FiniteSets, AsideCounts
  <2> QED BY ZenonT(40), <2>1, <2>3, <2>4, <2>5, StepSorts
<1>3. Inv => CountsMatchLog
  <2> SUFFICES ASSUME Inv PROVE CountsMatchLog
    OBVIOUS
  <2>1. Len(swallowed) <= malformed
    <3>1. Len(swallowed) \in Nat /\ malformed \in Nat
      BY Zenon, LenType DEF Tallied, Glued
    <3>2. \A l, m \in Nat : l + 0 <= m \/ l + 1 <= m => l <= m
      OBVIOUS
    <3>3. Len(swallowed) + 0 <= malformed \/ Len(swallowed) + 1 <= malformed
      BY Zenon DEF Glued
    <3> QED BY Zenon, <3>1, <3>2, <3>3
  <2> QED BY ZenonT(40), <2>1 DEF CountsMatchLog, Counted
<1> HIDE DEF Inv
<1> QED BY <1>1, <1>2, <1>3, PTL DEF Spec

\* Every record taken from a ring is with its reader or entered once: as an event, as a
\* drop, or as one of those left out on purpose; and the breakdowns of the counters add up.
THEOREM BooksBalance == Spec => []RecordsAccounted
<1> DEFINE Logged == scenario.logging => Balanced
           Inv == Holding /\ Tallied /\ Summable /\ Breakdowns /\ Logged
<1>1. Init => Inv
  BY ZenonT(40), FiniteSets, CountedInit, HoldingInit, BooksInit
<1>2. Inv /\ [Next]_vars => Inv'
  <2> SUFFICES ASSUME Inv, [Next]_vars PROVE Inv'
    OBVIOUS
  <2>1. Holding' /\ scenario' = scenario
    BY Zenon, HoldingStep
  <2>2. ASSUME NEW r \in Rings, Handle(r) PROVE Tallied' /\ Summable' /\ Breakdowns' /\ Logged'
    BY ZenonT(40), <2>1, <2>2, FiniteSets, HandleTallies, HandleBooks
  <2>3. ASSUME NEW r \in Rings, AppendLine(r) \/ AppendFails(r)
        PROVE  Tallied' /\ Summable' /\ Breakdowns' /\ Logged'
    BY Zenon, <2>1, <2>3, FiniteSets, EndsWhere, EndBooks
  <2>4. ASSUME Aside PROVE Tallied' /\ Summable' /\ Breakdowns' /\ Logged'
    BY ZenonT(40), <2>1, <2>4, FiniteSets, AsideWhere, AsideBooks
  <2> QED BY Zenon, <2>1, <2>2, <2>3, <2>4, StepSorts
<1>3. Inv => RecordsAccounted
  BY Zenon DEF Breakdowns, QuicAgrees, Balanced, Handling, LineCounters, UncappedDrops,
       RecordsAccounted
<1> HIDE DEF Inv
<1> QED BY <1>1, <1>2, <1>3, PTL DEF Spec

=============================================================================
