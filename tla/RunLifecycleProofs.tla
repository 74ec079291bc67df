------------------------- MODULE RunLifecycleProofs -------------------------
(***************************************************************************)
(* The safety of agent.Run for any machine, mode, number of failing        *)
(* attempts and overflowing rings.                                         *)
(*                                                                         *)
(* While it runs: a failed run is not ready, self-defense covers every     *)
(* defend link, the error channel has room for every goroutine that still  *)
(* has to send to it, and ready means guarded.                             *)
(*                                                                         *)
(* When it ends: whatever fails, everything it opened is released, each    *)
(* snapshot reads an open collection, and the shutdown record misses no    *)
(* loss of the defend and exec collections.                                *)
(***************************************************************************)
EXTENDS RunLifecycle, TLAPS

-----------------------------------------------------------------------------
(* Sequences.                                                              *)

\* Append adds one element at the end.
LEMMA AppendProperties ==
  ASSUME NEW S, NEW s \in Seq(S), NEW e \in S
  PROVE  /\ Append(s, e) \in Seq(S)
         /\ Append(s, e) # << >>
         /\ Len(Append(s, e)) = Len(s) + 1
         /\ \A i \in 1..Len(s) : Append(s, e)[i] = s[i]
         /\ Append(s, e)[Len(s) + 1] = e
OBVIOUS

\* The elements of a subsequence.
LEMMA SubSeqProperties ==
  ASSUME NEW S, NEW s, NEW m \in Int, NEW n \in Int, \A i \in m..n : s[i] \in S
  PROVE  /\ SubSeq(s, m, n) \in Seq(S)
         /\ Len(SubSeq(s, m, n)) = IF m <= n THEN n - m + 1 ELSE 0
         /\ \A i \in 1..(n - m + 1) : SubSeq(s, m, n)[i] = s[m + i - 1]
OBVIOUS

\* Only the empty sequence has length zero.
LEMMA EmptySeq ==
  ASSUME NEW S, NEW s \in Seq(S), Len(s) = 0
  PROVE  s = << >>
OBVIOUS

\* The range of a sequence, by position.
LEMMA RangeEquality ==
  ASSUME NEW S, NEW s \in Seq(S)
  PROVE  Range(s) = {s[i] : i \in 1..Len(s)}
BY DEF Range

\* The elements of a concatenation.
LEMMA ConcatProperties ==
  ASSUME NEW S, NEW s \in Seq(S), NEW t \in Seq(S)
  PROVE  /\ s \o t \in Seq(S)
         /\ Len(s \o t) = Len(s) + Len(t)
         /\ \A i \in 1..(Len(s) + Len(t)) :
               (s \o t)[i] = IF i <= Len(s) THEN s[i] ELSE t[i - Len(s)]
<1>1. s \o t \in Seq(S) /\ Len(s \o t) = Len(s) + Len(t)
  OBVIOUS
<1>2. ASSUME NEW i \in 1..(Len(s) + Len(t))
      PROVE  (s \o t)[i] = IF i <= Len(s) THEN s[i] ELSE t[i - Len(s)]
  OBVIOUS
<1>3. QED
  BY Zenon, <1>1, <1>2

\* A concatenation holds what its parts hold.
LEMMA RangeConcatenation ==
  ASSUME NEW S, NEW s \in Seq(S), NEW t \in Seq(S)
  PROVE  Range(s \o t) = Range(s) \cup Range(t)
<1>1. \A i \in 1..Len(s) : i \in 1..Len(s \o t) /\ (s \o t)[i] = s[i]
  BY ConcatProperties
<1>2. \A i \in 1..Len(t) : Len(s) + i \in 1..Len(s \o t) /\ (s \o t)[Len(s) + i] = t[i]
  <2> SUFFICES ASSUME NEW i \in 1..Len(t)
               PROVE  Len(s) + i \in 1..Len(s \o t) /\ (s \o t)[Len(s) + i] = t[i]
    OBVIOUS
  <2>1. Len(s) + i \in 1..(Len(s) + Len(t)) /\ ~ (Len(s) + i <= Len(s))
        /\ Len(s) + i - Len(s) = i
    OBVIOUS
  <2>2. QED
    BY <2>1, ConcatProperties
<1>3. ASSUME NEW i \in 1..Len(s \o t)
      PROVE  \/ \E k \in 1..Len(s) : (s \o t)[i] = s[k]
             \/ \E k \in 1..Len(t) : (s \o t)[i] = t[k]
  <2>0. (s \o t)[i] = IF i <= Len(s) THEN s[i] ELSE t[i - Len(s)]
    BY ConcatProperties
  <2>1. i \in 1..(Len(s) + Len(t)) /\ Len(s) \in Nat /\ Len(t) \in Nat
    OBVIOUS
  <2>2. CASE i <= Len(s)
    BY <2>0, <2>1, <2>2
  <2>3. CASE ~ (i <= Len(s))
    <3>1. i - Len(s) \in 1..Len(t)
      BY <2>1, <2>3
    <3>2. QED
      BY Zenon, <2>0, <2>3, <3>1
  <2>4. QED
    BY Zenon, <2>2, <2>3
<1>4. s \o t \in Seq(S)
  BY Zenon, ConcatProperties
<1>5. /\ Range(s \o t) = {(s \o t)[i] : i \in 1..Len(s \o t)}
      /\ Range(s) = {s[i] : i \in 1..Len(s)}
      /\ Range(t) = {t[i] : i \in 1..Len(t)}
  BY Zenon, <1>4, RangeEquality
<1>6. QED
  BY Zenon, <1>1, <1>2, <1>3, <1>5

\* Append is concatenation with a singleton.
LEMMA AppendIsConcat ==
  ASSUME NEW S, NEW s \in Seq(S), NEW e \in S
  PROVE  Append(s, e) = s \o <<e>>
OBVIOUS

-----------------------------------------------------------------------------
(* The cleanup stack.                                                      *)

LEMMA InRange ==
  ASSUME NEW S, NEW s \in Seq(S), NEW x
  PROVE  x \in Range(s) <=> \E i \in 1..Len(s) : x = s[i]
BY RangeEquality

\* The stack without its last item.
LEMMA FrontAt ==
  ASSUME NEW S, NEW s \in Seq(S), s # << >>
  PROVE  /\ Len(s) \in Nat \ {0}
         /\ Front(s) \in Seq(S)
         /\ Len(Front(s)) = Len(s) - 1
         /\ \A i \in 1..(Len(s) - 1) : Front(s)[i] = s[i]
<1>1. Len(s) \in Nat \ {0} /\ \A i \in 1..(Len(s) - 1) : s[i] \in S
  OBVIOUS
<1> DEFINE n == Len(s) - 1
<1>2. n \in Int /\ \A i \in 1..n : s[i] \in S
  BY <1>1
<1> HIDE DEF n
<1>3. /\ SubSeq(s, 1, n) \in Seq(S)
      /\ Len(SubSeq(s, 1, n)) = IF 1 <= n THEN n - 1 + 1 ELSE 0
      /\ \A i \in 1..(n - 1 + 1) : SubSeq(s, 1, n)[i] = s[1 + i - 1]
  BY <1>2, SubSeqProperties
<1>4. n \in Nat /\ n - 1 + 1 = n
  BY <1>1 DEF n
<1>5. Front(s) = SubSeq(s, 1, n)
  BY DEF Front, n
<1>6. \A i \in 1..n : 1 + i - 1 = i
  BY <1>4
<1>7. Len(SubSeq(s, 1, n)) = n
  BY <1>3, <1>4
<1> QED BY <1>1, <1>3, <1>4, <1>5, <1>6, <1>7 DEF n

LEMMA RangeFront ==
  ASSUME NEW S, NEW s \in Seq(S), s # << >>
  PROVE  /\ Front(s) \in Seq(S)
         /\ Len(Front(s)) = Len(s) - 1
         /\ Last(s) \in S
         /\ Range(s) \subseteq Range(Front(s)) \cup {Last(s)}
<1>1. Len(s) \in Nat \ {0}
  OBVIOUS
<1>2. /\ Front(s) \in Seq(S)
      /\ Len(Front(s)) = Len(s) - 1
      /\ \A i \in 1..(Len(s) - 1) : Front(s)[i] = s[i]
  BY Zenon, FrontAt
<1>3. ASSUME NEW i \in 1..Len(s)
      PROVE  s[i] \in Range(Front(s)) \cup {Last(s)}
  <2>1. CASE i = Len(s)
    BY <2>1 DEF Last
  <2>2. CASE i \in 1..(Len(s) - 1)
    BY <1>2, <2>2, RangeEquality
  <2> QED BY <1>1, <2>1, <2>2
<1>4. Last(s) \in S
  BY <1>1 DEF Last
<1> QED BY <1>2, <1>3, <1>4, RangeEquality

Origins == Collections \cup {"ring", "run"}

Names ==
  {"objs", "snap", "writeShutdownTelemetry", "closeAllReaders", "runCancel",
   "lsmConnect", "lsmSendmsg", "lsmSendpage", "selfDefense", "lsmIoUring", "connect4",
   "sendmsg4", "tcx", "connect6", "sendmsg6", "execLink", "sysEnter", "kprobe",
   "kretprobe", "tcpState", "ioUring", "enter", "exit", "tp", "fork", "fs", "ipv6Obs"}

Items == [kind : {"objs", "link", "ring", "snap", "func"}, of : Origins, id : Names]

LEMMA ItemsTyped ==
  ASSUME NEW k \in {"objs", "link", "ring", "snap", "func"}, NEW o \in Origins,
         NEW i \in Names
  PROVE  Item(k, o, i) \in Items /\ Item(k, o, i).kind = k
BY DEF Items, Item

\* Every item pushed by Run is typed, and has the kind its name says.
LEMMA ItemKinds ==
  /\ \A o \in Collections : Objs(o) \in Items /\ Objs(o).kind = "objs"
  /\ \A o \in Collections, i \in Names : Link(o, i) \in Items /\ Link(o, i).kind = "link"
  /\ \A i \in Names : Ring(i) \in Items
  /\ \A i : Ring(i).kind = "ring" /\ Ring(i).id = i
  /\ \A o \in Collections : Snap(o) \in Items /\ Snap(o).kind = "snap"
  /\ \A i \in Names : Func(i) \in Items /\ Func(i).kind = "func"
<1>1. Collections \cup {"ring", "run"} \subseteq Origins /\ {"objs", "snap"} \subseteq Names
  BY DEF Origins, Names
<1>2. \A i : Ring(i).kind = "ring" /\ Ring(i).id = i
  BY DEF Ring, Item
<1> QED BY <1>1, <1>2, ItemsTyped DEF Objs, Link, Ring, Snap, Func

LEMMA ItemFields ==
  ASSUME NEW x
  PROVE  /\ Snap(x).kind = "snap" /\ Snap(x).of = x
         /\ Objs(x).kind = "objs" /\ Objs(x).of = x
BY DEF Snap, Objs, Item

-----------------------------------------------------------------------------
(* What the load phases push.                                              *)

Loading == {"defend", "lsm", "cgroup", "probe", "exec", "syscall", "ready", "dns",
            "fork", "fs", "ktls", "ipv6Obs", "audit", "spawn"}

\* The phases of a run, in order.  A collection is loaded in the phase of its name.
Phase == [compile |-> 1, defend |-> 2, lsm |-> 3, cgroup |-> 4, probe |-> 5, exec |-> 6,
          syscall |-> 7, ready |-> 8, dns |-> 9, fork |-> 10, fs |-> 11, ktls |-> 12,
          ipv6Obs |-> 13, audit |-> 14, spawn |-> 15]

LEMMA PhaseOrder ==
  /\ \A s \in DOMAIN Phase : Phase[s] \in Nat
  /\ {"unwind", "done", "readyDefend", "wait"} \cap DOMAIN Phase = {}
  /\ DOMAIN Phase = Loading \cup {"compile"}
  /\ Phase["compile"] < Phase["defend"] /\ Phase["defend"] < Phase["lsm"]
  /\ Phase["defend"] < Phase["exec"] /\ Phase["lsm"] < Phase["cgroup"]
  /\ Phase["cgroup"] < Phase["probe"] /\ Phase["probe"] < Phase["exec"]
  /\ Phase["exec"] < Phase["syscall"] /\ Phase["syscall"] < Phase["ready"]
  /\ Phase["ready"] < Phase["dns"] /\ Phase["dns"] < Phase["fork"]
  /\ Phase["fork"] < Phase["fs"] /\ Phase["fs"] < Phase["ktls"]
  /\ Phase["ktls"] < Phase["ipv6Obs"] /\ Phase["ipv6Obs"] < Phase["audit"]
  /\ Phase["audit"] < Phase["spawn"]
BY DEF Phase, Loading

LoadPhase ==
  \/ SkipDefend \/ LoadDefendObjects \/ SkipLSM \/ LoadDefendLSM \/ LoadDefendCgroup
  \/ ProbeAndArm \/ LoadExec \/ ArmSyscall \/ ReadyDetect \/ LoadDNS \/ LoadFork
  \/ LoadFS \/ LoadKTLS \/ LoadIPv6Obs \/ LoadBPFAudit

\* A phase goes on to a later one or fails.
Forward ==
  /\ step \in DOMAIN Phase
  /\ step' \in DOMAIN Phase => Phase[step] < Phase[step']
  /\ step' = "lsm" => step = "defend"
  /\ step' = "cgroup" => step = "lsm"

Advances == step \in Loading /\ step' \in Loading \cup {"unwind"} /\ Forward

LEMMA LoadAdvances ==
  ASSUME LoadPhase
  PROVE  Advances /\ once' = once /\ lost' = lost
<1> DEFINE To(a, b) == step = a /\ step' = b /\ once' = once /\ lost' = lost
<1>1. CASE SkipDefend
  <2>1. To("defend", "exec")
    BY <1>1 DEF SkipDefend, Proceed, resVars, lossVars
  <2> QED BY <2>1, PhaseOrder DEF Advances, Forward, Loading
<1>2. CASE LoadDefendObjects
  <2>1. To("defend", "lsm") \/ To("defend", "unwind")
    BY Zenon, <1>2 DEF LoadDefendObjects, Proceed, Fatal, lossVars
  <2> QED BY <2>1, PhaseOrder DEF Advances, Forward, Loading
<1>3. CASE SkipLSM \/ LoadDefendLSM
  <2>1. To("lsm", "cgroup") \/ To("lsm", "unwind")
    BY Zenon, <1>3 DEF SkipLSM, LoadDefendLSM, Proceed, Fatal, resVars, lossVars
  <2> QED BY <2>1, PhaseOrder DEF Advances, Forward, Loading
<1>4. CASE LoadDefendCgroup
  <2>1. To("cgroup", "probe") \/ To("cgroup", "unwind")
    BY Zenon, <1>4 DEF LoadDefendCgroup, Proceed, Fatal, lossVars
  <2> QED BY <2>1, PhaseOrder DEF Advances, Forward, Loading
<1>5. CASE ProbeAndArm
  <2>1. To("probe", "exec") \/ To("probe", "unwind")
    BY Zenon, <1>5 DEF ProbeAndArm, Proceed, Fatal, resVars, lossVars
  <2> QED BY <2>1, PhaseOrder DEF Advances, Forward, Loading
<1>6. CASE LoadExec
  <2>1. To("exec", "syscall") \/ To("exec", "unwind")
    BY Zenon, <1>6 DEF LoadExec, Proceed, Fatal, lossVars
  <2> QED BY <2>1, PhaseOrder DEF Advances, Forward, Loading
<1>7. CASE ArmSyscall
  <2>1. To("syscall", "ready") \/ To("syscall", "unwind")
    BY Zenon, <1>7 DEF ArmSyscall, Proceed, Fatal, lossVars
  <2> QED BY <2>1, PhaseOrder DEF Advances, Forward, Loading
<1>8. CASE ReadyDetect
  <2>1. To("ready", "dns") \/ To("ready", "unwind")
    BY Zenon, <1>8 DEF ReadyDetect, Proceed, Fatal, resVars, lossVars
  <2> QED BY <2>1, PhaseOrder DEF Advances, Forward, Loading
<1>9. CASE LoadDNS \/ LoadFork \/ LoadFS \/ LoadKTLS
  <2>1. To("dns", "fork") \/ To("fork", "fs") \/ To("fs", "ktls") \/ To("ktls", "ipv6Obs")
    BY Zenon, <1>9 DEF LoadDNS, LoadFork, LoadFS, LoadKTLS, LoadProbe, Proceed, lossVars
  <2> QED BY <2>1, PhaseOrder DEF Advances, Forward, Loading
<1>10. CASE LoadIPv6Obs \/ LoadBPFAudit
  <2>1. To("ipv6Obs", "audit") \/ To("audit", "spawn")
    BY Zenon, <1>10 DEF LoadIPv6Obs, LoadBPFAudit, LoadProbe, Proceed, resVars, lossVars
  <2> QED BY <2>1, PhaseOrder DEF Advances, Forward, Loading
<1> QED BY Zenon, <1>1, <1>2, <1>3, <1>4, <1>5, <1>6, <1>7, <1>8, <1>9, <1>10 DEF LoadPhase

\* What phase x pushes: its own snapshot and collection, the collection below.
Orderly(items, x) ==
  \A i \in 1..Len(items) :
    /\ items[i].kind = "snap" =>
         items[i] = Snap(x) /\ \A p \in 1..Len(items) : items[p] = Objs(x) => p < i
    /\ items[i].kind = "objs" => items[i] = Objs(x)

\* Neither a snapshot nor a collection.
Plain(items) == \A i \in 1..Len(items) : items[i].kind \notin {"snap", "objs"}

\* A link above a snapshot of its collection.
Above(l, items) ==
  \E i, j \in 1..Len(items) : i < j /\ items[i] = Snap(l.of) /\ items[j] = l

\* A phase pushes items, opens what they will close, and assigns ring readers.
Pushed(items, added, rings) ==
  /\ items \in Seq(Items)
  /\ rings \in SUBSET Rings
  /\ cleanup' = cleanup \o items
  /\ open' = open \cup added \cup {Ring(r) : r \in rings}
  /\ rd' = rd \cup rings
  /\ \A x \in added : x \in Range(items) /\ x.kind \in {"objs", "link"}
  /\ Orderly(items, step)
  /\ Objs(step) \in added \/ Plain(items)
  /\ \A l \in added : (l.kind = "link" /\ l.of \in {"defend", "exec"}) =>
       (l.of = "defend" /\ step \in {"lsm", "cgroup"}) \/ Above(l, items)
  /\ step = "defend" => Snap("defend") \in Range(items)

PhasePushes == \E items, added, rings : Pushed(items, added, rings)

LEMMA OrderlyPlain ==
  ASSUME NEW s \in Seq(Items), NEW x, Plain(s)
  PROVE  Orderly(s, x)
BY DEF Plain, Orderly

\* A load phase pushes items that cover what it opens, or changes none of this.
LEMMA LoadPushes ==
  cleanup \in Seq(Items) /\ LoadPhase =>
    PhasePushes \/ (UNCHANGED resVars /\ step' # "lsm")
\* A sequence over a set is one over any larger set.
<1>SeqMonotonic. ASSUME NEW S, NEW T, NEW s \in Seq(S), S \subseteq T
                 PROVE  s \in Seq(T)
  BY <1>SeqMonotonic
\* Its elements belong to the set.
<1>RangeOfSeq. ASSUME NEW S, NEW s \in Seq(S)
               PROVE  Range(s) \in SUBSET S
  BY <1>RangeOfSeq, RangeEquality
\* Concatenation is associative.
<1>ConcatAssociative. ASSUME NEW S, NEW s \in Seq(S), NEW t \in Seq(S), NEW u \in Seq(S)
                      PROVE  (s \o t) \o u = s \o (t \o u)
  <2> USE <1>ConcatAssociative
  <2> DEFINE l == (s \o t) \o u
             r == s \o (t \o u)
  <2>1. l \in Seq(S) /\ r \in Seq(S) /\ Len(l) = Len(r)
    OBVIOUS
  <2>2. ASSUME NEW i \in 1..Len(l) PROVE l[i] = r[i]
    OBVIOUS
  <2> HIDE DEF l, r
  <2>3. l \in [1..Len(l) -> S] /\ r \in [1..Len(l) -> S]
    BY <2>1
  <2>4. l = r
    BY <2>2, <2>3
  <2> QED BY Zenon, <2>4 DEF l, r
\* trackDefendLink pushes links, one per name.
<1>PushesLinks. ASSUME NEW links \in Seq(Names)
                PROVE  /\ Pushes(links) \in Seq(Items)
                       /\ \A x \in Range(Pushes(links)) : x.kind = "link" /\ x.of = "defend"
  <2> USE <1>PushesLinks
  <2>1. Len(links) \in Nat /\ \A i \in 1..Len(links) : links[i] \in Names
    OBVIOUS
  <2>2. "defend" \in Collections
    BY DEF Collections
  <2>3. \A i \in 1..Len(links) : /\ Link("defend", links[i]) \in Items
                                 /\ Link("defend", links[i]).kind = "link"
                                 /\ Link("defend", links[i]).of = "defend"
    <3>1. \A i : Link("defend", i).of = "defend"
      BY DEF Link, Item
    <3> QED BY <2>1, <2>2, <3>1, ItemKinds
  <2>4. Pushes(links) \in Seq(Items)
    BY <2>1, <2>3 DEF Pushes
  <2> QED BY <2>1, <2>3, <2>4 DEF Pushes, Range
<1>OptionalSeq. ASSUME NEW S, NEW x \in S, NEW cond \in BOOLEAN
                PROVE  /\ Optional(cond, x) \in Seq(S)
                       /\ Range(Optional(cond, x)) = When(cond, {x})
  <2> USE <1>OptionalSeq
  <2>1. CASE cond
    BY <2>1 DEF Optional, When, Range
  <2>2. CASE ~ cond
    BY <2>2 DEF Optional, When, Range
  <2> QED BY <2>1, <2>2
\* Items that are plain may be added on either side.
<1>OrderlyConcat. ASSUME NEW s \in Seq(Items), NEW t \in Seq(Items), NEW x, Orderly(s, x), Plain(t)
                  PROVE  Orderly(s \o t, x) /\ Orderly(t \o s, x)
  <2> USE <1>OrderlyConcat
  <2>0. Objs(x).kind = "objs" /\ Len(s) \in Nat /\ Len(t) \in Nat
    BY ItemFields
  <2>1. /\ Len(s \o t) = Len(s) + Len(t)
        /\ \A i \in 1..(Len(s) + Len(t)) :
             (s \o t)[i] = IF i <= Len(s) THEN s[i] ELSE t[i - Len(s)]
    BY Zenon, ConcatProperties
  <2>2. /\ Len(t \o s) = Len(t) + Len(s)
        /\ \A i \in 1..(Len(t) + Len(s)) :
             (t \o s)[i] = IF i <= Len(t) THEN t[i] ELSE s[i - Len(t)]
    BY Zenon, ConcatProperties
  <2> DEFINE a == Len(s)
             b == Len(t)
             st == s \o t
             ts == t \o s
  <2>3. /\ a \in Nat /\ b \in Nat /\ Len(st) = a + b /\ Len(ts) = b + a
        /\ \A i \in 1..(a + b) : st[i] = IF i <= a THEN s[i] ELSE t[i - a]
        /\ \A i \in 1..(b + a) : ts[i] = IF i <= b THEN t[i] ELSE s[i - b]
    BY <2>0, <2>1, <2>2
  <2>4. /\ \A i \in 1..a : /\ s[i].kind = "snap" =>
                                s[i] = Snap(x) /\ \A p \in 1..a : s[p] = Objs(x) => p < i
                           /\ s[i].kind = "objs" => s[i] = Objs(x)
        /\ \A i \in 1..b : t[i].kind \notin {"snap", "objs"}
    BY Zenon DEF Orderly, Plain
  <2> HIDE DEF a, b, st, ts
  <2>5. Orderly(st, x)
    <3> SUFFICES ASSUME NEW i \in 1..(a + b)
                 PROVE  /\ st[i].kind = "snap" => st[i] = Snap(x)
                             /\ \A p \in 1..(a + b) : st[p] = Objs(x) => p < i
                        /\ st[i].kind = "objs" => st[i] = Objs(x)
      BY <2>3 DEF Orderly
    <3>1. CASE i <= a
      <4>1. i \in 1..a /\ st[i] = s[i]
        BY <2>3, <3>1
      <4>2. \A p \in 1..(a + b) : st[p].kind = "objs" => p \in 1..a /\ st[p] = s[p]
        <5> SUFFICES ASSUME NEW p \in 1..(a + b), st[p].kind = "objs"
                     PROVE  p \in 1..a /\ st[p] = s[p]
          OBVIOUS
        <5>1. CASE p <= a
          BY <2>3, <5>1
        <5>2. CASE ~ (p <= a)
          BY <2>3, <2>4, <5>2
        <5> QED BY <5>1, <5>2
      <4> QED BY Zenon, <2>0, <2>4, <4>1, <4>2
    <3>2. CASE ~ (i <= a)
      <4>1. i - a \in 1..b /\ st[i] = t[i - a]
        BY <2>3, <3>2
      <4> QED BY Zenon, <2>4, <4>1
    <3> QED BY Zenon, <3>1, <3>2
  <2>6. Orderly(ts, x)
    <3> SUFFICES ASSUME NEW i \in 1..(b + a)
                 PROVE  /\ ts[i].kind = "snap" => ts[i] = Snap(x)
                             /\ \A p \in 1..(b + a) : ts[p] = Objs(x) => p < i
                        /\ ts[i].kind = "objs" => ts[i] = Objs(x)
      BY <2>3 DEF Orderly
    <3>1. CASE ~ (i <= b)
      <4>1. i - b \in 1..a /\ ts[i] = s[i - b]
        BY <2>3, <3>1
      <4>2. \A p \in 1..(b + a) : ts[p].kind = "objs" => p - b \in 1..a /\ ts[p] = s[p - b]
        <5> SUFFICES ASSUME NEW p \in 1..(b + a), ts[p].kind = "objs"
                     PROVE  p - b \in 1..a /\ ts[p] = s[p - b]
          OBVIOUS
        <5>1. CASE p <= b
          BY SMTT(20), <2>3, <2>4, <5>1
        <5>2. CASE ~ (p <= b)
          BY <2>3, <5>2
        <5> QED BY <5>1, <5>2
      <4>3. ASSUME ts[i].kind = "snap", NEW p \in 1..(b + a), ts[p] = Objs(x)
            PROVE  p < i
        <5>1. p - b < i - b
          BY Zenon, <2>0, <2>4, <4>1, <4>2, <4>3
        <5> QED BY <2>3, <5>1
      <4> QED BY Zenon, <2>4, <4>1, <4>3
    <3>2. CASE i <= b
      <4>1. i \in 1..b /\ ts[i] = t[i]
        BY <2>3, <3>2
      <4> QED BY Zenon, <2>4, <4>1
    <3> QED BY Zenon, <3>1, <3>2
  <2> QED BY Zenon, <2>5, <2>6 DEF st, ts
\* A collection at the bottom of its items is in order.
<1>OrderlyHead. ASSUME NEW x, NEW items \in Seq(Items), items # << >>, items[1] = Objs(x),
                       \A i \in 2..Len(items) : items[i] = Snap(x) \/ items[i].kind \in {"link", "ring"}
                PROVE  Orderly(items, x)
  <2> USE <1>OrderlyHead
  <2>1. Objs(x).kind = "objs" /\ Snap(x).kind = "snap"
    BY Zenon, ItemFields
  <2>2. \A i \in 1..Len(items) : i = 1 \/ i \in 2..Len(items)
    OBVIOUS
  <2>3. ASSUME NEW i \in 1..Len(items), items[i].kind = "snap"
        PROVE  i \in 2..Len(items) /\ items[i] = Snap(x)
    BY <2>1, <2>2, <2>3
  <2>4. ASSUME NEW i \in 1..Len(items), items[i].kind = "objs"
        PROVE  i = 1
    BY <2>1, <2>2, <2>4
  <2>5. ASSUME NEW i \in 1..Len(items), items[i].kind = "snap",
               NEW p \in 1..Len(items), items[p] = Objs(x)
        PROVE  p < i
    <3>1. p = 1
      BY Zenon, <2>1, <2>4, <2>5
    <3> QED BY <2>3, <2>5, <3>1
  <2>6. ASSUME NEW i \in 1..Len(items), items[i].kind = "objs"
        PROVE  items[i] = Objs(x)
    BY Zenon, <2>4, <2>6
  <2> QED BY Zenon, <2>3, <2>5, <2>6 DEF Orderly
\* The stacks of a collection with a snapshot and up to three other items.
<1>Stack2. ASSUME NEW x, NEW a \in Items, a = Objs(x), NEW b \in Items, b = Snap(x)
           PROVE  <<a, b>> \in Seq(Items) /\ Range(<<a, b>>) = {a, b} /\ Orderly(<<a, b>>, x)
  <2> USE <1>Stack2
  <2> DEFINE s == <<a, b>>
  <2>1. s \in Seq(Items) /\ Range(s) = {a, b}
    BY DEF Range
  <2>2. s # << >> /\ Len(s) = 2 /\ s[1] = a /\ s[2] = b
    OBVIOUS
  <2> HIDE DEF s
  <2>3. \A i \in 2..Len(s) : s[i] = Snap(x)
    BY <2>2
  <2> QED BY Zenon, <2>1, <2>2, <2>3, <1>OrderlyHead DEF s
<1>Stack3. ASSUME NEW x, NEW a \in Items, a = Objs(x), NEW b \in Items, b.kind \in {"link", "ring"},
                  NEW c \in Items, c = Snap(x)
           PROVE  /\ <<a, b, c>> \in Seq(Items) /\ Range(<<a, b, c>>) = {a, b, c}
                  /\ Orderly(<<a, b, c>>, x)
  <2> USE <1>Stack3
  <2> DEFINE s == <<a, b, c>>
  <2>1. s \in Seq(Items) /\ Range(s) = {a, b, c}
    BY DEF Range
  <2>2. s # << >> /\ Len(s) = 3 /\ s[1] = a /\ s[2] = b /\ s[3] = c
    OBVIOUS
  <2> HIDE DEF s
  <2>3. \A i \in 2..Len(s) : s[i] = Snap(x) \/ s[i].kind \in {"link", "ring"}
    BY <2>2
  <2> QED BY Zenon, <2>1, <2>2, <2>3, <1>OrderlyHead DEF s
<1>Stack4. ASSUME NEW x, NEW a \in Items, a = Objs(x), NEW b \in Items, b.kind \in {"link", "ring"},
                  NEW c \in Items, c.kind \in {"link", "ring"}, NEW d \in Items, d = Snap(x)
           PROVE  /\ <<a, b, c, d>> \in Seq(Items) /\ Range(<<a, b, c, d>>) = {a, b, c, d}
                  /\ Orderly(<<a, b, c, d>>, x)
  <2> USE <1>Stack4
  <2> DEFINE s == <<a, b, c, d>>
  <2>1. s \in Seq(Items) /\ Range(s) = {a, b, c, d}
    BY DEF Range
  <2>2. s # << >> /\ Len(s) = 4 /\ s[1] = a /\ s[2] = b /\ s[3] = c /\ s[4] = d
    OBVIOUS
  <2> HIDE DEF s
  <2>3. \A i \in 2..Len(s) : s[i] = Snap(x) \/ s[i].kind \in {"link", "ring"}
    BY <2>2
  <2> QED BY Zenon, <2>1, <2>2, <2>3, <1>OrderlyHead DEF s
<1>Stack5. ASSUME NEW x, NEW a \in Items, a = Objs(x), NEW b \in Items, b.kind \in {"link", "ring"},
                  NEW c \in Items, c.kind \in {"link", "ring"}, NEW d \in Items,
                  d.kind \in {"link", "ring"}, NEW e \in Items, e = Snap(x)
           PROVE  /\ <<a, b, c, d, e>> \in Seq(Items)
                  /\ Range(<<a, b, c, d, e>>) = {a, b, c, d, e}
                  /\ Orderly(<<a, b, c, d, e>>, x)
  <2> USE <1>Stack5
  <2> DEFINE s == <<a, b, c, d, e>>
  <2>1. s \in Seq(Items) /\ Range(s) = {a, b, c, d, e}
    BY DEF Range
  <2>2. s # << >> /\ Len(s) = 5 /\ s[1] = a /\ s[2] = b /\ s[3] = c /\ s[4] = d /\ s[5] = e
    OBVIOUS
  <2> HIDE DEF s
  <2>3. \A i \in 2..Len(s) : s[i] = Snap(x) \/ s[i].kind \in {"link", "ring"}
    BY <2>2
  <2> QED BY Zenon, <2>1, <2>2, <2>3, <1>OrderlyHead DEF s
\* A closure is pushed backwards.
<1>Closure2. ASSUME NEW a, NEW b
             PROVE  Closure(<<b, a>>) = <<a, b>>
  BY <1>Closure2 DEF Closure, Reverse
<1>Closure4. ASSUME NEW a, NEW b, NEW c, NEW d
             PROVE  Closure(<<d, c, b, a>>) = <<a, b, c, d>>
  BY <1>Closure4 DEF Closure, Reverse
<1>Closure5. ASSUME NEW a, NEW b, NEW c, NEW d, NEW e
             PROVE  Closure(<<e, d, c, b, a>>) = <<a, b, c, d, e>>
  BY <1>Closure5 DEF Closure, Reverse
<1>PushedDefendObjects. ASSUME LoadDefendObjects
                        PROVE  PhasePushes \/ (UNCHANGED resVars /\ step' = "unwind")
  <2> USE <1>PushedDefendObjects
  <2> USE Zenon
  <2>1. step = "defend" /\ rd' = rd /\ once' = once
    BY DEF LoadDefendObjects
  <2>2. CASE UNCHANGED <<open, cleanup>> /\ step' = "unwind"
    BY <2>1, <2>2 DEF resVars
  <2>3. CASE /\ open' = open \cup {Objs("defend")}
             /\ cleanup' = cleanup \o Closure(<<Snap("defend"), Objs("defend")>>)
    <3> DEFINE a == Objs("defend")
               b == Snap("defend")
               items == <<a, b>>
               none == {}
               added == {a}
    <3>1. a \in Items /\ b \in Items /\ a.kind = "objs"
      <4>1. "defend" \in Collections
        BY DEF Collections
      <4> QED BY <4>1, ItemKinds
    <3>2. items \in Seq(Items) /\ Range(items) = {a, b} /\ Orderly(items, "defend")
      BY <3>1, <1>Stack2
    <3>3. cleanup' = cleanup \o items
      BY <2>3, <1>Closure2
    <3>4. open' = open \cup added \cup {Ring(r) : r \in none} /\ rd' = rd \cup none
      BY SMT, <2>1, <2>3
    <3> HIDE DEF a, b, items
    <3>5. \A x \in added : x \in Range(items) /\ x.kind \in {"objs", "link"} /\ x.kind # "link"
      BY SMT, <3>1, <3>2
    <3>6. Objs(step) \in added /\ Snap("defend") \in Range(items)
      BY <2>1, <3>2 DEF a, b
    <3>7. none \in SUBSET Rings
      OBVIOUS
    <3> HIDE DEF added, none
    <3>8. Pushed(items, added, none)
      BY <2>1, <3>2, <3>3, <3>4, <3>5, <3>6, <3>7 DEF Pushed
    <3> QED BY <3>8 DEF PhasePushes
  <2> QED BY <2>2, <2>3 DEF LoadDefendObjects, Proceed, Fatal
\* The step of a best-effort collection, for items in order that cover it.
<1>PushedProbe. ASSUME NEW x \in Rings \cap Collections, x \notin {"defend", "exec"},
                       NEW links \in SUBSET Names, NEW items \in Seq(Items), NEW next,
                       {Objs(x)} \cup {Link(x, l) : l \in links} \subseteq Range(items),
                       Orderly(items, x), LoadProbe(x, links, items, next)
                PROVE  PhasePushes \/ UNCHANGED resVars
  <2> USE <1>PushedProbe
  <2>1. step = x /\ once' = once
    BY Zenon DEF LoadProbe
  <2>2. PICK ok \in SUBSET {x} :
          /\ open' = open \cup When(ok # {}, {Objs(x), Ring(x)} \cup {Link(x, l) : l \in links})
          /\ rd' = rd \cup ok
          /\ cleanup' = IF ok = {} THEN cleanup ELSE cleanup \o items
    BY Zenon DEF LoadProbe
  <2>3. CASE ok = {}
    BY <2>1, <2>2, <2>3 DEF When, resVars
  <2>4. CASE ok = {x}
    <3> DEFINE added == {Objs(x)} \cup {Link(x, l) : l \in links}
               rings == {x}
    <3>1. open' = open \cup added \cup {Ring(r) : r \in rings}
      BY <2>2, <2>4 DEF When
    <3>2. \A y \in added : y \in Range(items) /\ y.kind \in {"objs", "link"}
      BY ItemKinds
    <3>3. \A y \in added : y.of = x
      BY DEF Objs, Link, Item
    <3>4. /\ cleanup' = cleanup \o items /\ rd' = rd \cup rings /\ rings \in SUBSET Rings
          /\ Objs(step) \in added /\ step # "defend"
      BY <2>1, <2>2, <2>4
    <3> HIDE DEF added, rings
    <3>5. Pushed(items, added, rings)
      BY Zenon, <2>1, <3>1, <3>2, <3>3, <3>4 DEF Pushed
    <3> QED BY Zenon, <3>5 DEF PhasePushes
  <2> QED BY <2>3, <2>4
<1>PushedDNS. ASSUME LoadDNS
              PROVE  PhasePushes \/ UNCHANGED resVars
  <2> USE <1>PushedDNS
  <2> DEFINE links == {"enter", "exit"}
             a == Objs("dns")
             b == Link("dns", "exit")
             c == Link("dns", "enter")
             d == Snap("dns")
             items == <<a, b, c, d>>
  <2>1. /\ "dns" \in Rings \cap Collections /\ "dns" \notin {"defend", "exec"}
        /\ links \in SUBSET Names
    BY DEF Rings, Collections, Names
  <2>2. /\ a \in Items /\ b \in Items /\ c \in Items /\ d \in Items
        /\ b.kind \in {"link", "ring"} /\ c.kind \in {"link", "ring"}
    BY <2>1, ItemKinds
  <2>3. items \in Seq(Items) /\ Range(items) = {a, b, c, d} /\ Orderly(items, "dns")
    BY Zenon, <2>2, <1>Stack4
  <2>4. {Objs("dns")} \cup {Link("dns", l) : l \in links} \subseteq Range(items)
    BY Zenon, <2>3
  <2>5. LoadProbe("dns", links, items, "fork")
    BY Zenon DEF LoadDNS
  <2> HIDE DEF links, items
  <2> QED BY Zenon, <2>1, <2>3, <2>4, <2>5, <1>PushedProbe
<1>PushedFork. ASSUME LoadFork
               PROVE  PhasePushes \/ UNCHANGED resVars
  <2> USE <1>PushedFork
  <2> USE Zenon
  <2> DEFINE links == {"tp"}
             a == Objs("fork")
             b == Link("fork", "tp")
             c == Ring("fork")
             d == Snap("fork")
             items == <<a, b, c, d>>
  <2>1. /\ "fork" \in Rings \cap Collections /\ "fork" \notin {"defend", "exec"}
        /\ links \in SUBSET Names /\ "fork" \in Names
    BY SMT DEF Rings, Collections, Names
  <2>2. /\ a \in Items /\ b \in Items /\ c \in Items /\ d \in Items
        /\ b.kind \in {"link", "ring"} /\ c.kind \in {"link", "ring"}
    BY SMT, <2>1, ItemKinds
  <2>3. items \in Seq(Items) /\ Range(items) = {a, b, c, d} /\ Orderly(items, "fork")
    BY <2>2, <1>Stack4
  <2>4. {Objs("fork")} \cup {Link("fork", l) : l \in links} \subseteq Range(items)
    BY <2>3
  <2>5. Closure(<<d, c, b, a>>) = items
    BY <1>Closure4
  <2>6. LoadProbe("fork", links, items, "fs")
    BY <2>5 DEF LoadFork
  <2> HIDE DEF links, items
  <2> QED BY <2>1, <2>3, <2>4, <2>6, <1>PushedProbe
<1>PushedFS. ASSUME LoadFS
             PROVE  PhasePushes \/ UNCHANGED resVars
  <2> USE <1>PushedFS
  <2> USE Zenon
  <2> DEFINE links == {"tp"}
             a == Objs("fs")
             b == Link("fs", "tp")
             c == Ring("fs")
             d == Snap("fs")
             items == <<a, b, c, d>>
  <2>1. /\ "fs" \in Rings \cap Collections /\ "fs" \notin {"defend", "exec"}
        /\ links \in SUBSET Names /\ "fs" \in Names
    BY SMT DEF Rings, Collections, Names
  <2>2. /\ a \in Items /\ b \in Items /\ c \in Items /\ d \in Items
        /\ b.kind \in {"link", "ring"} /\ c.kind \in {"link", "ring"}
    BY SMT, <2>1, ItemKinds
  <2>3. items \in Seq(Items) /\ Range(items) = {a, b, c, d} /\ Orderly(items, "fs")
    BY <2>2, <1>Stack4
  <2>4. {Objs("fs")} \cup {Link("fs", l) : l \in links} \subseteq Range(items)
    BY <2>3
  <2>5. Closure(<<d, c, b, a>>) = items
    BY <1>Closure4
  <2>6. LoadProbe("fs", links, items, "ktls")
    BY <2>5 DEF LoadFS
  <2> HIDE DEF links, items
  <2> QED BY <2>1, <2>3, <2>4, <2>6, <1>PushedProbe
<1>PushedKTLS. ASSUME LoadKTLS
               PROVE  PhasePushes \/ UNCHANGED resVars
  <2> USE <1>PushedKTLS
  <2> DEFINE links == {"tp"}
             a == Objs("ktls")
             b == Link("ktls", "tp")
             c == Snap("ktls")
             items == <<a, b, c>>
  <2>1. /\ "ktls" \in Rings \cap Collections /\ "ktls" \notin {"defend", "exec"}
        /\ links \in SUBSET Names
    BY DEF Rings, Collections, Names
  <2>2. /\ a \in Items /\ b \in Items /\ c \in Items
        /\ b.kind \in {"link", "ring"}
    BY <2>1, ItemKinds
  <2>3. items \in Seq(Items) /\ Range(items) = {a, b, c} /\ Orderly(items, "ktls")
    BY Zenon, <2>2, <1>Stack3
  <2>4. {Objs("ktls")} \cup {Link("ktls", l) : l \in links} \subseteq Range(items)
    BY Zenon, <2>3
  <2>5. LoadProbe("ktls", links, items, "ipv6Obs")
    BY Zenon DEF LoadKTLS
  <2> HIDE DEF links, items
  <2> QED BY Zenon, <2>1, <2>3, <2>4, <2>5, <1>PushedProbe
<1>PushedIPv6Obs. ASSUME LoadIPv6Obs
                  PROVE  PhasePushes \/ UNCHANGED resVars
  <2> USE <1>PushedIPv6Obs
  <2> DEFINE links == {"connect6", "sendmsg6"}
             a == Objs("ipv6Obs")
             b == Link("ipv6Obs", "connect6")
             c == Link("ipv6Obs", "sendmsg6")
             d == Ring("ipv6Obs")
             e == Snap("ipv6Obs")
             items == <<a, b, c, d, e>>
  <2>1. /\ "ipv6Obs" \in Rings \cap Collections /\ "ipv6Obs" \notin {"defend", "exec"}
        /\ links \in SUBSET Names /\ "ipv6Obs" \in Names
    BY DEF Rings, Collections, Names
  <2>2. /\ a \in Items /\ b \in Items /\ c \in Items /\ d \in Items /\ e \in Items
        /\ b.kind \in {"link", "ring"} /\ c.kind \in {"link", "ring"} /\ d.kind \in {"link", "ring"}
    BY <2>1, ItemKinds
  <2>3. items \in Seq(Items) /\ Range(items) = {a, b, c, d, e} /\ Orderly(items, "ipv6Obs")
    <3>1. a = Objs("ipv6Obs") /\ e = Snap("ipv6Obs")
      BY Zenon
    <3> HIDE DEF a, b, c, d, e
    <3> QED BY <2>2, <3>1, <1>Stack5
  <2>4. {Objs("ipv6Obs")} \cup {Link("ipv6Obs", l) : l \in links} \subseteq Range(items)
    BY Zenon, <2>3
  <2>5. CASE LoadProbe("ipv6Obs", links, items, "audit")
    <3> HIDE DEF links, items
    <3> QED BY Zenon, <2>1, <2>3, <2>4, <2>5, <1>PushedProbe
  <2>6. Closure(<<e, d, c, b, a>>) = items
    BY ZenonT(40), <1>Closure5
  <2> QED BY Zenon, <2>5, <2>6 DEF LoadIPv6Obs
<1>PushedAudit. ASSUME LoadBPFAudit
                PROVE  PhasePushes \/ UNCHANGED resVars
  <2> USE <1>PushedAudit
  <2> DEFINE links == {"tp"}
             a == Objs("audit")
             b == Link("audit", "tp")
             c == Snap("audit")
             items == <<a, b, c>>
  <2>1. /\ "audit" \in Rings \cap Collections /\ "audit" \notin {"defend", "exec"}
        /\ links \in SUBSET Names
    BY DEF Rings, Collections, Names
  <2>2. /\ a \in Items /\ b \in Items /\ c \in Items
        /\ b.kind \in {"link", "ring"}
    BY <2>1, ItemKinds
  <2>3. items \in Seq(Items) /\ Range(items) = {a, b, c} /\ Orderly(items, "audit")
    BY Zenon, <2>2, <1>Stack3
  <2>4. {Objs("audit")} \cup {Link("audit", l) : l \in links} \subseteq Range(items)
    BY Zenon, <2>3
  <2>5. LoadProbe("audit", links, items, "spawn")
    BY Zenon DEF LoadBPFAudit
  <2> HIDE DEF links, items
  <2> QED BY Zenon, <2>1, <2>3, <2>4, <2>5, <1>PushedProbe
\* Tracked defend links, pushed in a phase that comes after the snapshot's.
<1>PushedLinks. ASSUME NEW links \in Seq(Names), NEW rings \in SUBSET Rings, step \in {"lsm", "cgroup"},
                       rd' = rd \cup rings,
                       open' = open \cup Range(Pushes(links)) \cup {Ring(r) : r \in rings},
                       cleanup' = cleanup \o Pushes(links)
                PROVE  PhasePushes
  <2> USE <1>PushedLinks
  <2> USE Zenon
  <2> DEFINE added == Range(Pushes(links))
             items == Pushes(links)
  <2>1. items \in Seq(Items) /\ \A x \in added : x.kind = "link" /\ x.of = "defend"
    BY <1>PushesLinks
  <2>2. \A i \in 1..Len(items) : items[i] \in added
    BY <2>1, InRange
  <2>3. Plain(items)
    <3> SUFFICES ASSUME NEW i \in 1..Len(items) PROVE items[i].kind \notin {"snap", "objs"}
      BY DEF Plain
    <3>1. items[i].kind = "link"
      BY <2>1, <2>2
    <3> QED BY SMT, <3>1
  <2>4. Orderly(items, step)
    BY <2>1, <2>3, OrderlyPlain
  <2>5. step # "defend"
    BY SMT
  <2>6. \A x \in added : x \in Range(items) /\ x.kind \in {"objs", "link"} /\ x.of = "defend"
    BY <2>1
  <2>7. Pushed(items, added, rings)
    <3> HIDE DEF added, items
    <3>1. open' = open \cup added \cup {Ring(r) : r \in rings} /\ cleanup' = cleanup \o items
      BY DEF added, items
    <3> QED BY <2>1, <2>3, <2>4, <2>5, <2>6, <3>1 DEF Pushed
  <2> QED BY <2>7 DEF PhasePushes
<1>PushedLSM. ASSUME LoadDefendLSM
              PROVE  PhasePushes \/ UNCHANGED resVars
  <2> USE <1>PushedLSM
  <2>1. step = "lsm" /\ once' = once
    BY Zenon DEF LoadDefendLSM
  <2>2. CASE UNCHANGED <<open, cleanup, rd>>
    BY Zenon, <2>1, <2>2 DEF resVars
  <2>3. CASE ~ UNCHANGED <<open, cleanup, rd>>
    <3>1. PICK ok \in SUBSET (LSMParts \cap Kernel) :
            LET links == <<"lsmConnect", "lsmSendmsg">>
                           \o Optional("lsmSendpage" \in ok, "lsmSendpage")
                           \o Optional("selfDefense" \in ok, "selfDefense")
                           \o Optional("lsmIoUring" \in ok, "lsmIoUring")
                rings == {"lsmDeny"} \cup
                           When({"selfDefense", "selfDefenseRing"} \subseteq ok, {"selfDefense"})
            IN  /\ rd' = rd \cup rings
                /\ open' = open \cup Range(Pushes(links)) \cup {Ring(r) : r \in rings}
                /\ cleanup' = cleanup \o Pushes(links)
      BY Zenon, <2>3 DEF LoadDefendLSM
    <3> DEFINE first == <<"lsmConnect", "lsmSendmsg">>
               page == Optional("lsmSendpage" \in ok, "lsmSendpage")
               self == Optional("selfDefense" \in ok, "selfDefense")
               uring == Optional("lsmIoUring" \in ok, "lsmIoUring")
               links == first \o page \o self \o uring
               rings == {"lsmDeny"} \cup
                          When({"selfDefense", "selfDefenseRing"} \subseteq ok, {"selfDefense"})
    <3>2. /\ rd' = rd \cup rings
          /\ open' = open \cup Range(Pushes(links)) \cup {Ring(r) : r \in rings}
          /\ cleanup' = cleanup \o Pushes(links)
      BY <3>1
    <3>3. {"lsmConnect", "lsmSendmsg", "lsmSendpage", "selfDefense", "lsmIoUring"}
             \subseteq Names
      BY DEF Names
    <3>4. first \in Seq(Names) /\ page \in Seq(Names) /\ self \in Seq(Names)
          /\ uring \in Seq(Names)
      BY <3>3 DEF Optional
    <3>5. rings \in SUBSET Rings
      BY DEF Rings, When
    <3> HIDE DEF first, page, self, uring, rings
    <3>6. links \in Seq(Names)
      BY <3>4, ConcatProperties
    <3> HIDE DEF links
    <3> QED BY Zenon, <2>1, <3>2, <3>5, <3>6, <1>PushedLinks
  <2> QED BY <2>2, <2>3
\* A prefix of a sequence of names is one.
<1>PrefixSeq. ASSUME NEW S, NEW s \in Seq(S), NEW t \in Prefixes(s)
              PROVE  t \in Seq(S)
  <2> USE <1>PrefixSeq
  <2>1. PICK n \in 0..Len(s) : t = SubSeq(s, 1, n)
    BY DEF Prefixes
  <2>2. n \in Int /\ \A i \in 1..n : s[i] \in S
    BY <2>1
  <2> QED BY <2>1, <2>2, SubSeqProperties
<1>PushedCgroup. ASSUME LoadDefendCgroup
                 PROVE  PhasePushes \/ UNCHANGED resVars
  <2> USE <1>PushedCgroup
  <2>1. step = "cgroup" /\ once' = once
    BY Zenon DEF LoadDefendCgroup
  <2>2. CASE UNCHANGED <<open, cleanup, rd>>
    BY Zenon, <2>1, <2>2 DEF resVars
  <2>3. CASE ~ UNCHANGED <<open, cleanup, rd>>
    <3>1. PICK ok \in SUBSET (CgroupParts \cap Kernel) :
            \E links \in Prefixes(CgroupLinks({"backstopRing", "tcx"} \subseteq ok)) :
              LET rings == {"deny"} \cup When("tcx" \in Range(links), {"backstop"})
              IN  /\ rd' = rd \cup rings
                  /\ open' = open \cup Range(Pushes(links)) \cup {Ring(r) : r \in rings}
                  /\ cleanup' = cleanup \o Pushes(links)
      BY <2>3 DEF LoadDefendCgroup
    <3> DEFINE wanted == CgroupLinks({"backstopRing", "tcx"} \subseteq ok)
    <3>2. PICK links \in Prefixes(wanted) :
              LET rings == {"deny"} \cup When("tcx" \in Range(links), {"backstop"})
              IN  /\ rd' = rd \cup rings
                  /\ open' = open \cup Range(Pushes(links)) \cup {Ring(r) : r \in rings}
                  /\ cleanup' = cleanup \o Pushes(links)
      BY <3>1
    <3> DEFINE rings == {"deny"} \cup When("tcx" \in Range(links), {"backstop"})
    <3>3. /\ rd' = rd \cup rings
          /\ open' = open \cup Range(Pushes(links)) \cup {Ring(r) : r \in rings}
          /\ cleanup' = cleanup \o Pushes(links)
      BY <3>2
    <3>4. wanted \in Seq(Names)
      <4> DEFINE v4 == <<"connect4", "sendmsg4">>
                 tc == Optional({"backstopRing", "tcx"} \subseteq ok, "tcx")
                 v6 == <<"connect6", "sendmsg6">>
      <4>1. {"connect4", "sendmsg4", "tcx", "connect6", "sendmsg6"} \subseteq Names
        BY DEF Names
      <4>2. v4 \in Seq(Names) /\ tc \in Seq(Names) /\ v6 \in Seq(Names)
        BY <4>1 DEF Optional
      <4>3. wanted = v4 \o tc \o v6
        BY DEF CgroupLinks
      <4> HIDE DEF v4, tc, v6, wanted
      <4> QED BY <4>2, <4>3, ConcatProperties
    <3>5. rings \in SUBSET Rings
      BY DEF Rings, When
    <3> HIDE DEF wanted, rings
    <3>6. links \in Seq(Names)
      BY <3>4, <1>PrefixSeq
    <3> QED BY Zenon, <2>1, <3>3, <3>5, <3>6, <1>PushedLinks
  <2> QED BY <2>2, <2>3
\* The parts of the exec probe that are up include the collection if there are any.
<1>ExecObjsFirst. ASSUME NEW parts \in Prefixes(ExecParts), Range(parts) # {}
                  PROVE  "execObjs" \in Range(parts)
  <2> USE <1>ExecObjsFirst
  <2>1. PICK n \in 0..3 : parts = SubSeq(ExecParts, 1, n)
    BY DEF Prefixes, ExecParts
  <2>2. CASE n = 0
    BY <2>1, <2>2 DEF Range
  <2>3. CASE n > 0
    BY <2>1, <2>3 DEF Range, ExecParts
  <2> QED BY <2>2, <2>3
<1>PushedExec. ASSUME LoadExec
               PROVE  PhasePushes \/ UNCHANGED resVars
  <2> USE <1>PushedExec
  <2>1. step = "exec" /\ once' = once
    BY Zenon DEF LoadExec
  <2>2. PICK parts \in Prefixes(ExecParts) :
          LET got == Range(parts)
              link == Optional("execLink" \in got, Link("exec", "execLink"))
          IN
          /\ open' = open \cup When("execObjs" \in got, {Objs("exec")})
                          \cup Range(link)
                          \cup When("execRing" \in got, {Ring("exec")})
          /\ rd' = rd \cup When("execRing" \in got, {"exec"})
          /\ cleanup' = IF got = {} THEN cleanup
                        ELSE cleanup \o ExecCleanup(link)
    BY Zenon DEF LoadExec
  <2> DEFINE a == Objs("exec")
             b == Snap("exec")
             l == Link("exec", "execLink")
             got == Range(parts)
             link == Optional("execLink" \in got, l)
             rings == When("execRing" \in got, {"exec"})
             added == {a} \cup Range(link)
             pair == <<a, b>>
             items == pair \o link
  <2>3. a \in Items /\ b \in Items /\ a.kind = "objs" /\ l \in Items /\ l.kind = "link"
    <3>1. "exec" \in Collections /\ "execLink" \in Names
      BY Zenon DEF Collections, Names
    <3> QED BY Zenon, <3>1, ItemKinds
  <2>4. link \in Seq(Items) /\ Range(link) = When("execLink" \in got, {l})
    <3> DEFINE has == "execLink" \in got
    <3>1. has \in BOOLEAN
      OBVIOUS
    <3>2. link = Optional(has, l)
      BY Zenon
    <3> HIDE DEF l, link
    <3> QED BY Zenon, <2>3, <3>1, <3>2, <1>OptionalSeq
  <2>5. CASE got = {}
    BY Zenon, <2>1, <2>2, <2>4, <2>5 DEF When, resVars
  <2>6. CASE got # {}
    <3>1. pair \in Seq(Items) /\ Range(pair) = {a, b} /\ Orderly(pair, "exec")
      BY Zenon, <2>3, <1>Stack2
    <3>2. "execObjs" \in got
      BY Zenon, <2>6, <1>ExecObjsFirst
    <3>3. /\ cleanup' = cleanup \o items /\ rd' = rd \cup rings
          /\ open' = open \cup added \cup {Ring(r) : r \in rings}
          /\ rings \in SUBSET Rings
      BY <2>2, <2>6, <3>2 DEF ExecCleanup, When, Rings
    <3>4. Plain(link) /\ \A i \in 1..Len(link) : link[i] = l
      <4>1. \A i \in 1..Len(link) : link[i] = l
        BY DEF Optional
      <4> HIDE DEF link, l
      <4> QED BY <2>3, <4>1 DEF Plain
    <3>5. pair[2] = b /\ Len(pair) = 2
      OBVIOUS
    <3>6. a = Objs(step) /\ b = Snap("exec") /\ l.of = "exec"
      BY <2>1 DEF Link, Item
    <3> HIDE DEF a, b, l, link, pair, rings, got
    <3>7. items \in Seq(Items) /\ Range(items) = Range(pair) \cup Range(link)
      BY <2>4, <3>1, ConcatProperties, RangeConcatenation
    <3>8. Orderly(items, step)
      BY <2>1, <2>4, <3>1, <3>4, <1>OrderlyConcat
    <3>9. /\ Len(items) = Len(pair) + Len(link)
          /\ \A i \in 1..(Len(pair) + Len(link)) :
               items[i] = IF i <= Len(pair) THEN pair[i] ELSE link[i - Len(pair)]
      BY Zenon, <2>4, <3>1, ConcatProperties
    <3> HIDE DEF items
    <3>10. \A x \in added : x \in Range(items) /\ (x = a \/ x = l)
      <4>1. Range(link) \subseteq {l}
        BY <2>4 DEF When
      <4> QED BY <3>1, <3>7, <4>1
    <3>11. l \in added => Above(l, items)
      <4> SUFFICES ASSUME l \in added PROVE Above(l, items)
        OBVIOUS
      <4>1. l \in Range(link)
        BY <2>3
      <4>2. PICK k \in 1..Len(link) : l = link[k]
        BY Zenon, <2>4, <4>1, InRange
      <4>3. Len(link) \in Nat
        BY <2>4
      <4> DEFINE j == 2 + k
      <4>4. /\ 2 \in 1..Len(items) /\ j \in 1..Len(items) /\ 2 < j
            /\ items[2] = b /\ items[j] = l
        BY <3>5, <3>9, <4>2, <4>3
      <4> QED BY Zenon, <3>6, <4>4 DEF Above
    <3>12. \A x \in added : x \in Range(items) /\ x.kind \in {"objs", "link"}
      BY Zenon, <2>3, <3>10
    <3>13. \A x \in added : x.kind = "link" => Above(x, items)
      <4>1. a.kind # "link"
        BY <2>3
      <4> QED BY Zenon, <3>10, <3>11, <4>1
    <3>14. Objs(step) \in added /\ step # "defend"
      BY <2>1, <3>6
    <3> HIDE DEF added
    <3>15. Pushed(items, added, rings)
      BY Zenon, <3>3, <3>7, <3>8, <3>12, <3>13, <3>14 DEF Pushed
    <3> QED BY Zenon, <3>15 DEF PhasePushes
  <2> QED BY Zenon, <2>5, <2>6
<1>PushedSyscall. ASSUME cleanup \in Seq(Items), ArmSyscall
                  PROVE  PhasePushes \/ UNCHANGED resVars
  <2> USE <1>PushedSyscall
  <2> DEFINE L(id) == Link("syscall", id)
  <2>1. step = "syscall" /\ once' = once
    BY Zenon DEF ArmSyscall
  <2>2. CASE UNCHANGED <<open, cleanup, rd>>
    BY Zenon, <2>1, <2>2 DEF resVars
  <2>3. CASE ~ UNCHANGED <<open, cleanup, rd>>
    <3>1. PICK ok \in SUBSET (SyscallParts \cap Kernel) :
         LET kprobes == Optional("kprobes" \in ok, L("kprobe"))
                          \o Optional("kprobes" \in ok, L("kretprobe"))
             later == Optional("tcpState" \in ok, L("tcpState"))
                        \o Optional("ioUring" \in ok, L("ioUring"))
             rings == {"conn", "udp", "http", "tls"} \cup (ok \cap {"tcpState", "ioUring"})
                        \cup When({"ioUring", "enhanced"} \subseteq ok, {"ioUringTLS"})
         IN
               /\ rd' = rd \cup rings
               /\ open' = open \cup {Objs("syscall"), L("sysEnter")} \cup Range(kprobes)
                               \cup Range(later) \cup {Ring(r) : r \in rings}
               /\ cleanup' = cleanup \o kprobes
                               \o <<Objs("syscall"), L("sysEnter"), Snap("syscall")>> \o later
      BY Zenon, <2>3 DEF ArmSyscall
    <3> DEFINE k1 == Optional("kprobes" \in ok, L("kprobe"))
               k2 == Optional("kprobes" \in ok, L("kretprobe"))
               l1 == Optional("tcpState" \in ok, L("tcpState"))
               l2 == Optional("ioUring" \in ok, L("ioUring"))
               kprobes == k1 \o k2
               later == l1 \o l2
               a == Objs("syscall")
               b == L("sysEnter")
               c == Snap("syscall")
               core == <<a, b, c>>
               rings == {"conn", "udp", "http", "tls"} \cup (ok \cap {"tcpState", "ioUring"})
                          \cup When({"ioUring", "enhanced"} \subseteq ok, {"ioUringTLS"})
               added == {a, b} \cup Range(kprobes) \cup Range(later)
               front == kprobes \o core
               items == front \o later
    <3>2. /\ rd' = rd \cup rings
          /\ open' = open \cup added \cup {Ring(r) : r \in rings}
          /\ cleanup' = ((cleanup \o kprobes) \o core) \o later
      BY <3>1
    <3> DEFINE Links == {x \in Items : x.kind = "link" /\ x.of = "syscall"}
    <3>3. /\ a \in Items /\ c \in Items /\ a.kind = "objs" /\ a = Objs(step) /\ c = Snap(step)
          /\ {b, L("kprobe"), L("kretprobe"), L("tcpState"), L("ioUring")} \subseteq Links
      <4>1. /\ "syscall" \in Collections
            /\ {"sysEnter", "kprobe", "kretprobe", "tcpState", "ioUring"} \subseteq Names
        BY Zenon DEF Collections, Names
      <4>2. \A i : L(i).of = "syscall"
        BY DEF Link, Item
      <4>3. {b, L("kprobe"), L("kretprobe"), L("tcpState"), L("ioUring")} \subseteq Links
        BY <4>1, <4>2, ItemKinds
      <4> QED BY Zenon, <2>1, <4>1, <4>3, ItemKinds
    <3>4. k1 \in Seq(Links) /\ k2 \in Seq(Links) /\ l1 \in Seq(Links) /\ l2 \in Seq(Links)
      <4>1. {L("kprobe"), L("kretprobe"), L("tcpState"), L("ioUring")} \subseteq Links
        BY Zenon, <3>3
      <4> HIDE DEF L, Links
      <4> QED BY <4>1 DEF Optional
    <3>5. core \in Seq(Items) /\ Range(core) = {a, b, c} /\ Orderly(core, step)
      <4> HIDE DEF a, b, c
      <4> QED BY <3>3, <1>Stack3
    <3>6. rings \in SUBSET Rings
      BY Zenon DEF When, Rings
    <3> HIDE DEF a, b, c, k1, k2, l1, l2, core, rings
    <3>7. kprobes \in Seq(Links) /\ later \in Seq(Links)
      BY <3>4, ConcatProperties
    <3>8. Range(kprobes) \subseteq Links /\ Range(later) \subseteq Links
      BY Zenon, <3>7, <1>RangeOfSeq
    <3> HIDE DEF kprobes, later
    <3>9. /\ kprobes \in Seq(Items) /\ later \in Seq(Items)
          /\ Plain(kprobes) /\ Plain(later)
      BY <3>7, <1>SeqMonotonic DEF Plain
    <3>10. front \in Seq(Items) /\ Range(front) = Range(kprobes) \cup Range(core)
      BY <3>5, <3>9, ConcatProperties, RangeConcatenation
    <3>11. cleanup' = cleanup \o items
      <4>1. (cleanup \o kprobes) \o core = cleanup \o front
        <5>1. kprobes \in Seq(Items) /\ core \in Seq(Items)
          BY Zenon, <3>5, <3>9
        <5> QED BY SMTT(30), <5>1, <1>ConcatAssociative
      <4> HIDE DEF front
      <4>2. (cleanup \o front) \o later = cleanup \o (front \o later)
        <5>1. front \in Seq(Items) /\ later \in Seq(Items)
          BY Zenon, <3>9, <3>10
        <5> QED BY SMTT(30), <5>1, <1>ConcatAssociative
      <4> QED BY <3>2, <4>1, <4>2
    <3>12. Orderly(front, step)
      BY <3>5, <3>9, <1>OrderlyConcat
    <3> HIDE DEF front
    <3>13. items \in Seq(Items) /\ Range(items) = Range(front) \cup Range(later)
      BY <3>9, <3>10, ConcatProperties, RangeConcatenation
    <3>14. Orderly(items, step)
      BY <3>9, <3>10, <3>12, <1>OrderlyConcat
    <3> HIDE DEF items
    <3>15. \A x \in added : x \in Range(items) /\ x.kind \in {"objs", "link"}
      BY <3>3, <3>5, <3>8, <3>10, <3>13
    <3>16. \A x \in added : x.kind = "link" => x.of = "syscall"
      BY <3>3, <3>8
    <3>17. Objs(step) \in added /\ step # "defend" /\ "syscall" \notin {"defend", "exec"}
      BY <2>1, <3>3
    <3> HIDE DEF added
    <3>18. Pushed(items, added, rings)
      BY Zenon, <3>2, <3>6, <3>11, <3>13, <3>14, <3>15, <3>16, <3>17 DEF Pushed
    <3> QED BY Zenon, <3>18 DEF PhasePushes
  <2> QED BY <2>2, <2>3
<1> SUFFICES ASSUME cleanup \in Seq(Items), LoadPhase
             PROVE  PhasePushes \/ (UNCHANGED resVars /\ step' # "lsm")
  OBVIOUS
<1> USE Zenon
<1>1. Advances
  BY LoadAdvances
<1>2. step' = "lsm" => step = "defend"
  BY <1>1 DEF Advances, Forward
<1>3. CASE SkipDefend
  BY SMT, <1>3 DEF SkipDefend, Proceed
<1>4. CASE LoadDefendObjects
  <2>1. "unwind" # "lsm"
    BY SMT
  <2> QED BY <1>4, <2>1, <1>PushedDefendObjects
<1>5. CASE step # "defend" /\ (PhasePushes \/ UNCHANGED resVars)
  BY <1>2, <1>5
<1>6. CASE SkipLSM \/ ProbeAndArm \/ ReadyDetect
  BY SMT, <1>6 DEF SkipLSM, ProbeAndArm, ReadyDetect, Proceed, Fatal
<1>7. CASE LoadDefendLSM \/ LoadDefendCgroup \/ LoadExec \/ ArmSyscall
  <2>1. PhasePushes \/ UNCHANGED resVars
    BY <1>7, <1>PushedLSM, <1>PushedCgroup, <1>PushedExec, <1>PushedSyscall
  <2>2. step \in {"lsm", "cgroup", "exec", "syscall"}
    BY <1>7 DEF LoadDefendLSM, LoadDefendCgroup, LoadExec, ArmSyscall
  <2> QED BY SMT, <1>5, <2>1, <2>2
<1>8. CASE LoadDNS \/ LoadFork \/ LoadFS \/ LoadKTLS \/ LoadIPv6Obs \/ LoadBPFAudit
  <2>1. PhasePushes \/ UNCHANGED resVars
    BY <1>8, <1>PushedDNS, <1>PushedFork, <1>PushedFS, <1>PushedKTLS, <1>PushedIPv6Obs, <1>PushedAudit
  <2>2. step \in {"dns", "fork", "fs", "ktls", "ipv6Obs", "audit"}
    BY <1>8 DEF LoadDNS, LoadFork, LoadFS, LoadKTLS, LoadIPv6Obs, LoadBPFAudit, LoadProbe
  <2> QED BY SMT, <1>5, <2>1, <2>2
<1> QED BY <1>3, <1>4, <1>6, <1>7, <1>8 DEF LoadPhase

-----------------------------------------------------------------------------
(* Nothing leaks.                                                          *)

CloseAll == Func("closeAllReaders")

\* What is open will be closed by the stack c: a collection or link by an item of
\* its own, a ring reader that is assigned and not closed yet by closeAllReaders.
Stacked(o, c, d, e) ==
  \A x \in o :
    \/ x \in Range(c) /\ x.kind \in {"objs", "link"}
    \/ CloseAll \in Range(c) /\ \E r \in (Rings \cap d) \ e : x = Ring(r)

\* The strengthening of NothingLeaks.
Held ==
  /\ cleanup \in Seq(Items)
  /\ Stacked(open, cleanup, rd, once)
  /\ step \in Loading \cup {"readyDefend", "wait"} => CloseAll \in Range(cleanup)
  /\ step \in Loading => once = {}
  /\ step = "compile" => open = {} /\ once = {}
  /\ step = "done" => cleanup = << >>

\* A phase that opens and closes nothing.
LEMMA Keep ==
  ASSUME Held, UNCHANGED resVars,
         step' \in Loading => step \in Loading,
         step' = "wait" => step \in Loading \cup {"readyDefend", "wait"},
         step' = "readyDefend" => step \in Loading \cup {"readyDefend", "wait"},
         step' = "compile" => step = "compile",
         step' = "done" => step = "done"
  PROVE  Held'
<1>1. /\ cleanup' = cleanup /\ open' = open /\ rd' = rd /\ once' = once
  BY DEF resVars
<1>2. Stacked(open, cleanup, rd, once)'
  BY <1>1 DEF Held, Stacked, CloseAll
<1>3. (step \in Loading \cup {"readyDefend", "wait"} => CloseAll \in Range(cleanup))'
  BY <1>1 DEF Held, CloseAll
<1> QED BY <1>1, <1>2, <1>3 DEF Held

LEMMA HeldInit ==
  ASSUME Init
  PROVE  Held
<1>1. Func("writeShutdownTelemetry") \in Items
  BY ItemKinds DEF Names
<1>2. cleanup \in Seq(Items) /\ open = {} /\ once = {} /\ step = "compile"
  BY <1>1 DEF Init
<1> QED BY Zenon, <1>2 DEF Held, Stacked, Loading

LEMMA HeldStep ==
  Held /\ [Next]_vars =>
    Held'
\* A phase that pushes items which cover what it opens, and assigns the readers of
\* the rings it opens, leaves everything open on the stack.
<1>Grow. ASSUME cleanup \in Seq(Items), Stacked(open, cleanup, rd, once),
                CloseAll \in Range(cleanup), once = {},
                NEW items \in Seq(Items), NEW added, NEW rings \in SUBSET Rings,
                \A x \in added : x \in Range(items) /\ x.kind \in {"objs", "link"}
         PROVE  /\ cleanup \o items \in Seq(Items)
                /\ CloseAll \in Range(cleanup \o items)
                /\ Stacked(open \cup added \cup {Ring(r) : r \in rings}, cleanup \o items,
                           rd \cup rings, once)
  <2> USE <1>Grow
  <2>1. cleanup \o items \in Seq(Items)
    BY ConcatProperties
  <2>2. Range(cleanup \o items) = Range(cleanup) \cup Range(items)
    BY RangeConcatenation
  <2>3. CloseAll \in Range(cleanup \o items)
    BY <2>2
  <2>4. ASSUME NEW x \in open \cup added \cup {Ring(r) : r \in rings}
        PROVE  \/ x \in Range(cleanup \o items) /\ x.kind \in {"objs", "link"}
               \/ \E r \in (Rings \cap (rd \cup rings)) \ once : x = Ring(r)
    <3>1. CASE x \in open
      BY <2>2, <3>1, Zenon DEF Stacked
    <3>2. CASE x \in added
      BY <2>2, <3>2
    <3>3. CASE \E r \in rings : x = Ring(r)
      BY <3>3
    <3> QED BY <3>1, <3>2, <3>3
  <2> QED BY <2>1, <2>3, <2>4, Zenon DEF Stacked
\* A phase that grows the stack and goes on, or fails.
<1>Load. ASSUME Held, step \in Loading, once' = once,
                NEW items \in Seq(Items), NEW added, NEW rings \in SUBSET Rings,
                \A x \in added : x \in Range(items) /\ x.kind \in {"objs", "link"},
                cleanup' = cleanup \o items,
                open' = open \cup added \cup {Ring(r) : r \in rings},
                rd' = rd \cup rings,
                step' \in Loading \cup {"unwind"}
         PROVE  Held'
  <2> USE <1>Load
  <2>1. /\ cleanup \in Seq(Items)
        /\ Stacked(open, cleanup, rd, once)
        /\ CloseAll \in Range(cleanup)
        /\ once = {}
    BY DEF Held
  <2>2. /\ cleanup \o items \in Seq(Items)
        /\ CloseAll \in Range(cleanup \o items)
        /\ Stacked(open \cup added \cup {Ring(r) : r \in rings}, cleanup \o items,
                   rd \cup rings, once)
    BY Zenon, <2>1, <1>Grow
  <2>3. CloseAll' = CloseAll
    BY DEF CloseAll
  <2>4. Stacked(open, cleanup, rd, once)'
    BY <2>2, <2>3, Zenon DEF Stacked
  <2>5. (CloseAll \in Range(cleanup))'
    BY <2>2, <2>3
  <2>6. step' \notin {"compile", "done"}
    BY DEF Loading
  <2> QED BY Zenon, <2>1, <2>2, <2>4, <2>5, <2>6 DEF Held
<1>HeldCompile. ASSUME Held, CompileAllowlist
                PROVE  Held'
  <2> USE <1>HeldCompile
  <2>1. step = "compile" /\ cleanup \in Seq(Items) /\ open = {} /\ once = {} /\ open' = {}
        /\ once' = {}
    BY DEF Held, CompileAllowlist
  <2> USE <2>1
  <2>2. CASE cleanup' = Append(cleanup, CloseAll) /\ step' = "defend"
    <3>1. CloseAll \in Items
      BY ItemKinds DEF CloseAll, Names
    <3>2. cleanup' \in Seq(Items) /\ Len(cleanup') = Len(cleanup) + 1
          /\ cleanup'[Len(cleanup) + 1] = CloseAll
      BY <2>2, <3>1, AppendProperties
    <3>3. CloseAll \in Range(cleanup')
      BY <3>2, InRange
    <3> QED BY <2>2, <3>2, <3>3 DEF Held, Stacked, CloseAll, Loading
  <2>3. CASE cleanup' = cleanup /\ step' = "unwind"
    BY <2>3 DEF Held, Stacked, Loading
  <2> QED BY <2>2, <2>3 DEF CompileAllowlist, Proceed, Fatal, CloseAll
<1>HeldLoad. ASSUME Held, LoadPhase
             PROVE  Held'
  <2> USE <1>HeldLoad
  <2> USE Zenon
  <2>1. /\ step \in Loading /\ step' \in Loading \cup {"unwind"} /\ once' = once
        /\ cleanup \in Seq(Items)
    BY LoadAdvances DEF Advances, Held
  <2>2. CASE UNCHANGED resVars
    BY SMT, <2>1, <2>2, Keep DEF Loading
  <2>3. CASE PhasePushes
    <3>1. PICK items, added, rings : Pushed(items, added, rings)
      BY <2>3 DEF PhasePushes
    <3>2. /\ items \in Seq(Items) /\ rings \in SUBSET Rings
          /\ cleanup' = cleanup \o items /\ rd' = rd \cup rings
          /\ open' = open \cup added \cup {Ring(r) : r \in rings}
          /\ \A x \in added : x \in Range(items) /\ x.kind \in {"objs", "link"}
      BY <3>1 DEF Pushed
    <3> QED BY <2>1, <3>2, <1>Load
  <2> QED BY <2>1, <2>2, <2>3, LoadPushes
<1>HeldSpawn. ASSUME Held, SpawnReaders
              PROVE  Held'
  <2> USE <1>HeldSpawn
  <2>1. /\ step = "spawn" /\ step' = "readyDefend"
        /\ cleanup' = Append(cleanup, Func("runCancel"))
        /\ open' = open /\ rd' = rd /\ once' = once
    BY DEF SpawnReaders, Proceed
  <2>2. cleanup \in Seq(Items) /\ CloseAll \in Range(cleanup) /\ Stacked(open, cleanup, rd, once)
    BY Zenon, <2>1 DEF Held, Loading
  <2>3. Func("runCancel") \in Items
    BY Zenon, ItemKinds DEF Names
  <2>4. cleanup' \in Seq(Items) /\ cleanup' = cleanup \o <<Func("runCancel")>>
        /\ <<Func("runCancel")>> \in Seq(Items)
    BY <2>1, <2>2, <2>3, AppendProperties, AppendIsConcat
  <2>5. Range(cleanup) \subseteq Range(cleanup')
    <3> DEFINE last == <<Func("runCancel")>>
    <3>1. last \in Seq(Items) /\ cleanup' = cleanup \o last
      BY <2>4
    <3> HIDE DEF last
    <3> QED BY <2>2, <3>1, RangeConcatenation
  <2>6. Stacked(open, cleanup, rd, once)' /\ (CloseAll \in Range(cleanup))'
    BY Zenon, <2>1, <2>2, <2>5 DEF Stacked, CloseAll
  <2> QED BY <2>1, <2>4, <2>6 DEF Held, Loading
\* Closing readers closes the rings they hold.
<1>ClosedRings. ASSUME NEW ids, NEW c, CloseRings(ids), rd' = rd, Stacked(open, cleanup, rd, once),
                       Range(cleanup) \ {c} \subseteq Range(cleanup'),
                       c.kind \notin {"objs", "link"}, c = CloseAll => Rings \subseteq ids
                PROVE  Stacked(open, cleanup, rd, once)'
  <2> USE <1>ClosedRings
  <2> SUFFICES ASSUME NEW x \in open'
               PROVE  \/ x \in Range(cleanup') /\ x.kind \in {"objs", "link"}
                      \/ CloseAll \in Range(cleanup')
                           /\ \E r \in (Rings \cap rd') \ once' : x = Ring(r)
    BY DEF Stacked, CloseAll
  <2>1. x \in open /\ once' = once \cup ids /\ \A i \in (ids \cap rd) \ once : x # Ring(i)
    BY DEF CloseRings
  <2>2. CASE x \in Range(cleanup) /\ x.kind \in {"objs", "link"}
    BY <2>2
  <2>3. CASE CloseAll \in Range(cleanup) /\ \E r \in (Rings \cap rd) \ once : x = Ring(r)
    <3>1. PICK r \in (Rings \cap rd) \ once : x = Ring(r)
      BY <2>3
    <3>2. r \notin ids
      BY Zenon, <2>1, <3>1
    <3> QED BY <2>1, <2>3, <3>1, <3>2
  <2> QED BY Zenon, <2>1, <2>2, <2>3 DEF Stacked
<1>HeldCloseAll. ASSUME Held, closeAllReaders
                 PROVE  Held'
  <2> USE <1>HeldCloseAll
  <2>1. /\ step \in {"readyDefend", "wait"} /\ step' = step
        /\ cleanup' = cleanup /\ rd' = rd /\ CloseRings(Rings)
    BY DEF closeAllReaders
  <2>2. CloseAll.kind = "func"
    BY DEF CloseAll, Func, Item
  <2>3. Stacked(open, cleanup, rd, once)'
    BY Zenon, <2>1, <2>2, <1>ClosedRings DEF Held
  <2>4. (CloseAll \in Range(cleanup))'
    BY Zenon, <2>1 DEF Held, CloseAll
  <2> QED BY <2>1, <2>3, <2>4 DEF Held, Loading
<1>HeldUnwind. ASSUME Held, Unwind
               PROVE  Held'
  <2> USE <1>HeldUnwind
  <2> DEFINE item == Last(cleanup)
  <2>1. /\ step = "unwind" /\ cleanup # << >> /\ cleanup' = Front(cleanup) /\ rd' = rd
        /\ step' = IF Len(cleanup) = 1 THEN "done" ELSE "unwind"
        /\ \/ item.kind = "ring" /\ CloseRings({item.id})
           \/ item = CloseAll /\ CloseRings(Rings)
           \/ item.kind \in {"objs", "link"} /\ open' = open \ {item} /\ once' = once
           \/ item.kind = "snap" /\ open' = open /\ once' = once
           \/ item.kind = "func" /\ item # CloseAll /\ open' = open /\ once' = once
    BY DEF Unwind, CloseAll
  <2>2. cleanup \in Seq(Items) /\ Stacked(open, cleanup, rd, once)
    BY Zenon DEF Held
  <2> USE <2>1
  <2>3. /\ cleanup' \in Seq(Items) /\ Len(cleanup') = Len(cleanup) - 1
        /\ Range(cleanup) \ {item} \subseteq Range(cleanup')
    BY Zenon, <2>2, RangeFront
  <2>4. CloseAll.kind = "func"
    BY DEF CloseAll, Func, Item
  <2> HIDE DEF item
  <2> USE <2>3
  <2>5. Stacked(open, cleanup, rd, once)'
    <3>1. CASE item.kind = "ring" /\ CloseRings({item.id})
      BY <2>2, <2>4, <3>1, <1>ClosedRings
    <3>2. CASE item = CloseAll /\ CloseRings(Rings)
      BY Zenon, <2>2, <2>4, <3>2, <1>ClosedRings
    <3>3. CASE item.kind \in {"objs", "link"} /\ open' = open \ {item} /\ once' = once
      BY ZenonT(40), <2>2, <2>4, <3>3 DEF Stacked, CloseAll
    <3>4. CASE /\ item.kind \notin {"objs", "link"} /\ item # CloseAll
               /\ open' = open /\ once' = once
      BY <2>2, <2>4, <3>4 DEF Stacked, CloseAll
    <3> QED BY Zenon, <2>4, <3>1, <3>2, <3>3, <3>4
  <2>6. step' = "done" => cleanup' = << >>
    <3> SUFFICES ASSUME step' = "done" PROVE cleanup' = << >>
      OBVIOUS
    <3>1. Len(cleanup') = 0
      OBVIOUS
    <3> QED BY <3>1, EmptySeq
  <2> QED BY Zenon, <2>5, <2>6 DEF Held, Loading
<1> SUFFICES ASSUME Held, [Next]_vars
             PROVE  Held'
  OBVIOUS
<1> USE Zenon
<1>1. CASE CompileAllowlist
  BY <1>1, <1>HeldCompile
<1>2. CASE LoadPhase
  BY <1>2, <1>HeldLoad
<1>3. CASE SpawnReaders
  BY <1>3, <1>HeldSpawn
<1>4. CASE closeAllReaders
  BY <1>4, <1>HeldCloseAll
<1>5. CASE Unwind
  BY <1>5, <1>HeldUnwind
<1>6. CASE ReadyDefend
  BY SMT, <1>6, Keep DEF ReadyDefend, Loading
<1>7. CASE WaitReaders
  BY <1>7, Keep DEF WaitReaders, Loading
<1>8. CASE \E g \in live : GoroutineEnds(g) \/ ReaderEndsEarly(g)
  BY <1>8, Keep DEF GoroutineEnds, ReaderEndsEarly, End
<1>9. CASE Signal \/ \E x \in Lossy : LoseEvent(x)
  BY <1>9, Keep DEF Signal, LoseEvent
<1>10. CASE UNCHANGED vars
  BY SMT, <1>10, Keep DEF vars
<1> QED BY <1>1, <1>2, <1>3, <1>4, <1>5, <1>6, <1>7, <1>8, <1>9, <1>10 DEF Next, Main,
           Terminated, LoadPhase

\* Whatever load phase fails and whenever the signal arrives, once Run has returned
\* nothing it opened is open.
THEOREM NothingLeaked == Spec => []NothingLeaks
<1>1. Held => NothingLeaks
  <2> SUFFICES ASSUME Held, step = "done" PROVE open = {}
    BY DEF NothingLeaks
  <2>1. cleanup = << >> /\ Range(cleanup) = {}
    BY DEF Held, Range
  <2> QED BY <2>1 DEF Held, Stacked
<1> QED BY <1>1, HeldInit, HeldStep, PTL DEF Spec

-----------------------------------------------------------------------------
(* The order of the stack.                                                 *)

\* A snapshot on the stack c is of an open collection, which is closed later.
Backed(c, o) ==
  \A i \in 1..Len(c) :
    c[i].kind = "snap" =>
      /\ c[i] = Snap(c[i].of)
      /\ Objs(c[i].of) \in o
      /\ \A p \in 1..Len(c) : c[p] = Objs(c[i].of) => p < i

\* An open link of the defend or exec collection is closed before the snapshot.
Counted(c, o) ==
  \A l \in o : (l.kind = "link" /\ l.of \in {"defend", "exec"}) => Above(l, c)

\* The strengthening of SnapshotsReadOpenMaps and of the first half of RecordHonest:
\* the snapshots are in the right places of the stack, a loss that no snapshot has
\* counted is one that a snapshot on the stack will, and a phase that has not come
\* yet has left no snapshot.
Ordered ==
  /\ cleanup \in Seq(Items)
  /\ Backed(cleanup, open)
  /\ Counted(cleanup, open)
  /\ \A x \in lost \cap {"defend", "exec"} : Snap(x) \in Range(cleanup)
  /\ step \in DOMAIN Phase =>
       \A x \in DOMAIN Phase : Snap(x) \in Range(cleanup) => Phase[x] < Phase[step]
  /\ step \in {"lsm", "cgroup"} => Snap("defend") \in Range(cleanup)

\* A link that is opened with these items is above the snapshot of its collection.
Joins(c, o, items, n) ==
  \A l \in n \ o : (l.kind = "link" /\ l.of \in {"defend", "exec"}) =>
    (Snap(l.of) \in Range(c) /\ l \in Range(items)) \/ Above(l, items)

LEMMA OrderedInit ==
  ASSUME Init
  PROVE  Ordered
<1> DEFINE f == Func("writeShutdownTelemetry")
<1>1. f \in Items /\ f.kind = "func"
  BY ItemKinds DEF Names
<1>2. cleanup = <<f>> /\ open = {} /\ lost = {} /\ step = "compile"
  BY Zenon DEF Init
<1> HIDE DEF f
<1>3. cleanup \in Seq(Items) /\ Len(cleanup) = 1 /\ cleanup[1] = f /\ Range(cleanup) = {f}
  BY <1>1, <1>2 DEF Range
<1>4. \A i \in 1..Len(cleanup) : cleanup[i].kind # "snap"
  BY <1>1, <1>3
<1>5. Backed(cleanup, open) /\ Counted(cleanup, open)
  BY Zenon, <1>2, <1>4 DEF Backed, Counted
<1>6. \A x : Snap(x) \notin Range(cleanup)
  <2>1. \A x : Snap(x).kind = "snap"
    BY Zenon, ItemFields
  <2> QED BY <1>1, <1>3, <2>1
<1> QED BY <1>2, <1>3, <1>5, <1>6 DEF Ordered

LEMMA OrderedStep ==
  Ordered /\ [Next]_vars =>
    Ordered'
\* Pushing the items of a phase whose snapshot is not on the stack yet.
<1>BackedGrows. ASSUME NEW c \in Seq(Items), NEW o, NEW items \in Seq(Items), NEW n, o \subseteq n,
                       NEW x, Backed(c, o), Snap(x) \notin Range(c), Orderly(items, x),
                       Objs(x) \in n \/ Plain(items)
                PROVE  Backed(c \o items, n)
  <2> USE <1>BackedGrows
  <2> USE Zenon
  <2> DEFINE a == Len(c)
             b == Len(items)
             d == c \o items
  <2>1. /\ a \in Nat /\ b \in Nat /\ Len(d) = a + b
        /\ \A i \in 1..(a + b) : d[i] = IF i <= a THEN c[i] ELSE items[i - a]
    BY SMT, ConcatProperties
  <2>2. \A i \in 1..a : c[i].kind = "snap" =>
          /\ c[i] = Snap(c[i].of) /\ Objs(c[i].of) \in o
          /\ \A p \in 1..a : c[p] = Objs(c[i].of) => p < i
    BY DEF Backed
  <2>3. \A i \in 1..b :
          /\ items[i].kind = "snap" =>
               items[i] = Snap(x) /\ \A p \in 1..b : items[p] = Objs(x) => p < i
          /\ items[i].kind = "objs" => items[i] = Objs(x)
    BY DEF Orderly
  <2>4. \A i \in 1..b : items[i].kind = "snap" => Objs(x) \in n
    BY DEF Plain
  <2>5. \A i \in 1..a : c[i] # Snap(x)
    BY InRange
  <2> HIDE DEF a, b, d
  <2>Low. \A i \in 1..(a + b) : i <= a => i \in 1..a /\ d[i] = c[i]
    <3>1. \A u, v \in Nat : \A i \in 1..(u + v) : i <= u => i \in 1..u
      BY SMT
    <3> QED BY <2>1, <3>1
  <2>High. \A i \in 1..(a + b) : ~ (i <= a) => i - a \in 1..b /\ d[i] = items[i - a]
    <3>1. \A u, v \in Nat : \A i \in 1..(u + v) : ~ (i <= u) => i - u \in 1..v
      BY SMT
    <3> QED BY <2>1, <3>1
  <2>6. Backed(d, n)
    <3> SUFFICES ASSUME NEW i \in 1..(a + b), d[i].kind = "snap"
                 PROVE  /\ d[i] = Snap(d[i].of)
                        /\ Objs(d[i].of) \in n
                        /\ \A p \in 1..(a + b) : d[p] = Objs(d[i].of) => p < i
      BY SMT, <2>1 DEF Backed
    <3>1. CASE i <= a
      <4>1. i \in 1..a /\ d[i] = c[i]
        BY <2>Low, <3>1
      <4>2. c[i] = Snap(c[i].of) /\ Objs(c[i].of) \in n
        BY <2>2, <4>1
      <4>3. ASSUME NEW p \in 1..(a + b), d[p] = Objs(c[i].of)
            PROVE  p < i
        <5>1. CASE p <= a
          <6>1. p \in 1..a /\ c[p] = Objs(c[i].of)
            BY <2>Low, <4>3, <5>1
          <6> QED BY <2>2, <4>1, <6>1
        <5>2. CASE ~ (p <= a)
          <6>1. p - a \in 1..b /\ d[p] = items[p - a]
            BY <2>High, <5>2
          <6>2. Objs(c[i].of) = Objs(x)
            <7>1. Objs(c[i].of).kind = "objs"
              BY ItemFields
            <7> QED BY SMT, <2>3, <4>3, <6>1, <7>1
          <6>3. Objs(c[i].of).of = c[i].of /\ Objs(x).of = x
            BY ItemFields
          <6>4. c[i].of = x
            BY SMT, <6>2, <6>3
          <6> QED BY Zenon, <2>5, <4>1, <4>2, <6>4
        <5> QED BY <5>1, <5>2
      <4> QED BY <4>1, <4>2, <4>3
    <3>2. CASE ~ (i <= a)
      <4>1. i - a \in 1..b /\ d[i] = items[i - a]
        BY <2>High, <3>2
      <4>2. d[i] = Snap(x) /\ d[i].of = x /\ Objs(x) \in n
        BY <2>3, <2>4, <4>1, ItemFields
      <4>3. ASSUME NEW p \in 1..(a + b), d[p] = Objs(x)
            PROVE  p < i
        <5>1. CASE p <= a
          BY SMTT(20), <2>1, <3>2, <5>1
        <5>2. CASE ~ (p <= a)
          <6>1. p - a \in 1..b /\ d[p] = items[p - a]
            BY <2>High, <5>2
          <6>2. p - a < i - a
            BY <2>3, <4>1, <4>3, <6>1
          <6> QED BY SMT, <2>1, <6>2
        <5> QED BY <5>1, <5>2
      <4> QED BY <4>2, <4>3
    <3> QED BY <3>1, <3>2
  <2> QED BY <2>6 DEF d
<1>CountedGrows. ASSUME NEW c \in Seq(Items), NEW o, NEW items \in Seq(Items), NEW n, Counted(c, o),
                        Joins(c, o, items, n)
                 PROVE  Counted(c \o items, n)
  <2> USE <1>CountedGrows
  <2> USE Zenon
  <2> DEFINE a == Len(c)
             b == Len(items)
             d == c \o items
  <2>1. /\ a \in Nat /\ b \in Nat /\ Len(d) = a + b
        /\ \A i \in 1..(a + b) : d[i] = IF i <= a THEN c[i] ELSE items[i - a]
    BY SMT, ConcatProperties
  <2>2. /\ \A i \in 1..a : i \in 1..Len(d) /\ d[i] = c[i]
        /\ \A j \in 1..b : /\ a + j \in 1..Len(d) /\ d[a + j] = items[j]
                           /\ \A i \in 1..a : i < a + j
                           /\ \A i \in 1..b : i < j => a + i < a + j
    <3> HIDE DEF a, b, d
    <3> QED BY SMT, <2>1
  <2> HIDE DEF d
  <2>3. Counted(d, n)
    <3> SUFFICES ASSUME NEW l \in n, l.kind = "link", l.of \in {"defend", "exec"}
                 PROVE  Above(l, d)
      BY DEF Counted
    <3>1. CASE Above(l, c)
      BY <2>2, <3>1 DEF Above
    <3>2. CASE Above(l, items)
      <4>1. PICK i \in 1..b, j \in 1..b : i < j /\ items[i] = Snap(l.of) /\ items[j] = l
        BY <3>2 DEF Above
      <4>2. /\ a + i \in 1..Len(d) /\ a + j \in 1..Len(d) /\ a + i < a + j
            /\ d[a + i] = Snap(l.of) /\ d[a + j] = l
        BY <2>2, <4>1
      <4> QED BY <4>2 DEF Above
    <3>3. CASE Snap(l.of) \in Range(c) /\ l \in Range(items)
      <4>1. PICK i \in 1..a : Snap(l.of) = c[i]
        BY <3>3, InRange
      <4>2. PICK j \in 1..b : l = items[j]
        BY <3>3, InRange
      <4>3. /\ i \in 1..Len(d) /\ a + j \in 1..Len(d) /\ i < a + j
            /\ d[i] = Snap(l.of) /\ d[a + j] = l
        BY <2>2, <4>1, <4>2
      <4> QED BY <4>3 DEF Above
    <3> QED BY <3>1, <3>2, <3>3 DEF Counted, Joins
  <2> QED BY <2>3 DEF d
\* Popping the last item, which closes what it names.
<1>BackedPops. ASSUME NEW c \in Seq(Items), c # << >>, NEW o, NEW n, Backed(c, o),
                      \A y \in o \ n : y.kind = "objs" => y = Last(c)
               PROVE  Backed(Front(c), n)
  <2> USE <1>BackedPops
  <2> USE Zenon
  <2> DEFINE a == Len(c)
             d == Front(c)
  <2>1. /\ a \in Nat \ {0} /\ Len(d) = a - 1
        /\ \A i \in 1..(a - 1) : d[i] = c[i]
        /\ Last(c) = c[a]
    BY SMT, FrontAt DEF Last
  <2>2. \A i \in 1..a : c[i].kind = "snap" =>
          /\ c[i] = Snap(c[i].of) /\ Objs(c[i].of) \in o
          /\ \A p \in 1..a : c[p] = Objs(c[i].of) => p < i
    BY DEF Backed
  <2> HIDE DEF a, d
  <2>3. Backed(d, n)
    <3> SUFFICES ASSUME NEW i \in 1..(a - 1), d[i].kind = "snap"
                 PROVE  /\ d[i] = Snap(d[i].of)
                        /\ Objs(d[i].of) \in n
                        /\ \A p \in 1..(a - 1) : d[p] = Objs(d[i].of) => p < i
      BY SMT, <2>1 DEF Backed
    <3>1. i \in 1..a /\ a \in 1..a /\ ~ (a < i) /\ \A p \in 1..(a - 1) : p \in 1..a
      BY SMT, <2>1
    <3>2. d[i] = c[i] /\ \A p \in 1..(a - 1) : d[p] = c[p]
      BY <2>1
    <3>3. /\ c[i] = Snap(c[i].of) /\ Objs(c[i].of) \in o
          /\ \A p \in 1..a : c[p] = Objs(c[i].of) => p < i
      BY <2>2, <3>1, <3>2
    <3>4. Objs(c[i].of) \in n
      BY <2>1, <3>1, <3>3, ItemFields
    <3> QED BY <3>1, <3>2, <3>3, <3>4
  <2> QED BY <2>3 DEF d
<1>CountedPops. ASSUME NEW c \in Seq(Items), c # << >>, NEW o, NEW n, Counted(c, o), n \subseteq o,
                       Last(c).kind = "link" => Last(c) \notin n
                PROVE  Counted(Front(c), n)
  <2> USE <1>CountedPops
  <2> DEFINE a == Len(c)
             d == Front(c)
  <2>1. /\ a \in Nat \ {0} /\ Len(d) = a - 1
        /\ \A i \in 1..(a - 1) : d[i] = c[i]
        /\ Last(c) = c[a]
    BY FrontAt DEF Last
  <2> SUFFICES ASSUME NEW l \in n, l.kind = "link", l.of \in {"defend", "exec"}
               PROVE  Above(l, d)
    BY Zenon DEF Counted
  <2>2. PICK i \in 1..a, j \in 1..a : i < j /\ c[i] = Snap(l.of) /\ c[j] = l
    BY Zenon DEF Counted, Above
  <2> HIDE DEF a, d
  <2>3. j # a
    BY Zenon, <2>1, <2>2
  <2>4. i \in 1..(a - 1) /\ j \in 1..(a - 1)
    BY <2>1, <2>2, <2>3
  <2>5. i \in 1..Len(d) /\ j \in 1..Len(d) /\ d[i] = c[i] /\ d[j] = c[j]
    BY <2>1, <2>4
  <2> QED BY Zenon, <2>2, <2>5 DEF Above
\* The snapshot of an open link's collection is on the stack.
<1>SnapOnStack. ASSUME NEW c \in Seq(Items), NEW o, Counted(c, o), NEW l \in o, l.kind = "link",
                       l.of \in {"defend", "exec"}
                PROVE  Snap(l.of) \in Range(c)
  <2> USE <1>SnapOnStack
  <2>1. PICK i \in 1..Len(c), j \in 1..Len(c) : i < j /\ c[i] = Snap(l.of) /\ c[j] = l
    BY Zenon DEF Counted, Above
  <2> QED BY Zenon, <2>1, InRange
\* A phase that pushes its items keeps the order.
<1>OrderedPush. ASSUME Ordered, Forward, lost' = lost, NEW items, NEW added, NEW rings,
                       Pushed(items, added, rings)
                PROVE  Ordered'
  <2> USE <1>OrderedPush
  <2> USE Zenon
  <2>0. /\ step \in DOMAIN Phase
        /\ step' \in DOMAIN Phase => Phase[step] < Phase[step']
        /\ step' = "lsm" => step = "defend"
        /\ step' = "cgroup" => step = "lsm"
    BY DEF Forward
  <2>a. /\ items \in Seq(Items) /\ cleanup' = cleanup \o items
        /\ open' = open \cup added \cup {Ring(r) : r \in rings}
        /\ \A x \in added : x \in Range(items)
        /\ Orderly(items, step)
        /\ Objs(step) \in added \/ Plain(items)
        /\ \A l \in added : (l.kind = "link" /\ l.of \in {"defend", "exec"}) =>
             (l.of = "defend" /\ step \in {"lsm", "cgroup"}) \/ Above(l, items)
        /\ step = "defend" => Snap("defend") \in Range(items)
    BY DEF Pushed
  <2>1. /\ cleanup \in Seq(Items) /\ Backed(cleanup, open) /\ Counted(cleanup, open)
        /\ \A x \in lost \cap {"defend", "exec"} : Snap(x) \in Range(cleanup)
        /\ \A x \in DOMAIN Phase : Snap(x) \in Range(cleanup) => Phase[x] < Phase[step]
        /\ step \in {"lsm", "cgroup"} => Snap("defend") \in Range(cleanup)
    BY <2>0 DEF Ordered
  <2>2. Snap(step) \notin Range(cleanup)
    BY SMTT(20), <2>0, <2>1, PhaseOrder
  <2>3. cleanup' \in Seq(Items) /\ Range(cleanup') = Range(cleanup) \cup Range(items)
    <3>1. cleanup' = cleanup \o items /\ cleanup \in Seq(Items) /\ items \in Seq(Items)
      BY <2>a, <2>1
    <3>2. cleanup \o items \in Seq(Items)
      BY <3>1, ConcatProperties
    <3>3. Range(cleanup \o items) = Range(cleanup) \cup Range(items)
      BY ZenonT(40), <3>1, RangeConcatenation
    <3> QED BY SMT, <3>1, <3>2, <3>3
  <2>4. Backed(cleanup, open)'
    <3>1. open \subseteq open' /\ (Objs(step) \in open' \/ Plain(items))
      BY <2>a
    <3>2. Backed(cleanup \o items, open')
      BY <2>a, <2>1, <2>2, <3>1, <1>BackedGrows
    <3> QED BY <2>a, <3>2 DEF Backed, Snap, Objs, Item
  <2>5. Counted(cleanup, open)'
    <3>1. ASSUME NEW l \in open' \ open, l.kind = "link", l.of \in {"defend", "exec"}
          PROVE  (Snap(l.of) \in Range(cleanup) /\ l \in Range(items)) \/ Above(l, items)
      <4>1. "link" # "ring" /\ \A r : Ring(r).kind = "ring"
        BY SMT DEF Ring, Item
      <4>2. l \in added
        BY <2>a, <3>1, <4>1
      <4> QED BY <2>a, <2>1, <3>1, <4>2
    <3>2. Joins(cleanup, open, items, open')
      BY <3>1 DEF Joins
    <3>3. Counted(cleanup \o items, open')
      BY <2>a, <2>1, <3>2, <1>CountedGrows
    <3>4. Counted(cleanup', open')
      BY Zenon, <2>a, <3>3
    <3> QED BY <3>4 DEF Counted, Above, Snap, Item
  <2>6. ASSUME NEW x \in DOMAIN Phase, Snap(x) \in Range(items)
        PROVE  x = step
    <3>1. PICK i \in 1..Len(items) : Snap(x) = items[i]
      BY <2>a, <2>6, InRange
    <3>2. Snap(x) = Snap(step)
      <4>1. Snap(x).kind = "snap"
        BY ItemFields
      <4>2. Orderly(items, step)
        BY <2>a
      <4>3. items[i].kind = "snap" => items[i] = Snap(step)
        BY <4>2 DEF Orderly
      <4> QED BY <3>1, <4>1, <4>3
    <3>3. Snap(x).of = x /\ Snap(step).of = step
      BY ItemFields
    <3> QED BY SMT, <3>2, <3>3
  <2>7. ASSUME step' \in DOMAIN Phase, NEW x \in DOMAIN Phase, Snap(x) \in Range(cleanup')
        PROVE  Phase[x] < Phase[step']
    <3>1. Phase[x] < Phase[step] \/ x = step
      BY <2>1, <2>3, <2>6, <2>7
    <3>2. Phase[step] < Phase[step'] /\ Phase[x] \in Nat /\ Phase[step] \in Nat
          /\ Phase[step'] \in Nat
      BY <2>0, <2>7, PhaseOrder
    <3> QED BY SMT, <3>1, <3>2
  <2>8. step' \in {"lsm", "cgroup"} => Snap("defend") \in Range(cleanup')
    BY <2>a, <2>0, <2>1, <2>3
  <2>9. /\ (step \in DOMAIN Phase =>
              \A x \in DOMAIN Phase : Snap(x) \in Range(cleanup) => Phase[x] < Phase[step])'
        /\ (\A x \in lost \cap {"defend", "exec"} : Snap(x) \in Range(cleanup))'
        /\ (step \in {"lsm", "cgroup"} => Snap("defend") \in Range(cleanup))'
    <3>1. Phase' = Phase
      BY DEF Phase
    <3>2. \A x : Snap(x)' = Snap(x)
      BY DEF Snap, Item
    <3> QED BY SMT, <2>1, <2>3, <2>7, <2>8, <3>1, <3>2
  <2> QED BY <2>3, <2>4, <2>5, <2>9 DEF Ordered
\* A step that leaves the stack alone and closes no collection keeps it too.
<1>OrderedKeep. ASSUME Ordered, cleanup' = cleanup, open' \subseteq open, lost' \subseteq lost,
                       \A y \in open : y.kind = "objs" => y \in open',
                       step' \in DOMAIN Phase => step \in DOMAIN Phase /\ Phase[step] <= Phase[step'],
                       step' \in {"lsm", "cgroup"} => step \in {"lsm", "cgroup"}
                PROVE  Ordered'
  <2> USE <1>OrderedKeep
  <2> USE Zenon
  <2>1. /\ cleanup \in Seq(Items) /\ Backed(cleanup, open) /\ Counted(cleanup, open)
        /\ \A x \in lost \cap {"defend", "exec"} : Snap(x) \in Range(cleanup)
        /\ step \in DOMAIN Phase =>
            \A x \in DOMAIN Phase : Snap(x) \in Range(cleanup) => Phase[x] < Phase[step]
        /\ step \in {"lsm", "cgroup"} => Snap("defend") \in Range(cleanup)
    BY DEF Ordered
  <2>2. Backed(cleanup, open')
    <3> SUFFICES ASSUME NEW i \in 1..Len(cleanup), cleanup[i].kind = "snap"
                 PROVE  Objs(cleanup[i].of) \in open'
      BY <2>1 DEF Backed
    <3>1. Objs(cleanup[i].of) \in open
      BY <2>1 DEF Backed
    <3>2. Objs(cleanup[i].of).kind = "objs"
      BY ItemFields
    <3> QED BY <3>1, <3>2
  <2>3. Counted(cleanup, open')
    BY <2>1 DEF Counted
  <2>4. Backed(cleanup, open)' /\ Counted(cleanup, open)'
    BY ZenonT(40), <2>2, <2>3 DEF Backed, Counted, Above, Snap, Objs, Item
  <2>5. ASSUME step' \in DOMAIN Phase, NEW x \in DOMAIN Phase, Snap(x) \in Range(cleanup)
        PROVE  Phase[x] < Phase[step']
    <3>1. Phase[x] < Phase[step]
      BY <2>1, <2>5
    <3>2. Phase[step] <= Phase[step'] /\ Phase[x] \in Nat /\ Phase[step] \in Nat
          /\ Phase[step'] \in Nat
      BY <2>5, PhaseOrder
    <3> QED BY SMT, <3>1, <3>2
  <2>6. /\ (step \in DOMAIN Phase =>
              \A x \in DOMAIN Phase : Snap(x) \in Range(cleanup) => Phase[x] < Phase[step])'
        /\ (\A x \in lost \cap {"defend", "exec"} : Snap(x) \in Range(cleanup))'
        /\ (step \in {"lsm", "cgroup"} => Snap("defend") \in Range(cleanup))'
    <3>1. Phase' = Phase
      BY DEF Phase
    <3>2. \A x : Snap(x)' = Snap(x)
      BY DEF Snap, Item
    <3> QED BY SMT, <2>1, <2>5, <3>1, <3>2
  <2> QED BY <2>1, <2>4, <2>6 DEF Ordered
\* Pushing one of Run's own functions.
<1>PushedFunc. ASSUME cleanup \in Seq(Items), NEW f \in Items, f.kind = "func",
                      cleanup' = Append(cleanup, f), open' = open, rd' = rd, step # "defend"
               PROVE  PhasePushes
  <2> USE <1>PushedFunc
  <2> DEFINE items == <<f>>
             none == {}
  <2>1. /\ items \in Seq(Items) /\ cleanup' = cleanup \o items
        /\ \A i \in 1..Len(items) : items[i] = f
    BY AppendIsConcat
  <2>2. /\ open' = open \cup none \cup {Ring(r) : r \in none} /\ rd' = rd \cup none
        /\ none \in SUBSET Rings /\ \A x \in none : FALSE
    OBVIOUS
  <2> HIDE DEF items, none
  <2>3. Plain(items)
    BY <2>1 DEF Plain
  <2>4. Orderly(items, step)
    BY Zenon, <2>1, <2>3, OrderlyPlain
  <2>5. Pushed(items, none, none)
    BY Zenon, <2>1, <2>2, <2>3, <2>4 DEF Pushed
  <2> QED BY Zenon, <2>5 DEF PhasePushes
<1>OrderedLoad. ASSUME Ordered, CompileAllowlist \/ LoadPhase \/ SpawnReaders
                PROVE  Ordered'
  <2> USE <1>OrderedLoad
  <2> USE Zenon
  <2>0. cleanup \in Seq(Items)
    BY DEF Ordered
  <2>1. Forward /\ lost' = lost
    <3>1. CASE CompileAllowlist
      <4>1. step = "compile" /\ step' \in {"defend", "unwind"} /\ lost' = lost
        BY <3>1 DEF CompileAllowlist, Proceed, Fatal, lossVars
      <4> QED BY SMT, <4>1, PhaseOrder DEF Forward, Loading
    <3>2. CASE LoadPhase
      BY <3>2, LoadAdvances DEF Advances
    <3>3. CASE SpawnReaders
      <4>1. step = "spawn" /\ step' = "readyDefend" /\ lost' = lost
        BY <3>3 DEF SpawnReaders, Proceed, lossVars
      <4> QED BY SMT, <4>1, PhaseOrder DEF Forward, Loading
    <3> QED BY <3>1, <3>2, <3>3
  <2>2. PhasePushes \/ (UNCHANGED resVars /\ step' # "lsm")
    <3>1. CASE CompileAllowlist
      <4>1. /\ step = "compile" /\ open' = open /\ rd' = rd /\ once' = once
            /\ \/ cleanup' = Append(cleanup, CloseAll)
               \/ cleanup' = cleanup /\ step' = "unwind"
        BY <3>1 DEF CompileAllowlist, Proceed, Fatal, CloseAll
      <4>2. CloseAll \in Items /\ CloseAll.kind = "func" /\ "compile" # "defend"
        BY SMT, ItemKinds DEF CloseAll, Names
      <4>3. CASE cleanup' = Append(cleanup, CloseAll)
        BY <2>0, <4>1, <4>2, <4>3, <1>PushedFunc
      <4>4. CASE cleanup' = cleanup /\ step' = "unwind"
        BY SMT, <4>1, <4>4 DEF resVars
      <4> QED BY <4>1, <4>3, <4>4
    <3>2. CASE LoadPhase
      BY <2>0, <3>2, LoadPushes
    <3>3. CASE SpawnReaders
      <4> DEFINE f == Func("runCancel")
      <4>1. step = "spawn" /\ cleanup' = Append(cleanup, f) /\ open' = open /\ rd' = rd
        BY <3>3 DEF SpawnReaders
      <4>2. f \in Items /\ f.kind = "func" /\ "spawn" # "defend"
        BY SMT, ItemKinds DEF Names
      <4> HIDE DEF f
      <4> QED BY <2>0, <4>1, <4>2, <1>PushedFunc
    <3> QED BY <3>1, <3>2, <3>3
  <2>3. CASE PhasePushes
    BY <2>1, <2>3, <1>OrderedPush DEF PhasePushes
  <2>4. CASE UNCHANGED resVars /\ step' # "lsm"
    <3>1. cleanup' = cleanup /\ open' = open
      BY <2>4 DEF resVars
    <3>2. /\ step' \in DOMAIN Phase => step \in DOMAIN Phase /\ Phase[step] <= Phase[step']
          /\ step' \in {"lsm", "cgroup"} => step \in {"lsm", "cgroup"}
      BY SMT, <2>1, <2>4, PhaseOrder DEF Forward
    <3> QED BY SMT, <2>1, <3>1, <3>2, <1>OrderedKeep
  <2> QED BY <2>2, <2>3, <2>4
<1>OrderedUnwind. ASSUME Ordered, Unwind
                  PROVE  Ordered'
  <2> USE <1>OrderedUnwind
  <2> USE Zenon
  <2> DEFINE item == Last(cleanup)
  <2>1. /\ step = "unwind" /\ cleanup # << >> /\ cleanup' = Front(cleanup)
        /\ step' \in {"unwind", "done"}
        /\ \/ item.kind = "ring" /\ CloseRings({item.id})
           \/ item = CloseAll /\ CloseRings(Rings)
           \/ item.kind \in {"objs", "link"} /\ open' = open \ {item}
           \/ item.kind = "snap" /\ open' = open
           \/ item.kind = "func" /\ open' = open
        /\ lost' = IF item.kind = "snap" THEN lost \ {item.of} ELSE lost
    BY DEF Unwind, CloseAll
  <2>2. /\ cleanup \in Seq(Items) /\ Backed(cleanup, open) /\ Counted(cleanup, open)
        /\ \A x \in lost \cap {"defend", "exec"} : Snap(x) \in Range(cleanup)
    BY DEF Ordered
  <2>3. cleanup' \in Seq(Items) /\ Range(cleanup) \subseteq Range(cleanup') \cup {item}
    BY <2>1, <2>2, RangeFront
  <2>4. /\ open' \subseteq open
        /\ \A y \in open \ open' : y.kind = "objs" => y = item
        /\ item.kind = "link" => item \notin open'
    <3>1. CloseAll.kind = "func" /\ \A i : Ring(i).kind = "ring"
      BY SMT DEF CloseAll, Func, Ring, Item
    <3> HIDE DEF item
    <3>2. CASE item.kind = "ring" /\ CloseRings({item.id})
      BY SMT, <3>1, <3>2 DEF CloseRings
    <3>3. CASE item = CloseAll /\ CloseRings(Rings)
      BY SMT, <3>1, <3>3 DEF CloseRings
    <3>4. CASE item.kind \in {"objs", "link"} /\ open' = open \ {item}
      BY SMT, <3>4
    <3>5. CASE item.kind \in {"snap", "func"} /\ open' = open
      BY SMT, <3>5
    <3> QED BY ZenonT(40), <2>1, <3>2, <3>3, <3>4, <3>5
  <2>5. Backed(cleanup', open')
    BY <2>1, <2>2, <2>4, <1>BackedPops
  <2>6. Counted(cleanup', open')
    BY <2>1, <2>2, <2>4, <1>CountedPops
  <2>7. Backed(cleanup, open)' /\ Counted(cleanup, open)'
    BY <2>5, <2>6 DEF Backed, Counted, Above, Snap, Objs, Item
  <2>8. ASSUME NEW x \in lost' \cap {"defend", "exec"}
        PROVE  Snap(x) \in Range(cleanup')
    <3>1. x \in lost /\ (item.kind = "snap" => x # item.of)
      BY SMT, <2>1
    <3>2. Snap(x) # item
      BY <3>1, ItemFields
    <3> QED BY <2>2, <2>3, <3>1, <3>2
  <2>9. (\A x \in lost \cap {"defend", "exec"} : Snap(x) \in Range(cleanup))'
    BY <2>8 DEF Snap, Item
  <2>10. step' \notin DOMAIN Phase /\ step' \notin {"lsm", "cgroup"} /\ Phase' = Phase
    BY <2>1, PhaseOrder DEF Phase
  <2> QED BY <2>3, <2>7, <2>9, <2>10 DEF Ordered
<1>OrderedLose. ASSUME Ordered, NEW y, LoseEvent(y)
                PROVE  Ordered'
  <2> USE <1>OrderedLose
  <2> USE Zenon
  <2>1. /\ step' = step /\ cleanup' = cleanup /\ open' = open /\ lost' = lost \cup {y}
        /\ \E l \in open : l.kind = "link" /\ l.of = y
    BY DEF LoseEvent, resVars
  <2>2. /\ cleanup \in Seq(Items) /\ Counted(cleanup, open)
        /\ \A x \in lost \cap {"defend", "exec"} : Snap(x) \in Range(cleanup)
    BY DEF Ordered
  <2> USE <2>1
  <2>3. \A x \in lost' \cap {"defend", "exec"} : Snap(x) \in Range(cleanup)
    BY <2>2, <1>SnapOnStack
  <2>4. (\A x \in lost \cap {"defend", "exec"} : Snap(x) \in Range(cleanup))'
    BY <2>3 DEF Snap, Item
  <2>5. Phase' = Phase /\ \A x : Snap(x)' = Snap(x)
    BY DEF Phase, Snap, Item
  <2>6. Backed(cleanup, open)' /\ Counted(cleanup, open)'
    <3>1. Backed(cleanup', open') /\ Counted(cleanup', open')
      BY DEF Ordered
    <3> QED BY <3>1 DEF Backed, Counted, Above, Snap, Objs, Item
  <2> QED BY <2>4, <2>5, <2>6 DEF Ordered
<1> SUFFICES ASSUME Ordered, [Next]_vars
             PROVE  Ordered'
  OBVIOUS
<1> USE Zenon
<1>1. CASE CompileAllowlist \/ LoadPhase \/ SpawnReaders
  BY <1>1, <1>OrderedLoad
<1>2. CASE Unwind
  BY <1>2, <1>OrderedUnwind
<1>3. CASE \E x \in Lossy : LoseEvent(x)
  BY <1>3, <1>OrderedLose
<1>4. CASE closeAllReaders
  <2>1. /\ step' = step /\ cleanup' = cleanup /\ lost' = lost /\ CloseRings(Rings)
        /\ step \in {"readyDefend", "wait"}
    BY <1>4 DEF closeAllReaders, lossVars
  <2>2. \A i : Ring(i).kind = "ring"
    BY SMT DEF Ring, Item
  <2>3. open' \subseteq open /\ \A y \in open : y.kind = "objs" => y \in open'
    BY ZenonT(40), <2>1, <2>2 DEF CloseRings
  <2>4. step' \notin DOMAIN Phase /\ step' \notin {"lsm", "cgroup"}
    BY SMT, <2>1, PhaseOrder
  <2> QED BY <2>1, <2>3, <2>4, <1>OrderedKeep
<1>5. CASE ReadyDefend \/ WaitReaders
  <2>1. step' \in {"wait", "unwind"} /\ cleanup' = cleanup /\ lost' = lost /\ open' = open
    BY <1>5 DEF ReadyDefend, WaitReaders, resVars, lossVars
  <2>2. step' \notin DOMAIN Phase /\ step' \notin {"lsm", "cgroup"}
    BY SMT, <2>1, PhaseOrder
  <2> QED BY <2>1, <2>2, <1>OrderedKeep
<1>6. CASE (\E g \in live : GoroutineEnds(g) \/ ReaderEndsEarly(g)) \/ Signal \/ UNCHANGED vars
  <2>1. step' = step /\ cleanup' = cleanup /\ lost' = lost /\ open' = open
    BY <1>6 DEF GoroutineEnds, ReaderEndsEarly, End, Signal, vars, resVars, lossVars
  <2>2. step' \in DOMAIN Phase => Phase[step] <= Phase[step']
    BY SMT, <2>1, PhaseOrder
  <2> QED BY <2>1, <2>2, <1>OrderedKeep
<1> QED BY <1>1, <1>2, <1>3, <1>4, <1>5, <1>6 DEF Next, Main, Terminated, LoadPhase

\* Whenever the unwinding of a run takes a snapshot of a collection's counters, the
\* collection is still open.
THEOREM SnapshotsOpen == Spec => []SnapshotsReadOpenMaps
<1>1. Ordered => SnapshotsReadOpenMaps
  <2> SUFFICES ASSUME Ordered, cleanup # << >>, Last(cleanup).kind = "snap"
               PROVE  Objs(Last(cleanup).of) \in open
    BY Zenon DEF SnapshotsReadOpenMaps
  <2>1. cleanup \in Seq(Items) /\ Backed(cleanup, open)
    BY Zenon DEF Ordered
  <2>2. Len(cleanup) \in 1..Len(cleanup)
    BY <2>1
  <2> QED BY Zenon, <2>1, <2>2 DEF Backed, Last
<1> QED BY <1>1, OrderedInit, OrderedStep, PTL DEF Spec

-----------------------------------------------------------------------------
(* The shutdown record.                                                    *)

Telemetry == Func("writeShutdownTelemetry")

\* A defend run that has come past the defend phase, or was ready, has loaded the
\* defend collection.
GuardKnown ==
  /\ (mode = "defend" /\ step \notin {"compile", "defend", "unwind", "done"}) => hasDefend
  /\ (mode = "defend" /\ status = "ok") => hasDefend

LEMMA GuardKnownStep ==
  ASSUME GuardKnown, [Next]_vars
  PROVE  GuardKnown'
<1> DEFINE Early == {"compile", "defend", "unwind", "done"}
           Quiet == mode' = mode /\ guard' = guard /\ status' = status
<1>1. CASE Quiet /\ (step' \in Early \/ step \notin Early)
  BY <1>1 DEF GuardKnown, hasDefend
<1>2. CASE CompileAllowlist
  <2>1. Quiet /\ step' \in {"defend", "unwind"}
    BY Zenon, <1>2 DEF CompileAllowlist, Proceed, Fatal, given, loadVars
  <2> QED BY <1>1, <2>1
<1>3. CASE SkipDefend
  <2>1. mode = "detect" /\ mode' = mode
    BY Zenon, <1>3 DEF SkipDefend, given
  <2> QED BY <2>1 DEF GuardKnown
<1>4. CASE LoadDefendObjects
  <2>1. \/ Quiet /\ step' = "unwind"
        \/ guard' = "loaded"
    BY Zenon, <1>4 DEF LoadDefendObjects, Fatal, given
  <2>2. CASE guard' = "loaded"
    BY <2>2 DEF GuardKnown, hasDefend
  <2> QED BY <1>1, <2>1, <2>2
<1>5. CASE SkipLSM \/ LoadDefendLSM \/ LoadExec
  <2>1. Quiet /\ step \in {"lsm", "exec"}
    BY Zenon, <1>5 DEF SkipLSM, LoadDefendLSM, LoadExec, given, loadVars
  <2> QED BY <1>1, <2>1
<1>6. CASE LoadDefendCgroup
  <2>1. /\ step = "cgroup" /\ mode' = mode /\ status' = status
        /\ guard' = guard \/ guard' = "attached"
    BY Zenon, <1>6 DEF LoadDefendCgroup, given
  <2>2. CASE guard' = "attached"
    BY <2>2 DEF GuardKnown, hasDefend
  <2> QED BY <1>1, <2>1, <2>2
<1>7. CASE ProbeAndArm
  <2>1. /\ step = "probe" /\ mode' = mode
        /\ \/ guard' = guard /\ status' = "failed"
           \/ guard' = "confirmed"
    BY Zenon, <1>7 DEF ProbeAndArm, given
  <2> QED BY <2>1 DEF GuardKnown, hasDefend
<1>8. CASE ArmSyscall
  <2>1. /\ step = "syscall" /\ mode' = mode /\ guard' = guard
        /\ status' = status \/ status' = "failed"
    BY Zenon, <1>8 DEF ArmSyscall, given, loadVars
  <2> QED BY <2>1 DEF GuardKnown, hasDefend
<1>9. CASE ReadyDetect \/ ReadyDefend
  <2>1. step \in {"ready", "readyDefend"} /\ mode' = mode /\ guard' = guard
    BY Zenon, <1>9 DEF ReadyDetect, ReadyDefend, given, loadVars
  <2>2. mode = "defend" => hasDefend
    BY <2>1 DEF GuardKnown
  <2> QED BY <2>1, <2>2 DEF GuardKnown, hasDefend
<1>10. CASE LoadDNS \/ LoadFork \/ LoadFS \/ LoadKTLS \/ LoadIPv6Obs \/ LoadBPFAudit
  <2>1. Quiet /\ step \in {"dns", "fork", "fs", "ktls", "ipv6Obs", "audit"}
    BY Zenon, <1>10 DEF LoadDNS, LoadFork, LoadFS, LoadKTLS, LoadIPv6Obs, LoadBPFAudit,
       LoadProbe, given, loadVars
  <2> QED BY <1>1, <2>1
<1>11. CASE SpawnReaders \/ WaitReaders
  <2>1. Quiet /\ step \in {"spawn", "wait"}
    BY Zenon, <1>11 DEF SpawnReaders, WaitReaders, given, loadVars
  <2> QED BY <1>1, <2>1
<1>12. CASE Unwind
  <2>1. Quiet /\ step' \in {"unwind", "done"}
    BY Zenon, <1>12 DEF Unwind, given, loadVars
  <2> QED BY <1>1, <2>1
<1>13. CASE step' = step /\ Quiet
  BY <1>1, <1>13
<1>14. CASE closeAllReaders \/ Signal \/ UNCHANGED vars
  <2>1. step' = step /\ Quiet
    BY Zenon, <1>14 DEF closeAllReaders, Signal, vars, given, loadVars
  <2> QED BY Zenon, <1>13, <2>1
<1>15. CASE \/ \E g \in live : GoroutineEnds(g) \/ ReaderEndsEarly(g)
            \/ \E x \in Lossy : LoseEvent(x)
  <2>1. step' = step /\ Quiet
    BY Zenon, <1>15 DEF GoroutineEnds, ReaderEndsEarly, End, LoseEvent, given, loadVars
  <2> QED BY Zenon, <1>13, <2>1
<1> QED BY Zenon, <1>2, <1>3, <1>4, <1>5, <1>6, <1>7, <1>8, <1>9, <1>10, <1>11, <1>12, <1>14,
           <1>15 DEF Next, Main, Terminated

\* The telemetry is written by the last item of the stack, from what is known then.
Bottom ==
  /\ cleanup \in Seq(Items)
  /\ step # "done" => cleanup # << >> /\ cleanup[1] = Telemetry
  /\ step = "done" =>
       coverage = IF mode = "defend" /\ hasDefend THEN "enforce" ELSE "off"

LEMMA BottomStep ==
  Bottom /\ [Next]_vars =>
    Bottom'
<1>BottomGrows. ASSUME NEW c \in Seq(Items), c # << >>, NEW items \in Seq(Items)
                PROVE  c \o items \in Seq(Items) /\ c \o items # << >> /\ (c \o items)[1] = c[1]
  <2> USE <1>BottomGrows
  <2>1. /\ c \o items \in Seq(Items) /\ Len(c \o items) = Len(c) + Len(items)
        /\ \A i \in 1..(Len(c) + Len(items)) :
             (c \o items)[i] = IF i <= Len(c) THEN c[i] ELSE items[i - Len(c)]
    BY Zenon, ConcatProperties
  <2>2. 1 \in 1..(Len(c) + Len(items)) /\ 1 <= Len(c) /\ Len(c) + Len(items) # 0
    OBVIOUS
  <2>3. (c \o items)[1] = c[1]
    BY Zenon, <2>1, <2>2
  <2>4. Len(<< >>) = 0
    OBVIOUS
  <2> QED BY Zenon, <2>1, <2>2, <2>3, <2>4
<1>BottomLoad. ASSUME Bottom, CompileAllowlist \/ LoadPhase \/ SpawnReaders
               PROVE  Bottom'
  <2> USE <1>BottomLoad
  <2> USE Zenon
  <2>1. step # "done" /\ step' # "done"
    <3>1. CASE CompileAllowlist
      BY SMT, <3>1 DEF CompileAllowlist, Proceed, Fatal
    <3>2. CASE LoadPhase
      <4>1. Advances
        BY <3>2, LoadAdvances
      <4> QED BY SMT, <4>1 DEF Advances, Loading
    <3>3. CASE SpawnReaders
      BY SMT, <3>3 DEF SpawnReaders, Proceed
    <3> QED BY <3>1, <3>2, <3>3
  <2>2. cleanup \in Seq(Items) /\ cleanup # << >> /\ cleanup[1] = Telemetry
    BY <2>1 DEF Bottom
  <2>3. cleanup' = cleanup \/ \E items \in Seq(Items) : cleanup' = cleanup \o items
    <3>1. CASE LoadPhase
      BY <2>2, <3>1, LoadPushes DEF PhasePushes, Pushed, resVars
    <3>2. CASE CompileAllowlist \/ SpawnReaders
      <4>1. /\ Func("closeAllReaders") \in Items /\ Func("runCancel") \in Items
        BY SMT, ItemKinds DEF Names
      <4>2. cleanup' = cleanup \/ \E f \in Items : cleanup' = Append(cleanup, f)
        BY <3>2, <4>1 DEF CompileAllowlist, SpawnReaders
      <4>3. ASSUME NEW f \in Items
            PROVE  <<f>> \in Seq(Items) /\ Append(cleanup, f) = cleanup \o <<f>>
        BY SMT, <2>2, AppendIsConcat
      <4> QED BY <4>2, <4>3
    <3> QED BY <3>1, <3>2
  <2>4. cleanup' \in Seq(Items) /\ cleanup' # << >> /\ cleanup'[1] = Telemetry
    <3>1. CASE cleanup' = cleanup
      BY <2>2, <3>1
    <3>2. ASSUME NEW items \in Seq(Items), cleanup' = cleanup \o items
          PROVE  cleanup' \in Seq(Items) /\ cleanup' # << >> /\ cleanup'[1] = Telemetry
      BY SMT, <2>2, <3>2, <1>BottomGrows
    <3> QED BY <2>3, <3>1, <3>2
  <2> QED BY <2>1, <2>4 DEF Bottom, Telemetry, Func, Item
<1>BottomUnwind. ASSUME Bottom, Unwind
                 PROVE  Bottom'
  <2> USE <1>BottomUnwind
  <2> USE Zenon
  <2>1. /\ step = "unwind" /\ cleanup # << >> /\ cleanup' = Front(cleanup)
        /\ step' = IF Len(cleanup) = 1 THEN "done" ELSE "unwind"
        /\ coverage' = IF Last(cleanup) # Telemetry THEN coverage
                       ELSE IF mode = "defend" /\ hasDefend THEN "enforce" ELSE "off"
        /\ mode' = mode /\ guard' = guard
    BY DEF Unwind, given, loadVars, Telemetry
  <2>2. step # "done" /\ cleanup \in Seq(Items) /\ cleanup[1] = Telemetry
    BY SMT, <2>1 DEF Bottom
  <2>3. /\ Len(cleanup) \in Nat \ {0} /\ cleanup' \in Seq(Items)
        /\ Len(cleanup') = Len(cleanup) - 1
        /\ \A i \in 1..(Len(cleanup) - 1) : cleanup'[i] = cleanup[i]
    BY <2>1, <2>2, FrontAt
  <2>4. CASE Len(cleanup) = 1
    <3>1. Last(cleanup) = Telemetry
      BY <2>2, <2>4 DEF Last
    <3> QED BY <2>1, <2>3, <2>4, <3>1 DEF Bottom, hasDefend
  <2>5. CASE Len(cleanup) # 1
    <3>1. 1 \in 1..(Len(cleanup) - 1) /\ Len(cleanup') # 0 /\ Len(<< >>) = 0
      BY SMT, <2>3, <2>5
    <3>2. cleanup' # << >> /\ cleanup'[1] = Telemetry /\ step' = "unwind"
      BY <2>1, <2>2, <2>3, <2>5, <3>1
    <3>3. step' # "done"
      BY SMT, <3>2
    <3> QED BY <2>3, <3>2, <3>3 DEF Bottom, Telemetry, Func, Item
  <2> QED BY <2>4, <2>5
<1> SUFFICES ASSUME Bottom, [Next]_vars
             PROVE  Bottom'
  OBVIOUS
<1> USE Zenon
<1>1. CASE CompileAllowlist \/ LoadPhase \/ SpawnReaders
  BY <1>1, <1>BottomLoad
<1>2. CASE Unwind
  BY <1>2, <1>BottomUnwind
<1>3. CASE ReadyDefend \/ WaitReaders
  <2>1. /\ step \in {"readyDefend", "wait"} /\ step' \in {"wait", "unwind"}
        /\ cleanup' = cleanup
    BY <1>3 DEF ReadyDefend, WaitReaders, resVars
  <2>2. step # "done" /\ step' # "done"
    BY SMT, <2>1
  <2> QED BY <2>1, <2>2 DEF Bottom, Telemetry, Func, Item
<1>4. CASE /\ step' = step /\ cleanup' = cleanup /\ coverage' = coverage /\ mode' = mode
           /\ guard' = guard
  BY <1>4 DEF Bottom, Telemetry, Func, Item, hasDefend
<1>5. CASE closeAllReaders \/ Signal \/ UNCHANGED vars
  BY <1>4, <1>5 DEF closeAllReaders, Signal, vars, given, loadVars, resVars, lossVars
<1>6. CASE \/ \E g \in live : GoroutineEnds(g) \/ ReaderEndsEarly(g)
           \/ \E x \in Lossy : LoseEvent(x)
  <2>1. /\ step' = step /\ cleanup' = cleanup /\ coverage' = coverage /\ mode' = mode
        /\ guard' = guard
    BY <1>6 DEF GoroutineEnds, ReaderEndsEarly, End, LoseEvent, given, loadVars, resVars,
       lossVars
  <2> QED BY <1>4, <2>1
<1> QED BY <1>1, <1>2, <1>3, <1>5, <1>6 DEF Next, Main, Terminated, LoadPhase

\* When Run has returned, no loss of the defend and exec collections is missing from
\* the record, and of a run that was ready it says rightly whether IPv6 is enforced.
THEOREM RecordIsHonest == Spec => []RecordHonest
<1>1. Held /\ Ordered /\ GuardKnown /\ Bottom => RecordHonest
  <2> SUFFICES ASSUME Held, Ordered, GuardKnown, Bottom, step = "done"
               PROVE  /\ lost \cap {"defend", "exec"} = {}
                      /\ status = "ok" => (coverage = "enforce" <=> mode = "defend")
    BY Zenon DEF RecordHonest
  <2>1. Range(cleanup) = {}
    BY DEF Held, Range
  <2>2. lost \cap {"defend", "exec"} = {}
    BY <2>1 DEF Ordered
  <2>3. status = "ok" => (coverage = "enforce" <=> mode = "defend")
    <3>1. coverage = IF mode = "defend" /\ hasDefend THEN "enforce" ELSE "off"
      BY Zenon DEF Bottom
    <3>2. (mode = "defend" /\ status = "ok") => hasDefend
      BY Zenon DEF GuardKnown
    <3> QED BY <3>1, <3>2
  <2> QED BY Zenon, <2>2, <2>3
<1>2. Init => GuardKnown /\ Bottom
  <2> SUFFICES ASSUME Init PROVE GuardKnown /\ Bottom
    OBVIOUS
  <2>1. step = "compile" /\ status = "absent" /\ cleanup = <<Telemetry>>
    BY Zenon DEF Init, Telemetry
  <2>2. Telemetry \in Items
    BY ItemKinds DEF Telemetry, Names
  <2> QED BY <2>1, <2>2 DEF GuardKnown, Bottom
<1> QED BY <1>1, <1>2, HeldInit, HeldStep, OrderedInit, OrderedStep, GuardKnownStep, BottomStep,
           PTL DEF Spec

-----------------------------------------------------------------------------
(* Readiness.                                                              *)

\* The phases after the last one whose failure makes Run return.
AfterReady ==
  {"dns", "fork", "fs", "ktls", "ipv6Obs", "audit", "spawn", "readyDefend", "wait",
   "unwind", "done"}

Ending == {"wait", "unwind", "done"}

\* FailedRunNotReady is not inductive: a fatal failure must come before the ready
\* status.  It does, since detect mode writes it after the last fatal phase and
\* defend mode only when it starts to wait.
ReadyLate ==
  /\ mode \in {"detect", "defend"}
  /\ step \notin Ending => result = "nil"
  /\ status = "ok" => step \in AfterReady /\ (mode = "defend" => step \in Ending)
  /\ result = "error" => status # "ok"

LEMMA ReadyLateInit == Init => ReadyLate
BY ZenonT(40) DEF Init, ReadyLate, AfterReady, Ending

LEMMA ReadyLateStep == ReadyLate /\ [Next]_vars => ReadyLate'
<1> SUFFICES ASSUME ReadyLate, [Next]_vars
             PROVE  ReadyLate'
    OBVIOUS
<1> USE DEF ReadyLate, AfterReady, Ending, given
<1>1. CASE CompileAllowlist
  BY <1>1 DEF CompileAllowlist, Fatal, Proceed
<1>2. CASE SkipDefend
  BY Zenon, <1>2 DEF SkipDefend, Proceed
<1>3. CASE LoadDefendObjects
  BY <1>3 DEF LoadDefendObjects, Fatal, Proceed
<1>4. CASE SkipLSM
  BY Zenon, <1>4 DEF SkipLSM, Proceed
<1>5. CASE LoadDefendLSM
  BY Zenon, <1>5 DEF LoadDefendLSM, Fatal, Proceed
<1>6. CASE LoadDefendCgroup
  BY Zenon, <1>6 DEF LoadDefendCgroup, Fatal, Proceed
<1>7. CASE ProbeAndArm
  BY <1>7 DEF ProbeAndArm, Fatal, Proceed
<1>8. CASE LoadExec
  BY Zenon, <1>8 DEF LoadExec, Fatal, Proceed
<1>9. CASE ArmSyscall
  BY <1>9 DEF ArmSyscall, Fatal, Proceed
<1>10. CASE ReadyDetect
  BY Zenon, <1>10 DEF ReadyDetect, Fatal, Proceed
<1>11. CASE LoadDNS \/ LoadFork \/ LoadFS \/ LoadKTLS \/ LoadBPFAudit
  BY Zenon, <1>11 DEF LoadDNS, LoadFork, LoadFS, LoadKTLS, LoadBPFAudit, LoadProbe, Proceed
<1>12. CASE LoadIPv6Obs
  BY <1>12 DEF LoadIPv6Obs, LoadProbe, Proceed
<1>13. CASE SpawnReaders
  BY <1>13 DEF SpawnReaders, Proceed
<1>14. CASE ReadyDefend
  BY <1>14 DEF ReadyDefend
<1>15. CASE WaitReaders
  BY Zenon, <1>15 DEF WaitReaders
<1>16. CASE Unwind
  BY <1>16 DEF Unwind
<1>17. CASE closeAllReaders
  BY Zenon, <1>17 DEF closeAllReaders
<1>18. CASE \E g \in live : GoroutineEnds(g) \/ ReaderEndsEarly(g)
  BY <1>18 DEF GoroutineEnds, ReaderEndsEarly, End
<1>19. CASE Signal
  BY Zenon, <1>19 DEF Signal
<1>20. CASE \E x \in Lossy : LoseEvent(x)
  BY Zenon, <1>20 DEF LoseEvent
<1>21. CASE Terminated \/ UNCHANGED vars
  BY <1>21 DEF Terminated, vars
<1> QED
  BY Zenon, <1>1, <1>2, <1>3, <1>4, <1>5, <1>6, <1>7, <1>8, <1>9, <1>10, <1>11, <1>12, <1>13, <1>14,
     <1>15, <1>16, <1>17, <1>18, <1>19, <1>20, <1>21 DEF Next, Main

\* A run that returns an error has not left a status file that says ok, whichever
\* load phase, probe or write of the status file failed.
THEOREM NotReadyOnFailure == Spec => []FailedRunNotReady
<1>1. ReadyLate => FailedRunNotReady
  BY DEF ReadyLate, FailedRunNotReady
<1> QED
  BY ReadyLateInit, ReadyLateStep, <1>1, PTL DEF Spec

-----------------------------------------------------------------------------
(* Self-defense.  Every defend link that is open has its id recorded, if    *)
(* ids can be had at all; the ids are handed over once, after the last      *)
(* phase that attaches a defend link.                                       *)

IsDefendLink(l) == l.kind = "link" /\ l.of = "defend"

Attaching == {"compile", "defend", "lsm", "cgroup", "probe"}

Armed ==
  /\ "linkInfo" \in Kernel => \A l \in open : IsDefendLink(l) => l \in linkIDs
  /\ "linkInfo" \notin Kernel => linkIDs = {}
  /\ protected # {} => protected = linkIDs /\ step \notin Attaching

LEMMA Kinds ==
  /\ \A o, i : Link(o, i).kind = "link" /\ Link(o, i).of = o
  /\ \A o : ~ IsDefendLink(Objs(o))
  /\ \A i : ~ IsDefendLink(Ring(i))
  /\ \A o, i : o # "defend" => ~ IsDefendLink(Link(o, i))
BY Zenon DEF Link, Objs, Ring, Item, IsDefendLink

LEMMA ArmedStep == Armed /\ [Next]_vars => Armed'
\* A step that opens no defend link and does not go back to the attaching phases.
<1>ArmedKept. ASSUME Armed, UNCHANGED <<machine, linkIDs, protected>>, NEW added,
                     \A l \in added : ~ IsDefendLink(l),
                     open' \subseteq open \cup added,
                     step' \in Attaching => step \in Attaching
              PROVE  Armed'
  <2> USE <1>ArmedKept
  <2>1. Kernel' = Kernel
    BY DEF Kernel
  <2> QED BY <2>1 DEF Armed
\* A phase that attaches defend links and records what ids it can.
<1>ArmedGrows. ASSUME Armed, UNCHANGED <<machine, protected>>, step \in Attaching, NEW links, NEW rings,
                      open' = open \cup Range(Pushes(links)) \cup {Ring(r) : r \in rings},
                      linkIDs' = linkIDs \cup IDs(links)
               PROVE  Armed'
  <2> USE <1>ArmedGrows
  <2>1. Kernel' = Kernel /\ protected = {} /\ protected' = {}
    BY DEF Kernel, Armed
  <2>2. CASE "linkInfo" \in Kernel
    <3> USE <2>2
    <3>1. linkIDs' = linkIDs \cup Range(Pushes(links))
      BY DEF IDs, When
    <3>2. \A l \in open' : IsDefendLink(l) => l \in linkIDs'
      BY <3>1, Kinds DEF Armed
    <3> QED BY <2>1, <3>2 DEF Armed
  <2>3. CASE "linkInfo" \notin Kernel
    BY <2>1, <2>3 DEF Armed, IDs, When
  <2> QED BY Zenon, <2>2, <2>3
<1>ArmedProbe. ASSUME Armed, NEW x, x # "defend", NEW links, NEW items, NEW next, next \notin Attaching,
                      LoadProbe(x, links, items, next)
               PROVE  Armed'
  <2> USE <1>ArmedProbe
  <2> DEFINE added == {Objs(x), Ring(x)} \cup {Link(x, l) : l \in links}
  <2>1. /\ UNCHANGED <<machine, linkIDs, protected>> /\ step' = next
        /\ open' \subseteq open \cup added
    BY DEF LoadProbe, Proceed, given, loadVars, When
  <2>2. \A l \in added : ~ IsDefendLink(l)
    BY Kinds
  <2> HIDE DEF added
  <2> QED BY Zenon, <2>1, <2>2, <1>ArmedKept
<1>ArmedExec. ASSUME Armed, LoadExec
              PROVE  Armed'
  <2> USE <1>ArmedExec
  <2> DEFINE added == {Objs("exec"), Link("exec", "execLink"), Ring("exec")}
  <2>1. UNCHANGED <<machine, linkIDs, protected>> /\ step' \in {"syscall", "unwind"}
    BY Zenon DEF LoadExec, Proceed, Fatal, given, loadVars
  <2>2. open' \subseteq open \cup added
    BY DEF LoadExec, When, Optional, Range
  <2>3. \A l \in added : ~ IsDefendLink(l)
    BY Kinds
  <2> HIDE DEF added
  <2> QED BY Zenon, <2>1, <2>2, <2>3, <1>ArmedKept DEF Attaching
<1>OptionalRange. ASSUME NEW ok, NEW a, NEW b, NEW x, NEW y
                  PROVE  Range(Optional(a \in ok, x) \o Optional(b \in ok, y)) \subseteq {x, y}
  <2> USE <1>OptionalRange
  <2> DEFINE S == {x, y}
             s == Optional(a \in ok, x)
             t == Optional(b \in ok, y)
  <2>1. x \in S /\ y \in S
    OBVIOUS
  <2> HIDE DEF S
  <2>2. s \in Seq(S)
    <3>1. CASE a \in ok
      BY <2>1, <3>1 DEF Optional
    <3>2. CASE ~ (a \in ok)
      BY <3>2 DEF Optional
    <3> QED BY <3>1, <3>2
  <2>3. t \in Seq(S)
    <3>1. CASE b \in ok
      BY <2>1, <3>1 DEF Optional
    <3>2. CASE ~ (b \in ok)
      BY <3>2 DEF Optional
    <3> QED BY <3>1, <3>2
  <2> HIDE DEF s, t
  <2>4. s \o t \in Seq(S)
    BY <2>2, <2>3
  <2>5. Range(s \o t) \subseteq S
    BY <2>4 DEF Range
  <2> QED BY <2>5 DEF s, t, S
<1>ArmedSyscall. ASSUME Armed, ArmSyscall
                 PROVE  Armed'
  <2> USE <1>ArmedSyscall
  <2> DEFINE L(id) == Link("syscall", id)
             parts == {"sysEnter", "kprobe", "kretprobe", "tcpState", "ioUring"}
             added == {Objs("syscall")} \cup {L(i) : i \in parts} \cup {Ring(r) : r \in Rings}
  <2>1. UNCHANGED <<machine, linkIDs, protected>> /\ step' \in {"ready", "unwind"}
    BY DEF ArmSyscall, Proceed, Fatal, given, loadVars
  <2>2. open' \subseteq open \cup added
    <3>1. CASE UNCHANGED open
      BY <3>1
    <3>2. CASE ~ UNCHANGED open
      <4>1. PICK ok \in SUBSET (SyscallParts \cap Kernel) :
           LET kprobes == Optional("kprobes" \in ok, L("kprobe"))
                            \o Optional("kprobes" \in ok, L("kretprobe"))
               later == Optional("tcpState" \in ok, L("tcpState"))
                          \o Optional("ioUring" \in ok, L("ioUring"))
               rings == {"conn", "udp", "http", "tls"} \cup (ok \cap {"tcpState", "ioUring"})
                          \cup When({"ioUring", "enhanced"} \subseteq ok, {"ioUringTLS"})
           IN  open' = open \cup {Objs("syscall"), L("sysEnter")} \cup Range(kprobes)
                         \cup Range(later) \cup {Ring(r) : r \in rings}
        BY Zenon, <3>2 DEF ArmSyscall
      <4> DEFINE kprobes == Optional("kprobes" \in ok, L("kprobe"))
                              \o Optional("kprobes" \in ok, L("kretprobe"))
                 later == Optional("tcpState" \in ok, L("tcpState"))
                            \o Optional("ioUring" \in ok, L("ioUring"))
                 rings == {"conn", "udp", "http", "tls"} \cup (ok \cap {"tcpState", "ioUring"})
                            \cup When({"ioUring", "enhanced"} \subseteq ok, {"ioUringTLS"})
      <4>2. open' = open \cup {Objs("syscall"), L("sysEnter")} \cup Range(kprobes)
                      \cup Range(later) \cup {Ring(r) : r \in rings}
        BY <4>1
      <4>3. /\ Range(kprobes) \subseteq {L("kprobe"), L("kretprobe")}
            /\ Range(later) \subseteq {L("tcpState"), L("ioUring")}
        BY <1>OptionalRange
      <4>4. rings \subseteq Rings
        BY DEF When, Rings
      <4> HIDE DEF kprobes, later, rings, L
      <4> QED BY ZenonT(40), <4>2, <4>3, <4>4
    <3> QED BY <3>1, <3>2
  <2>3. \A l \in added : ~ IsDefendLink(l)
    BY SMTT(20), Kinds
  <2> HIDE DEF added
  <2> QED BY Zenon, <2>1, <2>2, <2>3, <1>ArmedKept DEF Attaching
\* A step that opens nothing.
<1>ArmedShrinks. ASSUME Armed, UNCHANGED <<machine, linkIDs, protected>>, open' \subseteq open,
                        step' \in Attaching => step \in Attaching
                 PROVE  Armed'
  <2> USE <1>ArmedShrinks
  <2> DEFINE added == {}
  <2>1. open' \subseteq open \cup added /\ \A l \in added : ~ IsDefendLink(l)
    OBVIOUS
  <2> HIDE DEF added
  <2> QED BY <2>1, <1>ArmedKept
<1>ArmedLSM. ASSUME Armed, LoadDefendLSM
             PROVE  Armed'
  <2> USE <1>ArmedLSM
  <2>1. UNCHANGED <<machine, protected>> /\ step = "lsm"
    BY DEF LoadDefendLSM, given
  <2>2. CASE UNCHANGED <<open, linkIDs>>
    BY Zenon, <2>1, <2>2, <1>ArmedShrinks DEF Attaching
  <2>3. CASE ~ UNCHANGED <<open, linkIDs>>
    <3>1. \E links, rings :
            /\ open' = open \cup Range(Pushes(links)) \cup {Ring(r) : r \in rings}
            /\ linkIDs' = linkIDs \cup IDs(links)
      BY <2>3, ZenonT(30) DEF LoadDefendLSM
    <3> QED BY <2>1, <3>1, <1>ArmedGrows DEF Attaching
  <2> QED BY Zenon, <2>2, <2>3
<1>ArmedCgroup. ASSUME Armed, LoadDefendCgroup
                PROVE  Armed'
  <2> USE <1>ArmedCgroup
  <2>1. UNCHANGED <<machine, protected>> /\ step = "cgroup"
    BY DEF LoadDefendCgroup, given
  <2>2. CASE UNCHANGED <<open, linkIDs>>
    BY Zenon, <2>1, <2>2, <1>ArmedShrinks DEF Attaching
  <2>3. CASE ~ UNCHANGED <<open, linkIDs>>
    <3>1. \E links, rings :
            /\ open' = open \cup Range(Pushes(links)) \cup {Ring(r) : r \in rings}
            /\ linkIDs' = linkIDs \cup IDs(links)
      BY <2>3, Zenon DEF LoadDefendCgroup
    <3> QED BY <2>1, <3>1, <1>ArmedGrows DEF Attaching
  <2> QED BY <2>2, <2>3
<1>ArmedObjects. ASSUME Armed, LoadDefendObjects
                 PROVE  Armed'
  <2> USE <1>ArmedObjects
  <2> DEFINE added == {Objs("defend")}
  <2>1. UNCHANGED <<machine, linkIDs, protected>> /\ step = "defend"
    BY Zenon DEF LoadDefendObjects, given
  <2>2. open' \subseteq open \cup added
    BY DEF LoadDefendObjects
  <2>3. \A l \in added : ~ IsDefendLink(l)
    BY Kinds
  <2> HIDE DEF added
  <2> QED BY ZenonT(40), <2>1, <2>2, <2>3, <1>ArmedKept DEF Attaching
<1> SUFFICES ASSUME Armed, [Next]_vars
             PROVE  Armed'
    OBVIOUS
<1> USE DEF given, loadVars, resVars
<1>1. CASE CompileAllowlist
  BY Zenon, <1>1, <1>ArmedShrinks DEF CompileAllowlist, Attaching
<1>2. CASE SkipDefend \/ SkipLSM
  BY <1>2, <1>ArmedShrinks DEF SkipDefend, SkipLSM, Attaching
<1>3. CASE LoadDefendObjects
  BY <1>3, <1>ArmedObjects
<1>4. CASE LoadDefendLSM
  BY Zenon, <1>4, <1>ArmedLSM
<1>5. CASE LoadDefendCgroup
  BY <1>5, <1>ArmedCgroup
<1>6. CASE ProbeAndArm
  <2>1. UNCHANGED <<machine, open, linkIDs>> /\ step = "probe"
    BY <1>6 DEF ProbeAndArm
  <2>2. CASE UNCHANGED protected
    BY Zenon, <2>1, <2>2, <1>ArmedShrinks DEF Attaching
  <2>3. CASE ~ UNCHANGED protected
    <3>1. protected' \in {{}, linkIDs} /\ step' = "exec"
      BY <1>6, <2>3 DEF ProbeAndArm, Proceed, When
    <3>2. Kernel' = Kernel
      BY Zenon, <2>1 DEF Kernel
    <3> QED BY Zenon, <2>1, <3>1, <3>2 DEF Armed, Attaching
  <2> QED BY Zenon, <2>2, <2>3
<1>7. CASE LoadExec
  BY <1>7, <1>ArmedExec
<1>8. CASE ArmSyscall
  BY <1>8, <1>ArmedSyscall
<1>9. CASE ReadyDetect
  BY <1>9, <1>ArmedShrinks DEF ReadyDetect, Proceed, Fatal, Attaching
<1>10. CASE LoadDNS
  BY <1>10, <1>ArmedProbe DEF LoadDNS, Attaching
<1>11. CASE LoadFork
  BY <1>11, <1>ArmedProbe DEF LoadFork, Attaching
<1>12. CASE LoadFS
  BY <1>12, <1>ArmedProbe DEF LoadFS, Attaching
<1>13. CASE LoadKTLS
  BY <1>13, <1>ArmedProbe DEF LoadKTLS, Attaching
<1>14. CASE LoadIPv6Obs
  <2>1. CASE mode = "detect"
    BY SMTT(20), <1>14, <2>1, <1>ArmedProbe DEF LoadIPv6Obs, Attaching
  <2>2. CASE mode # "detect"
    BY <1>14, <2>2, <1>ArmedShrinks DEF LoadIPv6Obs, Proceed, Attaching
  <2> QED BY Zenon, <2>1, <2>2
<1>15. CASE LoadBPFAudit
  BY <1>15, <1>ArmedProbe DEF LoadBPFAudit, Attaching
<1>16. CASE SpawnReaders
  BY Zenon, <1>16, <1>ArmedShrinks DEF SpawnReaders, Proceed, Attaching
<1>17. CASE ReadyDefend \/ WaitReaders
  BY ZenonT(40), <1>17, <1>ArmedShrinks DEF ReadyDefend, WaitReaders, Attaching
<1>18. CASE Unwind
  BY Zenon, <1>18, <1>ArmedShrinks DEF Unwind, CloseRings, Attaching
<1>19. CASE closeAllReaders
  BY Zenon, <1>19, <1>ArmedShrinks DEF closeAllReaders, CloseRings, Attaching
<1>20. CASE \E g \in live : GoroutineEnds(g) \/ ReaderEndsEarly(g)
  BY Zenon, <1>20, <1>ArmedShrinks DEF GoroutineEnds, ReaderEndsEarly, End, Attaching
<1>21. CASE Signal \/ \E x \in Lossy : LoseEvent(x)
  BY Zenon, <1>21, <1>ArmedShrinks DEF Signal, LoseEvent, Attaching
<1>22. CASE Terminated \/ UNCHANGED vars
  BY <1>22, <1>ArmedShrinks DEF Terminated, vars, Attaching
<1> QED
  BY ZenonT(40), <1>1, <1>2, <1>3, <1>4, <1>5, <1>6, <1>7, <1>8, <1>9, <1>10, <1>11, <1>12, <1>13, <1>14,
     <1>15, <1>16, <1>17, <1>18, <1>19, <1>20, <1>21, <1>22 DEF Next, Main

\* Once finalizeBpfSelfDefense has armed self-defense, every open defend link is among
\* the protected ids: trackDefendLink recorded each one that attached before it.
THEOREM LinksCovered == Spec => []SelfDefenseCoversLinks
<1>1. Init => Armed
  BY DEF Init, Armed
<1>2. Armed => SelfDefenseCoversLinks
  <2> SUFFICES ASSUME Armed, protected # {}
               PROVE  {l \in open : l.kind = "link" /\ l.of = "defend"} \subseteq protected
      BY DEF SelfDefenseCoversLinks
  <2> QED BY DEF Armed, IsDefendLink
<1> QED
  BY <1>1, ArmedStep, <1>2, PTL DEF Spec

-----------------------------------------------------------------------------
(* What holds when the status file says ok.                                *)

Spawned == {"readyDefend", "wait"}
Probed == {"dns", "fork", "fs", "ktls", "ipv6Obs", "audit", "spawn"} \cup Spawned
WithSyscall == {"ready"} \cup Probed
WithExec == {"syscall"} \cup WithSyscall
Confirmed == {"exec"} \cup WithExec
WithHooks == {"probe"} \cup Confirmed

Hooks == {Link("defend", l) : l \in {"connect4", "sendmsg4", "connect6", "sendmsg6"}}

\* Each phase leaves behind what the later ones rely on; nothing is taken back before
\* the run unwinds, and no reader is closed before runCtx is done.
Guarded ==
  /\ step \in WithExec => Link("exec", "execLink") \in open
  /\ mode = "defend" =>
       /\ step \in WithHooks => Hooks \subseteq open /\ "deny" \in rd
       /\ step \in Confirmed => guard = "confirmed"
       /\ step \in WithSyscall => Link("syscall", "sysEnter") \in open
  /\ step \notin {"unwind", "done"} => once = {} \/ runCtxDone
  /\ step \in Spawned => rd \cap Rings \subseteq live \/ runCtxDone

LEMMA GuardedStep == Guarded /\ [Next]_vars => Guarded'
\* Before the run unwinds no link is closed, no reader is unset, and a done context
\* stays done.
<1>NothingTakenBack. ASSUME [Next]_vars, step \notin {"unwind", "done"}
                     PROVE  /\ \A l \in open : l.kind = "link" => l \in open'
                            /\ rd \subseteq rd'
                            /\ runCtxDone => runCtxDone'
                            /\ mode' = mode
  <2> USE <1>NothingTakenBack
  <2> USE Zenon
  <2> USE DEF resVars, ctxVars, given, runCtxDone
  <2>1. CASE CompileAllowlist \/ SkipDefend \/ LoadDefendObjects \/ SkipLSM
    <3>1. CASE CompileAllowlist
      BY <3>1 DEF CompileAllowlist
    <3>2. CASE LoadDefendObjects
      BY <3>2 DEF LoadDefendObjects
    <3>3. CASE SkipDefend \/ SkipLSM
      BY SMT, <3>3 DEF SkipDefend, SkipLSM
    <3> QED BY <2>1, <3>1, <3>2, <3>3
  <2>2. CASE LoadDefendLSM
    BY <2>2 DEF LoadDefendLSM
  <2>3. CASE LoadDefendCgroup
    BY <2>3 DEF LoadDefendCgroup
  <2>4. CASE ProbeAndArm \/ LoadExec
    <3>1. CASE ProbeAndArm
      BY <3>1 DEF ProbeAndArm
    <3>2. CASE LoadExec
      BY <3>2 DEF LoadExec
    <3> QED BY <2>4, <3>1, <3>2
  <2>5. CASE ArmSyscall
    BY Zenon, <2>5 DEF ArmSyscall
  <2>6. CASE LoadDNS \/ LoadFork \/ LoadFS \/ LoadKTLS \/ LoadBPFAudit \/ LoadIPv6Obs
    <3>1. CASE \E x, links, items, next : LoadProbe(x, links, items, next)
      BY SMTT(20), <3>1 DEF LoadProbe
    <3>2. CASE LoadIPv6Obs /\ mode = "defend"
      BY SMT, <3>2 DEF LoadIPv6Obs
    <3>3. LoadIPv6Obs => \/ \E x, links, items, next : LoadProbe(x, links, items, next)
                         \/ mode = "defend"
      BY DEF LoadIPv6Obs
    <3>4. LoadDNS \/ LoadFork \/ LoadFS \/ LoadKTLS \/ LoadBPFAudit
            => \E x, links, items, next : LoadProbe(x, links, items, next)
      BY DEF LoadDNS, LoadFork, LoadFS, LoadKTLS, LoadBPFAudit
    <3> QED BY Zenon, <2>6, <3>1, <3>2, <3>3, <3>4
  <2>7. CASE ReadyDetect \/ SpawnReaders \/ ReadyDefend \/ WaitReaders \/ Unwind
    <3>1. CASE ReadyDetect
      BY <3>1 DEF ReadyDetect
    <3>2. CASE SpawnReaders
      BY <3>2 DEF SpawnReaders
    <3>3. CASE ReadyDefend \/ WaitReaders
      BY SMT, <3>3 DEF ReadyDefend, WaitReaders
    <3>4. CASE Unwind
      BY <3>4 DEF Unwind
    <3> QED BY <2>7, <3>1, <3>2, <3>3, <3>4
  <2>8. CASE closeAllReaders
    <3>1. \A i : Ring(i).kind = "ring"
      BY DEF Ring, Item
    <3> QED BY <2>8, <3>1 DEF closeAllReaders, CloseRings
  <2>9. CASE \E g \in live : GoroutineEnds(g) \/ ReaderEndsEarly(g)
    BY SMTT(20), <2>9 DEF GoroutineEnds, ReaderEndsEarly, End
  <2>10. CASE Signal \/ \E x \in Lossy : LoseEvent(x)
    BY SMTT(20), <2>10 DEF Signal, LoseEvent
  <2>11. CASE Terminated \/ UNCHANGED vars
    BY SMTT(20), <2>11 DEF Terminated, vars
  <2> QED
    BY Zenon, <2>1, <2>2, <2>3, <2>4, <2>5, <2>6, <2>7, <2>8, <2>9, <2>10, <2>11 DEF Next, Main
<1>RangeKept. ASSUME NEW N, NEW s \in Seq(N), NEW t \in Seq(N)
              PROVE  /\ s \o t \in Seq(N)
                     /\ Range(s) \subseteq Range(s \o t)
                     /\ Range(t) \subseteq Range(s \o t)
  <2> USE <1>RangeKept
  <2> DEFINE u == s \o t
  <2>1. u \in Seq(N) /\ Len(u) = Len(s) + Len(t)
    OBVIOUS
  <2> USE <2>1
  <2>2. \A i \in 1..Len(s) : u[i] = s[i] /\ i \in 1..Len(u)
    OBVIOUS
  <2>3. \A i \in 1..Len(t) : u[Len(s) + i] = t[i] /\ Len(s) + i \in 1..Len(u)
    OBVIOUS
  <2> HIDE DEF u
  <2>4. DOMAIN u = 1..Len(u) /\ DOMAIN s = 1..Len(s) /\ DOMAIN t = 1..Len(t)
    OBVIOUS
  <2>5. Range(s) \subseteq Range(u)
    BY Zenon, <2>2, <2>4 DEF Range
  <2>6. Range(t) \subseteq Range(u)
    BY Zenon, <2>3, <2>4 DEF Range
  <2> QED BY <2>5, <2>6 DEF u
\* The four hooks are among the links of a cgroup, with the backstop or without.
<1>HooksAttached. ASSUME NEW backstop
                  PROVE  Hooks \subseteq Range(Pushes(CgroupLinks(backstop)))
  <2> USE <1>HooksAttached
  <2> DEFINE N == {"connect4", "sendmsg4", "tcx", "connect6", "sendmsg6"}
             v4 == <<"connect4", "sendmsg4">>
             tc == Optional(backstop, "tcx")
             v6 == <<"connect6", "sendmsg6">>
             links == CgroupLinks(backstop)
  <2>1. "tcx" \in N /\ v4 \in Seq(N) /\ v6 \in Seq(N)
    OBVIOUS
  <2>2. tc \in Seq(N)
    <3> HIDE DEF N
    <3>1. CASE backstop
      BY <2>1, <3>1 DEF Optional
    <3>2. CASE ~ backstop
      BY <3>2 DEF Optional
    <3> QED BY Zenon, <3>1, <3>2
  <2>3. {"connect4", "sendmsg4"} \subseteq Range(v4) /\ {"connect6", "sendmsg6"} \subseteq Range(v6)
    <3>1. /\ Len(v4) = 2 /\ v4[1] = "connect4" /\ v4[2] = "sendmsg4"
          /\ Len(v6) = 2 /\ v6[1] = "connect6" /\ v6[2] = "sendmsg6"
          /\ DOMAIN v4 = 1..2 /\ DOMAIN v6 = 1..2
      OBVIOUS
    <3> HIDE DEF v4, v6
    <3> QED BY <3>1 DEF Range
  <2>4. links = (v4 \o tc) \o v6
    BY DEF CgroupLinks
  <2> HIDE DEF v4, tc, v6, links, N
  <2>5. v4 \o tc \in Seq(N) /\ Range(v4) \subseteq Range(v4 \o tc)
    BY Zenon, <2>1, <2>2, <1>RangeKept
  <2>6. links \in Seq(N) /\ Range(v4 \o tc) \subseteq Range(links) /\ Range(v6) \subseteq Range(links)
    BY Zenon, <2>1, <2>4, <2>5, <1>RangeKept
  <2>7. \A l \in Range(links) : Link("defend", l) \in Range(Pushes(links))
    BY SMTT(20), <2>6 DEF Pushes, Range
  <2> QED BY <2>3, <2>5, <2>6, <2>7 DEF Hooks, links
\* A step keeps the invariant if it provides what the phase it enters relies on.
<1>GuardedKept. ASSUME Guarded, [Next]_vars, step \notin {"unwind", "done"},
                       step' \in WithExec => step \in WithExec \/ Link("exec", "execLink") \in open',
                       mode = "defend" /\ step' \in WithHooks =>
                         step \in WithHooks \/ (Hooks \subseteq open' /\ "deny" \in rd'),
                       mode = "defend" /\ step' \in Confirmed =>
                         guard' = "confirmed" \/ (step \in Confirmed /\ guard' = guard),
                       mode = "defend" /\ step' \in WithSyscall =>
                         step \in WithSyscall \/ Link("syscall", "sysEnter") \in open',
                       step' \notin {"unwind", "done"} => once' = once \/ runCtxDone,
                       step' \in Spawned =>
                         \/ step \in Spawned /\ live' = live /\ rd' = rd
                         \/ rd' \cap Rings \subseteq live'
                         \/ runCtxDone'
                PROVE  Guarded'
  <2> USE <1>GuardedKept
  <2> USE Zenon
  <2>1. \A o, i : Link(o, i).kind = "link"
    BY Kinds
  <2>2. \A l \in Hooks : l.kind = "link"
    BY <2>1 DEF Hooks
  <2>3. Hooks' = Hooks /\ Rings' = Rings
    BY DEF Hooks, Rings
  <2>4. mode' = mode /\ rd \subseteq rd' /\ (runCtxDone => runCtxDone')
        /\ \A l \in open : l.kind = "link" => l \in open'
    BY <1>NothingTakenBack
  <2> USE <2>4
  <2>5. step' \in WithExec => Link("exec", "execLink") \in open'
    BY <2>1 DEF Guarded
  <2>6. mode' = "defend" /\ step' \in WithHooks => Hooks \subseteq open' /\ "deny" \in rd'
    BY <2>2 DEF Guarded
  <2>7. mode' = "defend" /\ step' \in Confirmed => guard' = "confirmed"
    BY DEF Guarded
  <2>8. mode' = "defend" /\ step' \in WithSyscall => Link("syscall", "sysEnter") \in open'
    BY <2>1 DEF Guarded
  <2>9. step' \notin {"unwind", "done"} => once' = {} \/ runCtxDone'
    BY DEF Guarded
  <2>10. step' \in Spawned => rd' \cap Rings \subseteq live' \/ runCtxDone'
    BY DEF Guarded
  <2> QED BY Zenon, <2>3, <2>5, <2>6, <2>7, <2>8, <2>9, <2>10 DEF Guarded
\* The loading phases that provide nothing the status file speaks of.
<1>GuardedPlain. ASSUME Guarded, [Next]_vars, UNCHANGED once, step \notin {"unwind", "done"},
                        UNCHANGED guard \/ step' \notin Confirmed,
                        step' \notin Spawned \/ (step \in Spawned /\ UNCHANGED <<live, rd>>),
                        step' \in WithExec => step \in WithExec,
                        mode = "defend" => /\ step' \in WithHooks => step \in WithHooks
                                           /\ step' \in Confirmed => step \in Confirmed
                                           /\ step' \in WithSyscall => step \in WithSyscall
                 PROVE  Guarded'
  BY <1>GuardedPlain, <1>GuardedKept
<1>GuardedCgroup. ASSUME Guarded, [Next]_vars, LoadDefendCgroup
                  PROVE  Guarded'
  <2> USE <1>GuardedCgroup
  <2> USE Zenon
  <2>1. step = "cgroup" /\ once' = once /\ step' \in {"probe", "unwind"}
    BY DEF LoadDefendCgroup, Proceed, Fatal
  <2>2. CASE step' = "unwind"
    BY <2>1, <2>2 DEF Guarded, WithHooks, Confirmed, WithExec, WithSyscall, Probed, Spawned
  <2>3. CASE step' = "probe"
    <3>1. \E backstop : Range(Pushes(CgroupLinks(backstop))) \subseteq open' /\ "deny" \in rd'
      BY SMT, <2>3 DEF LoadDefendCgroup, Fatal
    <3>2. Hooks \subseteq open' /\ "deny" \in rd'
      BY <3>1, <1>HooksAttached
    <3> QED BY <2>1, <2>3, <3>2, <1>GuardedKept DEF Confirmed, WithExec, WithSyscall, Probed, Spawned
  <2> QED BY <2>1, <2>2, <2>3
<1>GuardedExec. ASSUME Guarded, [Next]_vars, LoadExec
                PROVE  Guarded'
  <2> USE <1>GuardedExec
  <2>1. /\ step = "exec" /\ UNCHANGED <<once, guard>> /\ step' \in {"syscall", "unwind"}
    BY Zenon DEF LoadExec, Proceed, Fatal, loadVars
  <2>2. CASE step' = "unwind"
    BY Zenon, <2>2, <1>GuardedPlain, <2>1 DEF WithHooks, Confirmed, WithExec, WithSyscall, Probed,
       Spawned
  <2>3. CASE step' = "syscall"
    <3>1. "execLink" \in Range(ExecParts)
      <4>1. DOMAIN ExecParts = 1..3 /\ ExecParts[2] = "execLink"
        BY SMTT(20) DEF ExecParts
      <4> QED BY <4>1 DEF Range
    <3>2. Range(Optional("execLink" \in Range(ExecParts), Link("exec", "execLink"))) \subseteq open'
      BY <2>3 DEF LoadExec, Fatal
    <3>3. Optional("execLink" \in Range(ExecParts), Link("exec", "execLink"))
            = <<Link("exec", "execLink")>>
      BY <3>1 DEF Optional
    <3>4. \A x : x \in Range(<<x>>)
      BY DEF Range
    <3>5. Link("exec", "execLink") \in open'
      BY Zenon, <3>2, <3>3, <3>4
    <3> QED BY Zenon, <2>1, <2>3, <3>5, <1>GuardedKept DEF WithHooks, Confirmed, WithExec,
               WithSyscall, Probed, Spawned
  <2> QED BY Zenon, <2>1, <2>2, <2>3
<1>GuardedSyscall. ASSUME Guarded, [Next]_vars, ArmSyscall
                   PROVE  Guarded'
  <2> USE <1>GuardedSyscall
  <2> USE Zenon
  <2>1. /\ step = "syscall" /\ UNCHANGED <<once, guard>> /\ step' \in {"ready", "unwind"}
    BY DEF ArmSyscall, Proceed, Fatal, loadVars
  <2>2. CASE step' = "unwind"
    BY <2>2, <1>GuardedPlain, <2>1 DEF WithHooks, Confirmed, WithExec, WithSyscall, Probed, Spawned
  <2>3. CASE step' = "ready"
    <3>1. mode = "defend" => Link("syscall", "sysEnter") \in open'
      BY <2>3 DEF ArmSyscall, Fatal
    <3> QED BY <2>1, <2>3, <3>1, <1>GuardedKept DEF WithHooks, Confirmed, WithExec, WithSyscall,
               Probed, Spawned
  <2> QED BY <2>1, <2>2, <2>3
\* A reader ends when its ring was closed, or on an error once runCtx is done; either
\* way runCtx is done.
<1>GuardedEnd. ASSUME Guarded, [Next]_vars, NEW g \in live, GoroutineEnds(g) \/ ReaderEndsEarly(g)
               PROVE  Guarded'
  <2> USE <1>GuardedEnd
  <2>1. UNCHANGED <<step, once, guard, rd, mode, open, signalled, runCancelled>>
        /\ live' = live \ {g}
    BY DEF GoroutineEnds, ReaderEndsEarly, End, resVars, loadVars, ctxVars, given
  <2>2. runCtxDone \/ g \in once
    BY Zenon DEF GoroutineEnds, ReaderEndsEarly
  <2>3. CASE step \in {"unwind", "done"}
    BY Zenon, <2>1, <2>3 DEF Guarded, WithHooks, Confirmed, WithExec, WithSyscall, Probed, Spawned
  <2>4. CASE step \notin {"unwind", "done"}
    <3>1. runCtxDone /\ runCtxDone'
      BY Zenon, <2>1, <2>2, <2>4 DEF Guarded, runCtxDone
    <3> QED BY <2>1, <2>4, <3>1, <1>GuardedKept
  <2> QED BY Zenon, <2>3, <2>4
<1> USE Zenon
<1> SUFFICES ASSUME Guarded, [Next]_vars
             PROVE  Guarded'
    BY SMT
<1> USE DEF WithHooks, Confirmed, WithExec, WithSyscall, Probed, Spawned,
            given, loadVars, resVars, goVars, ctxVars
<1>1. CASE CompileAllowlist
  BY <1>1, <1>GuardedPlain DEF CompileAllowlist, Proceed, Fatal
<1>2. CASE SkipDefend
  BY <1>2, <1>GuardedPlain DEF SkipDefend, Proceed
<1>3. CASE LoadDefendObjects
  BY <1>3, <1>GuardedPlain DEF LoadDefendObjects, Proceed, Fatal
<1>4. CASE SkipLSM
  BY <1>4, <1>GuardedPlain DEF SkipLSM, Proceed
<1>5. CASE LoadDefendLSM
  BY <1>5, <1>GuardedPlain DEF LoadDefendLSM, Proceed, Fatal
<1>6. CASE LoadDefendCgroup
  BY <1>6, <1>GuardedCgroup
<1>7. CASE ProbeAndArm
  <2>1. /\ step = "probe" /\ UNCHANGED once /\ step' \in {"exec", "unwind"}
        /\ step' = "exec" => guard' = "confirmed"
    BY <1>7 DEF ProbeAndArm, Proceed, Fatal
  <2> QED BY <2>1, <1>GuardedKept
<1>8. CASE LoadExec
  BY SMT, <1>8, <1>GuardedExec
<1>9. CASE ArmSyscall
  BY SMT, <1>9, <1>GuardedSyscall
<1>10. CASE ReadyDetect
  BY <1>10, <1>GuardedPlain DEF ReadyDetect, Proceed, Fatal
<1>11. CASE LoadDNS \/ LoadFork \/ LoadFS \/ LoadKTLS \/ LoadBPFAudit \/ LoadIPv6Obs
  <2>1. /\ UNCHANGED <<once, guard>>
        /\ step \in {"dns", "fork", "fs", "ktls", "ipv6Obs", "audit"}
        /\ step' \in {"fork", "fs", "ktls", "ipv6Obs", "audit", "spawn"}
    BY <1>11 DEF LoadDNS, LoadFork, LoadFS, LoadKTLS, LoadBPFAudit, LoadIPv6Obs, LoadProbe,
       Proceed
  <2> QED BY <2>1, <1>GuardedPlain
<1>12. CASE SpawnReaders
  <2>1. /\ step = "spawn" /\ step' = "readyDefend" /\ UNCHANGED <<once, guard>>
        /\ rd' \subseteq live'
    BY <1>12 DEF SpawnReaders, Proceed
  <2> QED BY <2>1, <1>GuardedKept
<1>13. CASE ReadyDefend
  BY <1>13, <1>GuardedPlain DEF ReadyDefend
<1>14. CASE WaitReaders
  BY <1>14, <1>GuardedPlain DEF WaitReaders
<1>15. CASE Unwind \/ Terminated
  <2>1. step' \in {"unwind", "done"}
    BY <1>15 DEF Unwind, Terminated, vars
  <2> QED BY <2>1 DEF Guarded
<1>16. CASE closeAllReaders
  BY <1>16, <1>GuardedKept DEF closeAllReaders
<1>17. CASE \E g \in live : GoroutineEnds(g) \/ ReaderEndsEarly(g)
  BY <1>17, <1>GuardedEnd
<1>18. CASE Signal \/ (\E x \in Lossy : LoseEvent(x)) \/ UNCHANGED vars
  <2>1. UNCHANGED <<step, once, guard, live, rd>>
    BY <1>18 DEF Signal, LoseEvent, vars
  <2>2. CASE step \in {"unwind", "done"}
    BY SMT, <2>1, <2>2 DEF Guarded
  <2> QED BY <2>1, <2>2, <1>GuardedPlain
<1> QED
  BY Zenon, <1>1, <1>2, <1>3, <1>4, <1>5, <1>6, <1>7, <1>8, <1>9, <1>10, <1>11, <1>12, <1>13,
     <1>14, <1>15, <1>16, <1>17, <1>18 DEF Next, Main

\* While the status file says ok and the run is not unwinding, the probes it stands for
\* are attached, enforcement was confirmed, and the deny reader runs unless the run is
\* being cancelled.
THEOREM ReadyIsGuarded == Spec => []ReadyMeansGuarded
<1>1. Init => Guarded
  BY Zenon DEF Init, Guarded, WithHooks, Confirmed, WithExec, WithSyscall, Probed, Spawned
<1>2. Guarded /\ ReadyLate => ReadyMeansGuarded
  <2> SUFFICES ASSUME Guarded, ReadyLate, status = "ok", step \notin {"unwind", "done"}
               PROVE  /\ Link("exec", "execLink") \in open
                      /\ mode = "defend" =>
                           /\ guard = "confirmed"
                           /\ Hooks \subseteq open
                           /\ Link("syscall", "sysEnter") \in open
                           /\ runCtxDone \/ "deny" \in live
      BY DEF ReadyMeansGuarded, Hooks
  <2>1. step \in Probed /\ (mode = "defend" => step \in Spawned)
    BY DEF ReadyLate, AfterReady, Ending, Probed, Spawned
  <2>2. "deny" \in Rings
    BY ZenonT(40) DEF Rings
  <2> QED BY Zenon, <2>1, <2>2 DEF Guarded, WithHooks, Confirmed, WithExec, WithSyscall
<1> QED
  BY ReadyLateInit, ReadyLateStep, <1>1, GuardedStep, <1>2, PTL DEF Spec

-----------------------------------------------------------------------------
(* The error channel.  Its capacity is a hand-counted sum; the goroutines   *)
(* that send to it are one per ring reader and one per integrity watcher.   *)

HasRoom ==
  /\ IsFiniteSet(live \cap Senders)
  /\ errCh \in Nat
  /\ errCap \in Nat
  /\ errCh + Cardinality(live \cap Senders) <= errCap

Room ==
  /\ rd \subseteq Rings
  /\ step \notin Spawned \cup {"unwind", "done"} => errCh = 0 /\ live = {}
  /\ step \in Spawned => HasRoom

\* Only the names of rings are ever assigned.
LEMMA ReadersStep ==
  ASSUME rd \subseteq Rings, [Next]_vars
  PROVE  rd' \subseteq Rings
<1> USE Zenon
<1> USE DEF resVars, Rings
<1>1. CASE UNCHANGED rd
  BY <1>1
<1>2. CASE LoadDefendLSM \/ LoadDefendCgroup
  BY <1>2 DEF LoadDefendLSM, LoadDefendCgroup, When
<1>3. CASE LoadExec
  BY SMT, <1>3 DEF LoadExec, When
<1>4. CASE ArmSyscall
  BY <1>4 DEF ArmSyscall, When
<1>5. CASE LoadDNS \/ LoadFork \/ LoadFS \/ LoadKTLS \/ LoadBPFAudit
  BY <1>5 DEF LoadDNS, LoadFork, LoadFS, LoadKTLS, LoadBPFAudit, LoadProbe
<1>6. CASE LoadIPv6Obs
  BY <1>6 DEF LoadIPv6Obs, LoadProbe
<1>7. CASE CompileAllowlist \/ SkipDefend \/ LoadDefendObjects \/ SkipLSM \/ ProbeAndArm
             \/ ReadyDetect \/ SpawnReaders \/ ReadyDefend \/ WaitReaders \/ Unwind
  BY <1>7, <1>1 DEF CompileAllowlist, SkipDefend, LoadDefendObjects, SkipLSM, ProbeAndArm,
     ReadyDetect, SpawnReaders, ReadyDefend, WaitReaders, Unwind
<1>8. CASE closeAllReaders \/ Signal \/ Terminated \/ UNCHANGED vars
             \/ (\E g \in live : GoroutineEnds(g) \/ ReaderEndsEarly(g))
             \/ (\E x \in Lossy : LoseEvent(x))
  BY <1>8, <1>1 DEF closeAllReaders, Signal, Terminated, vars, GoroutineEnds, ReaderEndsEarly,
     End, LoseEvent
<1> QED
  BY SMT, <1>2, <1>3, <1>4, <1>5, <1>6, <1>7, <1>8 DEF Next, Main

\* The library's facts about finite sets, for the operators of this module.
Fin == INSTANCE FiniteSetTheorems

\* The library speaks of the same finite sets and cardinalities.
LEMMA SameCardinality ==
  ASSUME NEW S
  PROVE  /\ Fin!IsFiniteSet(S) <=> IsFiniteSet(S)
         /\ Fin!Cardinality(S) = Cardinality(S)
BY Zenon DEF IsFiniteSet, Fin!IsFiniteSet, Cardinality, Fin!Cardinality

\* A cardinality is a number, and zero only for the empty set.
LEMMA CardinalityType ==
  ASSUME NEW S, IsFiniteSet(S)
  PROVE  Cardinality(S) \in Nat /\ (Cardinality(S) = 0 <=> S = {})
BY Zenon, SameCardinality, Fin!FS_CardinalityType, Fin!FS_EmptySet

\* The empty set is finite and has no elements.
LEMMA CardinalityEmpty == IsFiniteSet({}) /\ Cardinality({}) = 0
BY Zenon, SameCardinality, Fin!FS_EmptySet

\* One more element.
LEMMA CardinalityAdd ==
  ASSUME NEW S, NEW x, IsFiniteSet(S)
  PROVE  /\ IsFiniteSet(S \cup {x})
         /\ Cardinality(S \cup {x}) =
              IF x \in S THEN Cardinality(S) ELSE Cardinality(S) + 1
BY Zenon, SameCardinality, Fin!FS_AddElement

\* One element less.
LEMMA CardinalityRemove ==
  ASSUME NEW S, NEW x, IsFiniteSet(S)
  PROVE  /\ IsFiniteSet(S \ {x})
         /\ Cardinality(S \ {x}) =
              IF x \in S THEN Cardinality(S) - 1 ELSE Cardinality(S)
BY Zenon, SameCardinality, Fin!FS_RemoveElement

\* A subset of a finite set is finite and no larger.
LEMMA CardinalitySubset ==
  ASSUME NEW S, IsFiniteSet(S), NEW T \in SUBSET S
  PROVE  IsFiniteSet(T) /\ Cardinality(T) <= Cardinality(S)
BY Zenon, SameCardinality, Fin!FS_Subset

\* The union of two finite sets.
LEMMA FiniteUnion ==
  ASSUME NEW S, NEW T, IsFiniteSet(S), IsFiniteSet(T)
  PROVE  IsFiniteSet(S \cup T)
BY Zenon, SameCardinality, Fin!FS_Union

LEMMA RingsFinite == IsFiniteSet(Rings)
<1>1. \A a, b, c : IsFiniteSet({a, b, c})
  <2> TAKE a, b, c
  <2>1. IsFiniteSet(({} \cup {a}) \cup {b})
    BY Zenon, CardinalityEmpty, CardinalityAdd
  <2>2. IsFiniteSet((({} \cup {a}) \cup {b}) \cup {c})
    BY Zenon, <2>1, CardinalityAdd
  <2>3. (({} \cup {a}) \cup {b}) \cup {c} = {a, b, c}
    OBVIOUS
  <2> QED BY ZenonT(40), <2>2, <2>3
<1>2. \A S, T : IsFiniteSet(S) /\ IsFiniteSet(T) => IsFiniteSet(S \cup T)
  BY Zenon, FiniteUnion
<1> DEFINE A == {"exec", "conn", "udp"} \cup {"http", "tls", "tcpState"}
           B == {"ioUring", "ioUringTLS", "deny"} \cup {"lsmDeny", "backstop", "selfDefense"}
           C == {"dns", "audit", "fork"} \cup {"fs", "ktls", "ipv6Obs"}
<1>3. IsFiniteSet(A) /\ IsFiniteSet(B) /\ IsFiniteSet(C)
  BY Zenon, <1>1, <1>2
<1>4. Rings = A \cup (B \cup C)
  BY Zenon DEF Rings
<1> HIDE DEF A, B, C
<1> QED BY Zenon, <1>2, <1>3, <1>4

LEMMA OneMore ==
  ASSUME NEW S, IsFiniteSet(S), NEW x, NEW cond
  PROVE  /\ IsFiniteSet(S \cup When(cond, {x}))
         /\ Cardinality(S \cup When(cond, {x})) \in Nat
         /\ Cardinality(S \cup When(cond, {x})) <= Cardinality(S) + Flag(cond)
<1>1. Cardinality(S) \in Nat
  BY Zenon, CardinalityType
<1>2. CASE cond
  <2>1. When(cond, {x}) = {x} /\ Flag(cond) = 1
    BY <1>2 DEF When, Flag
  <2>2. /\ IsFiniteSet(S \cup {x})
        /\ Cardinality(S \cup {x}) = IF x \in S THEN Cardinality(S) ELSE Cardinality(S) + 1
    BY CardinalityAdd, Zenon
  <2>3. Cardinality(S \cup {x}) \in Nat /\ Cardinality(S \cup {x}) <= Cardinality(S) + 1
    BY <1>1, <2>2
  <2> QED BY ZenonT(40), <2>1, <2>2, <2>3
<1>3. CASE ~ cond
  <2>1. S \cup When(cond, {x}) = S /\ Flag(cond) = 0
    BY <1>3 DEF When, Flag
  <2>2. Cardinality(S) <= Cardinality(S) + 0
    BY SMTT(20), <1>1
  <2> QED BY <1>1, <2>1, <2>2, Zenon
<1> QED BY Zenon, <1>2, <1>3

LEMMA RoomAtSpawn ==
  ASSUME Room, SpawnReaders
  PROVE  HasRoom'
<1> DEFINE W == When(hasDefend, {"watchCgroup"})
           V == When(hasLSM, {"watchLSM"})
<1>1. /\ rd \subseteq Rings /\ errCh' = 0
      /\ errCap' = 1 + Cardinality(rd \ {"exec"}) + Flag(hasDefend) + Flag(hasLSM)
      /\ live' = rd \cup (W \cup V) \cup Monitors
  BY DEF Room, SpawnReaders, Spawned, countReaders, Watchers
<1>2. live' \cap Senders = (rd \cup W) \cup V
  <2>1. Monitors \cap Senders = {} /\ Rings \subseteq Senders
    <3>1. \A x \in Monitors : x \in {"canary", "heartbeat", "drift"}
      BY DEF Monitors, When
    <3>2. \A x \in {"canary", "heartbeat", "drift"} : x \notin Senders
      BY DEF Senders, Rings
    <3> QED BY Zenon, <3>1, <3>2 DEF Senders
  <2>2. W \subseteq Senders /\ V \subseteq Senders
    BY Zenon DEF When, Senders
  <2> HIDE DEF W, V
  <2> QED BY Zenon, <1>1, <2>1, <2>2
<1>3. IsFiniteSet(rd) /\ IsFiniteSet(rd \ {"exec"})
  BY Zenon, <1>1, RingsFinite, CardinalitySubset, CardinalityRemove
<1>4. Cardinality(rd) \in Nat /\ Cardinality(rd \ {"exec"}) \in Nat
  BY Zenon, <1>3, CardinalityType
<1>5. Cardinality(rd) <= Cardinality(rd \ {"exec"}) + 1
  BY SMTT(20), <1>3, <1>4, CardinalityRemove
<1>6. /\ IsFiniteSet(rd \cup W) /\ Cardinality(rd \cup W) \in Nat
      /\ Cardinality(rd \cup W) <= Cardinality(rd) + Flag(hasDefend)
  BY Zenon, <1>3, OneMore
<1> HIDE DEF W
<1>7. /\ IsFiniteSet((rd \cup W) \cup V) /\ Cardinality((rd \cup W) \cup V) \in Nat
      /\ Cardinality((rd \cup W) \cup V) <= Cardinality(rd \cup W) + Flag(hasLSM)
  BY Zenon, <1>6, OneMore
<1>8. Flag(hasDefend) \in Nat /\ Flag(hasLSM) \in Nat
  BY DEF Flag
<1> HIDE DEF W, V
<1>9. Senders' = Senders
  BY DEF Senders, Rings
<1>10. (live \cap Senders)' = (rd \cup W) \cup V
  BY Zenon, <1>2, <1>9
<1>11. errCap' \in Nat /\ 0 + Cardinality((rd \cup W) \cup V) <= errCap'
  <2> DEFINE n == Cardinality((rd \cup W) \cup V)
             k == Cardinality(rd \cup W)
             m == Cardinality(rd)
             r == Cardinality(rd \ {"exec"})
             d == Flag(hasDefend)
             e == Flag(hasLSM)
  <2>1. /\ n \in Nat /\ k \in Nat /\ m \in Nat /\ r \in Nat /\ d \in Nat /\ e \in Nat
        /\ n <= k + e /\ k <= m + d /\ m <= r + 1 /\ errCap' = 1 + r + d + e
    BY ZenonT(40), <1>1, <1>4, <1>5, <1>6, <1>7, <1>8
  <2> HIDE DEF n, k, m, r, d, e
  <2>2. errCap' \in Nat /\ 0 + n <= errCap'
    BY <2>1
  <2> QED BY Zenon, <2>2 DEF n
<1> QED BY ZenonT(40), <1>1, <1>7, <1>10, <1>11 DEF HasRoom

LEMMA RoomAtEnd ==
  ASSUME HasRoom, NEW g \in live, End(g)
  PROVE  HasRoom'
<1> DEFINE S == live \cap Senders
<1>1. /\ g \in Senders => errCh < errCap
      /\ errCh' = errCh + Flag(g \in Senders) /\ errCap' = errCap /\ live' = live \ {g}
  BY DEF End
<1>2. (live \cap Senders)' = S \ {g}
  BY Zenon, <1>1 DEF Senders, Rings
<1>3. IsFiniteSet(S) /\ Cardinality(S) \in Nat
  BY CardinalityType DEF HasRoom
<1>4. /\ IsFiniteSet(S \ {g})
      /\ Cardinality(S \ {g}) = IF g \in S THEN Cardinality(S) - 1 ELSE Cardinality(S)
  BY <1>3, CardinalityRemove, Zenon
<1>5. Cardinality(S \ {g}) \in Nat
  BY Zenon, <1>4, CardinalityType
<1>6. errCh \in Nat /\ errCap \in Nat /\ errCh + Cardinality(S) <= errCap
  BY Zenon DEF HasRoom
<1> HIDE DEF S
<1>7. CASE g \in Senders
  <2>1. g \in S /\ errCh' = errCh + 1
    BY Zenon, <1>1, <1>7 DEF S, Flag
  <2>2. Cardinality(S \ {g}) = Cardinality(S) - 1
    BY Zenon, <1>4, <2>1
  <2>3. errCh' \in Nat /\ errCh' + Cardinality(S \ {g}) <= errCap
    BY SMTT(20), <1>3, <1>5, <1>6, <2>1, <2>2
  <2> QED BY Zenon, <1>1, <1>2, <1>4, <1>6, <2>3 DEF HasRoom
<1>8. CASE g \notin Senders
  <2>1. errCh' = errCh + 0 /\ S \ {g} = S
    BY Zenon, <1>1, <1>8 DEF S, Flag
  <2>2. errCh' = errCh
    BY SMTT(20), <1>6, <2>1
  <2> QED BY ZenonT(40), <1>1, <1>2, <1>3, <1>6, <2>1, <2>2 DEF HasRoom
<1> QED BY ZenonT(40), <1>7, <1>8

\* A step of the main goroutine before the readers are spawned.
LEMMA RoomBefore ==
  ASSUME Room, [Next]_vars, UNCHANGED <<live, errCh>>, step \notin Spawned,
         step' \notin Spawned,
         step' \notin {"unwind", "done"} => step \notin {"unwind", "done"}
  PROVE  Room'
BY Zenon, ReadersStep DEF Room

\* A step that leaves the channel and its senders alone.
LEMMA RoomKept ==
  ASSUME Room, [Next]_vars, UNCHANGED <<live, errCh, errCap>>,
         step' = step \/ (step \in Spawned /\ step' \in {"wait", "unwind"})
  PROVE  Room'
<1>1. HasRoom => HasRoom'
  BY Zenon DEF HasRoom, Senders, Rings
<1> QED BY Zenon, <1>1, ReadersStep DEF Room, Spawned

LEMMA RoomStep == Room /\ [Next]_vars => Room'
<1> USE Zenon
<1> SUFFICES ASSUME Room, [Next]_vars
             PROVE  Room'
    BY SMT
<1> USE DEF goVars, Spawned
<1>1. CASE CompileAllowlist \/ SkipDefend \/ LoadDefendObjects \/ SkipLSM
  BY <1>1, RoomBefore DEF CompileAllowlist, SkipDefend, LoadDefendObjects, SkipLSM, Proceed,
     Fatal
<1>2. CASE LoadDefendLSM \/ LoadDefendCgroup \/ ProbeAndArm
  BY <1>2, RoomBefore DEF LoadDefendLSM, LoadDefendCgroup, ProbeAndArm, Proceed, Fatal
<1>3. CASE LoadExec \/ ArmSyscall \/ ReadyDetect
  BY <1>3, RoomBefore DEF LoadExec, ArmSyscall, ReadyDetect, Proceed, Fatal
<1>4. CASE LoadDNS \/ LoadFork \/ LoadFS \/ LoadKTLS \/ LoadIPv6Obs \/ LoadBPFAudit
  BY <1>4, RoomBefore DEF LoadDNS, LoadFork, LoadFS, LoadKTLS, LoadIPv6Obs, LoadBPFAudit,
     LoadProbe, Proceed
<1>5. CASE SpawnReaders
  <2>1. step' = "readyDefend"
    BY <1>5 DEF SpawnReaders, Proceed
  <2> QED BY <1>5, <2>1, RoomAtSpawn, ReadersStep DEF Room
<1>6. CASE ReadyDefend \/ WaitReaders
  BY <1>6, RoomKept DEF ReadyDefend, WaitReaders
<1>7. CASE Unwind
  <2>1. step = "unwind" /\ step' \in {"unwind", "done"}
    BY <1>7 DEF Unwind
  <2> QED BY <2>1, ReadersStep DEF Room
<1>8. CASE closeAllReaders \/ Signal \/ \E x \in Lossy : LoseEvent(x)
  BY <1>8, RoomKept DEF closeAllReaders, Signal, LoseEvent
<1>9. CASE \E g \in live : GoroutineEnds(g) \/ ReaderEndsEarly(g)
  <2>1. PICK g \in live : End(g)
    BY Zenon, <1>9 DEF GoroutineEnds, ReaderEndsEarly
  <2>2. step' = step
    BY Zenon, <2>1 DEF End
  <2>3. HasRoom => HasRoom'
    BY ZenonT(40), <2>1, RoomAtEnd
  <2>4. step \in Spawned \cup {"unwind", "done"}
    BY <2>1 DEF Room
  <2> QED BY <2>2, <2>3, <2>4, ReadersStep DEF Room
<1>10. CASE Terminated \/ UNCHANGED vars
  BY <1>10, RoomKept DEF Terminated, vars
<1> QED
  BY Zenon, <1>1, <1>2, <1>3, <1>4, <1>5, <1>6, <1>7, <1>8, <1>9, <1>10 DEF Next, Main

\* While wg.Wait may be pending, errCh has room for every goroutine that still has to
\* send to it, so sendReaderErr never blocks: countReaders counts one for the exec
\* reader, one for each other reader that is set and one for each integrity watcher.
THEOREM SendersNeverBlock == Spec => []ErrChHasRoom
<1>1. Init => Room
  BY DEF Init, Room, Spawned
<1>2. Room => ErrChHasRoom
  BY Zenon DEF Room, HasRoom, Spawned, ErrChHasRoom
<1> QED
  BY <1>1, RoomStep, <1>2, PTL DEF Spec
=============================================================================
