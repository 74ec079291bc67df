------------------------- MODULE DenyPipelineProofs -------------------------
(***************************************************************************)
(* Proofs about DenyPipeline, for every set of keys and every bound.       *)
(***************************************************************************)
EXTENDS DenyPipeline, TLAPS

\* A reader past its read holds a record: appendDenyFromRaw has decoded and
\* stamped the sample before it asks the dedup table.
HoldsRecord ==
  \A f \in Family : pc[f] \in {"decide", "lock", "append", "note"} => held[f] \in Records

TypeInv == TypeOK /\ HoldsRecord

\* A table of counters with one of them incremented.
LEMMA Increment ==
  ASSUME NEW A, NEW B, NEW f \in [A -> [B -> Nat]], NEW a \in A, NEW b \in B
  PROVE  [f EXCEPT ![a] = [f[a] EXCEPT ![b] = f[a][b] + 1]] \in [A -> [B -> Nat]]
OBVIOUS

\* What a refusing hook changes has its type.
LEMMA EmitTypes ==
  ASSUME TypeOK, NEW f \in Family, NEW k \in Keys, EmitDenyEvent(f, k)
  PROVE  /\ fired' \in [Family -> [Keys -> Nat]]
         /\ ring' \in [Family -> Seq(Keys)]
         /\ reserveFailures' \in [Family -> Nat]
         /\ denies' \in Nat
<1>1. /\ fired \in [Family -> [Keys -> Nat]] /\ ring \in [Family -> Seq(Keys)]
      /\ reserveFailures \in [Family -> Nat] /\ denies \in Nat
  BY Zenon DEF TypeOK
<1>2. /\ fired' = [fired EXCEPT ![f] = [fired[f] EXCEPT ![k] = fired[f][k] + 1]]
      /\ \/ ring' = ring
         \/ ring' = [ring EXCEPT ![f] = Append(ring[f], k)]
      /\ \/ reserveFailures' = reserveFailures
         \/ reserveFailures' = [reserveFailures EXCEPT ![f] = reserveFailures[f] + 1]
      /\ denies' = denies + 1
  BY Zenon DEF EmitDenyEvent
<1>3. Append(ring[f], k) \in Seq(Keys) /\ reserveFailures[f] + 1 \in Nat /\ denies + 1 \in Nat
  BY <1>1
<1>4. fired' \in [Family -> [Keys -> Nat]]
  BY Zenon, <1>1, <1>2, Increment
<1>5. ring' \in [Family -> Seq(Keys)]
  BY Zenon, <1>1, <1>2, <1>3
<1>6. reserveFailures' \in [Family -> Nat]
  BY Zenon, <1>1, <1>2, <1>3
<1>7. QED
  BY Zenon, <1>2, <1>3, <1>4, <1>5, <1>6

\* Every step of the hooks, the readers and the shutdown keeps the types and
\* leaves a reader past its read with a record.
LEMMA TypeInvariant == Spec => []TypeInv
<1>1. Init => TypeInv
  BY ConstantsAssumption
  DEF Init, TypeInv, TypeOK, HoldsRecord, Zero, Family, Writers, PCs, Phases
<1>2. TypeInv /\ [Next]_vars => TypeInv'
  <2> SUFFICES ASSUME TypeInv, [Next]_vars PROVE TypeInv'
    OBVIOUS
  <2>0. Family \subseteq Writers /\ "other" \in Writers /\ "free" \notin Writers
        /\ "other" \notin Family
    BY DEF Family, Writers
  <2> USE ConstantsAssumption, <2>0 DEF TypeInv, TypeOK, HoldsRecord,
      kernelVars, dedupVars, logVars, stopVars, readerVars, PCs
  <2>1. CASE Tick
    BY <2>1 DEF Tick
  <2>2. ASSUME NEW f \in Family, NEW k \in Keys, EmitDenyEvent(f, k)
        PROVE TypeInv'
    <3>1. /\ fired' \in [Family -> [Keys -> Nat]] /\ ring' \in [Family -> Seq(Keys)]
          /\ reserveFailures' \in [Family -> Nat] /\ denies' \in Nat
      BY Zenon, <2>2, EmitTypes
    <3>2. QED
      BY Zenon, <2>2, <3>1 DEF EmitDenyEvent
  <2>3. ASSUME NEW f \in Family, ReadRecord(f) PROVE TypeInv'
    <3>1. Head(ring[f]) \in Keys /\ Tail(ring[f]) \in Seq(Keys)
      BY <2>3 DEF ReadRecord
    <3>2. [key |-> Head(ring[f]), now |-> clock] \in Records
      BY <3>1 DEF Records
    <3>3. QED
      BY Zenon, <2>3, <3>1, <3>2 DEF ReadRecord
  <2>4. ASSUME NEW f \in Family, Corroborate(f) PROVE TypeInv'
    <3>1. held[f] \in Records /\ held[f].key \in Keys /\ held[f].now \in Int
      BY <2>4 DEF Corroborate, Records
    <3>2. dedup[held[f].key] \in Entries
      BY Zenon, <2>4, <3>1 DEF Corroborate, IsTwin, Fresh
    <3>3. [family |-> dedup[held[f].key].family, nano |-> held[f].now] \in Entries
      BY <3>1, <3>2 DEF Entries
    <3>4. dedup' \in [Keys -> Entries \cup {Absent}]
      BY <2>4, <3>1, <3>3 DEF Corroborate
    <3>5. corroborated' \in [Family -> [Keys -> Nat]]
      <4> DEFINE k == held[f].key
      <4>1. corroborated' = [corroborated EXCEPT ![f] =
                               [corroborated[f] EXCEPT ![k] = corroborated[f][k] + 1]]
        BY <2>4 DEF Corroborate
      <4>2. k \in Keys
        BY Zenon, <3>1
      <4> HIDE DEF k
      <4>3. QED
        BY Zenon, <4>1, <4>2, Increment
    <3>6. QED
      BY Zenon, <2>4, <3>4, <3>5 DEF Corroborate, NextRecord
  <2>5. ASSUME NEW f \in Family, DecideEmit(f) PROVE TypeInv'
    <3>1. held[f] \in Records /\ held[f].key \in Keys /\ held[f].now \in Int
      BY <2>5 DEF DecideEmit, Records
    <3>2. [family |-> f, nano |-> held[f].now] \in Entries
      BY <3>1 DEF Entries
    <3>3. dedup' \in [Keys -> Entries \cup {Absent}]
      BY <2>5, <3>1, <3>2 DEF DecideEmit, Pruned
    <3>4. emitted' \in [Family -> [Keys -> Nat]]
      <4> DEFINE k == held[f].key
      <4>1. emitted' = [emitted EXCEPT ![f] =
                          [emitted[f] EXCEPT ![k] = emitted[f][k] + 1]]
        BY Zenon, <2>5 DEF DecideEmit
      <4>2. k \in Keys
        BY <3>1
      <4> HIDE DEF k
      <4>3. QED
        BY Zenon, <4>1, <4>2, Increment
    <3>5. QED
      BY Zenon, <2>5, <3>3, <3>4 DEF DecideEmit
  <2>6. ASSUME NEW f \in Family, NoteDeny(f) PROVE TypeInv'
    BY <2>6 DEF NoteDeny, NextRecord
  <2>7. CASE OtherEvent
    BY <2>7 DEF OtherEvent
  <2>8. ASSUME NEW w \in Writers, LockAndNumber(w) PROVE TypeInv'
    BY <2>8 DEF LockAndNumber
  <2>9. ASSUME NEW w \in Writers, AppendLine(w) PROVE TypeInv'
    <3>1. [seq |-> num[w], kind |-> w] \in [seq : Nat, kind : Writers]
      OBVIOUS
    <3>2. log' \in Seq([seq : Nat, kind : Writers])
      BY <2>9, <3>1 DEF AppendLine
    <3>3. QED
      BY Zenon, <2>9, <3>2 DEF AppendLine
  <2>10. ASSUME NEW w \in Writers, AppendFails(w) PROVE TypeInv'
    BY Zenon, <2>10 DEF AppendFails, NextRecord
  <2>11. ASSUME NEW w \in Writers, ReaderExits(w) PROVE TypeInv'
    BY Zenon, <2>11 DEF ReaderExits
  <2>12. CASE CancelRun
    BY Zenon, <2>12 DEF CancelRun, Phases
  <2>13. ASSUME NEW f \in Family, CloseReader(f) PROVE TypeInv'
    BY Zenon, <2>13 DEF CloseReader
  <2>14. CASE Join
    BY Zenon, <2>14 DEF Join, Phases
  <2>15. CASE ReportLosses
    BY Zenon, <2>15 DEF ReportLosses, Phases, Family
  <2>16. CASE UNCHANGED vars
    BY <2>16 DEF vars
  <2>17. QED
    BY Zenon, <2>1, <2>2, <2>3, <2>4, <2>5, <2>6, <2>7, <2>8, <2>9, <2>10, <2>11,
       <2>12, <2>13, <2>14, <2>15, <2>16 DEF Next, Reader, Writer, Stop
<1>3. QED
  BY <1>1, <1>2, PTL DEF Spec

\* The variables always have their types: the model of the deny path is closed
\* under every step of the hooks, the readers and the shutdown.
THEOREM TypeCorrect == Spec => []TypeOK
<1>1. TypeInv => TypeOK
  BY DEF TypeInv
<1>2. QED
  BY <1>1, TypeInvariant, PTL

-----------------------------------------------------------------------------
(* The order of the log.                                                   *)

\* jsonlMu is held exactly by the writer between seq.Next() and its append, that
\* writer holds the newest number, and every line in the file is older.
LogLocked ==
  /\ \A w \in Writers : pc[w] = "append" <=> mu = w
  /\ \A w \in Writers : pc[w] = "append" => num[w] = seq
  /\ \A i \in 1..Len(log) : log[i].seq <= seq
  /\ mu # "free" => \A i \in 1..Len(log) : log[i].seq < seq

\* The lock, the numbers and the order of the file, for any number of keys and lines.
LEMMA LogInvariant == Spec => [](LogLocked /\ SeqOrder)
<1> DEFINE IInv == LogLocked /\ SeqOrder
<1>1. Init => IInv
  BY DEF Init, LogLocked, SeqOrder, Writers, Family
<1>2. TypeInv /\ IInv /\ [Next]_vars => IInv'
  <2> SUFFICES ASSUME TypeInv, IInv, [Next]_vars PROVE IInv'
    OBVIOUS
  <2>0. Family \subseteq Writers /\ "other" \in Writers /\ "free" \notin Writers
    BY DEF Family, Writers
  <2>a. /\ Len(log) \in Nat
        /\ \A i \in 1..Len(log) : log[i].seq \in Nat
    <3> DEFINE S == [seq : Nat, kind : Writers]
    <3>1. log \in Seq(S)
      BY Zenon DEF TypeInv, TypeOK
    <3>2. \A s \in S : s.seq \in Nat
      OBVIOUS
    <3> HIDE DEF S
    <3>3. Len(log) \in Nat /\ \A i \in 1..Len(log) : log[i] \in S
      BY <3>1
    <3>4. QED
      BY Zenon, <3>2, <3>3
  <2> USE <2>0 DEF TypeInv, TypeOK, LogLocked, SeqOrder,
      kernelVars, dedupVars, logVars, stopVars, readerVars
  <2>1. ASSUME UNCHANGED <<logVars, num>>,
               \A w \in Writers : pc'[w] = "append" <=> pc[w] = "append"
        PROVE IInv'
    BY Zenon, <2>1
  <2>2. ASSUME NEW f \in Family, Reader(f) PROVE IInv'
    <3>1. CASE ReadRecord(f)
      BY Zenon, <2>1, <3>1 DEF ReadRecord
    <3>2. CASE Corroborate(f)
      BY Zenon, <2>1, <3>2 DEF Corroborate, NextRecord
    <3>3. CASE DecideEmit(f)
      BY <2>1, <3>3 DEF DecideEmit
    <3>4. CASE NoteDeny(f)
      BY Zenon, <3>4 DEF NoteDeny, NextRecord
    <3>5. QED
      BY <2>2, <3>1, <3>2, <3>3, <3>4 DEF Reader
  <2>3. ASSUME NEW w \in Writers, LockAndNumber(w) PROVE IInv'
    <3>1. /\ mu = "free" /\ mu' = w
          /\ log' = log
          /\ seq' = seq + 1
          /\ num' = [num EXCEPT ![w] = seq + 1]
          /\ pc' = [pc EXCEPT ![w] = "append"]
      BY Zenon, <2>3 DEF LockAndNumber
    <3>2. \A v \in Writers : pc[v] # "append"
      BY Zenon, <3>1
    <3>3. \A v \in Writers : pc'[v] = "append" <=> v = w
      BY Zenon, <3>1, <3>2
    <3>4. /\ \A v \in Writers : pc'[v] = "append" <=> mu' = v
          /\ \A v \in Writers : pc'[v] = "append" => num'[v] = seq'
      BY <3>1, <3>3
    <3>5. \A i \in 1..Len(log') : log'[i].seq < seq' /\ log'[i].seq <= seq'
      BY <3>1, <2>a
    <3>6. SeqOrder'
      BY Zenon, <3>1
    <3>7. QED
      BY Zenon, <3>4, <3>5, <3>6
  <2>4. ASSUME NEW w \in Writers, AppendLine(w) PROVE IInv'
    <3>1. /\ mu = w
          /\ num[w] = seq
          /\ \A i \in 1..Len(log) : log[i].seq < seq
      BY Zenon, <2>4 DEF AppendLine
    <3>2. /\ log' = Append(log, [seq |-> seq, kind |-> w])
          /\ seq' = seq
      BY <2>4, <3>1 DEF AppendLine
    <3>3. /\ Len(log') = Len(log) + 1
          /\ \A i \in 1..Len(log) : log'[i] = log[i]
          /\ log'[Len(log) + 1].seq = seq
      BY <3>2, [seq |-> seq, kind |-> w] \in [seq : Nat, kind : Writers]
    <3>4. SeqOrder'
      <4> SUFFICES ASSUME NEW i \in 1..Len(log'), NEW j \in 1..Len(log'), i < j
                   PROVE log'[i].seq < log'[j].seq
        OBVIOUS
      <4>1. i \in 1..Len(log)
        BY <3>3, <2>a
      <4>2. CASE j \in 1..Len(log)
        BY Zenon, <3>3, <4>1, <4>2
      <4>3. CASE j = Len(log) + 1
        BY Zenon, <3>1, <3>3, <4>1, <4>3
      <4>4. j \in 1..Len(log) \/ j = Len(log) + 1
        <5>1. j \in 1..(Len(log) + 1)
          BY Zenon, <3>3
        <5> HIDE DEF TypeInv, TypeOK, LogLocked, SeqOrder
        <5>2. QED
          BY <5>1, <2>a
      <4>5. QED
        BY <4>2, <4>3, <4>4
    <3>5. \A i \in 1..Len(log') : log'[i].seq <= seq'
      BY <3>1, <3>2, <3>3
    <3>6. mu' = "free" /\ \A v \in Writers : pc'[v] # "append"
      BY <2>4, <3>1 DEF AppendLine
    <3>7. QED
      BY <3>4, <3>5, <3>6
  <2>5. ASSUME NEW w \in Writers, AppendFails(w) PROVE IInv'
    BY Zenon, <2>5 DEF AppendFails, NextRecord
  <2>6. ASSUME NEW w \in Writers, ReaderExits(w) PROVE IInv'
    BY Zenon, <2>1, <2>6 DEF ReaderExits
  <2>7. CASE OtherEvent
    BY <2>1, <2>7 DEF OtherEvent
  <2>8. CASE Tick \/ CancelRun \/ Stop \/ UNCHANGED vars
    BY Zenon, <2>1, <2>8 DEF Tick, CancelRun, Stop, CloseReader, Join, ReportLosses, vars
  <2>9. ASSUME NEW f \in Family, NEW k \in Keys, EmitDenyEvent(f, k) PROVE IInv'
    BY Zenon, <2>1, <2>9 DEF EmitDenyEvent
  <2>10. QED
    BY <2>2, <2>3, <2>4, <2>5, <2>6, <2>7, <2>8, <2>9 DEF Next, Writer
<1>3. QED
  BY <1>1, <1>2, TypeInvariant, PTL DEF Spec

\* The sequence numbers of the log lines increase down the file: no interleaving of
\* the readers writes them out of order.
THEOREM LogInOrder == Spec => []SeqOrder
BY LogInvariant, PTL

\* The deny pipeline implements the abstract event log: whatever the readers do, the
\* file changes only by a line under the next number, and a number is lost only with
\* its line.  Drawing a number is a stutter, appending is Write, failing is Lose.
THEOREM LogImplemented == Spec => LogSpec
<1> DEFINE drawn == IF mu = "free" THEN seq ELSE seq - 1
<1>1. Init => Log!Init
  BY DEF Init, Log!Init
<1>2. TypeInv /\ LogLocked /\ [Next]_vars => [Log!Next]_(Log!logVars)
  <2> SUFFICES ASSUME TypeInv, LogLocked, [Next]_vars PROVE [Log!Next]_(Log!logVars)
    OBVIOUS
  <2> USE DEF kernelVars, dedupVars, logVars, stopVars, readerVars
  <2>t. /\ seq \in Nat
        /\ log \in Seq([seq : Nat, kind : Writers])
        /\ num \in [Writers -> Nat]
        /\ Family \subseteq Writers /\ "free" \notin Writers
    BY DEF TypeInv, TypeOK, Family, Writers
  <2>1. ASSUME UNCHANGED <<mu, seq, log>> PROVE [Log!Next]_(Log!logVars)
    BY <2>1 DEF Log!logVars
  <2>2. ASSUME NEW w \in Writers, LockAndNumber(w) PROVE [Log!Next]_(Log!logVars)
    <3>1. mu = "free" /\ mu' = w /\ seq' = seq + 1 /\ log' = log
      BY <2>2 DEF LockAndNumber
    <3>2. drawn' = drawn
      BY <2>t, <3>1
    <3>3. QED
      BY <3>1, <3>2 DEF Log!logVars
  <2>3. ASSUME NEW w \in Writers, AppendLine(w) PROVE Log!Write
    <3> DEFINE line == [seq |-> num[w], kind |-> w]
    <3>1. mu = w /\ num[w] = seq /\ mu' = "free" /\ seq' = seq
      BY <2>3 DEF AppendLine, LogLocked
    <3>2. drawn = seq - 1 /\ drawn' = seq /\ drawn' = drawn + 1
      BY <2>t, <3>1
    <3>3. line \in [seq : Nat, kind : Writers] /\ log' = Append(log, line)
      BY Zenon, <2>3, <2>t DEF AppendLine
    <3>4. line.seq = seq
      BY <3>1
    <3> HIDE DEF line
    <3>5. /\ Len(log') = Len(log) + 1
          /\ \A i \in 1..Len(log) : log'[i] = log[i]
          /\ log'[Len(log) + 1] = line
      BY <2>t, <3>3
    <3>6. Log!Extend(drawn + 1)
      BY <3>2, <3>4, <3>5 DEF Log!Extend
    <3>7. QED
      BY Zenon, <3>2, <3>6 DEF Log!Write
  <2>4. ASSUME NEW w \in Writers, AppendFails(w) PROVE Log!Lose
    <3>1. mu = w /\ mu' = "free" /\ seq' = seq /\ log' = log
      BY <2>4 DEF AppendFails, LogLocked
    <3>2. drawn' = drawn + 1
      BY <2>t, <3>1
    <3>3. QED
      BY Zenon, <3>1, <3>2 DEF Log!Lose
  <2>5. ASSUME NEW w \in Writers, ReaderExits(w) PROVE [Log!Next]_(Log!logVars)
    BY Zenon, <2>1, <2>5 DEF ReaderExits
  <2>6. ASSUME NEW f \in Family, Reader(f) PROVE [Log!Next]_(Log!logVars)
    BY <2>1, <2>6 DEF Reader, ReadRecord, Corroborate, DecideEmit, NoteDeny
  <2>7. CASE Tick \/ OtherEvent \/ CancelRun \/ Stop \/ UNCHANGED vars
    BY <2>1, <2>7
    DEF Tick, OtherEvent, CancelRun, Stop, CloseReader, Join, ReportLosses, vars
  <2>8. ASSUME NEW f \in Family, NEW k \in Keys, EmitDenyEvent(f, k)
        PROVE [Log!Next]_(Log!logVars)
    BY <2>1, <2>8 DEF EmitDenyEvent
  <2>9. QED
    BY <2>2, <2>3, <2>4, <2>5, <2>6, <2>7, <2>8 DEF Next, Writer, Log!Next
<1>3. QED
  BY <1>1, <1>2, TypeInvariant, LogInvariant, PTL DEF Spec, LogSpec, Log!Spec

-----------------------------------------------------------------------------
(* The cross-layer dedup.                                                  *)

\* A dedup entry names a family that decided to emit a deny with that key.
EntryHasEmitter ==
  \A k \in Keys : dedup[k] # Absent => emitted[dedup[k].family][k] > 0

\* A deny is folded away only when the other hook family decided to emit a deny
\* with the same key, whatever the order of the readers and the clock: the dedup
\* never suppresses the only report of a destination.
THEOREM TwinAlwaysReported == Spec => []TwinHasEmitter
<1> DEFINE IInv == EntryHasEmitter /\ TwinHasEmitter
<1>1. Init => IInv
  BY DEF Init, Zero, EntryHasEmitter, TwinHasEmitter
<1>2. TypeInv /\ IInv /\ [Next]_vars => IInv'
  <2> SUFFICES ASSUME TypeInv, IInv, [Next]_vars PROVE IInv'
    OBVIOUS
  <2> USE DEF kernelVars, dedupVars, logVars, stopVars, readerVars
  <2>t. /\ dedup \in [Keys -> Entries \cup {Absent}]
        /\ emitted \in [Family -> [Keys -> Nat]]
        /\ corroborated \in [Family -> [Keys -> Nat]]
    BY Zenon DEF TypeInv, TypeOK
  <2>1. ASSUME UNCHANGED dedupVars PROVE IInv'
    BY <2>1 DEF EntryHasEmitter, TwinHasEmitter
  <2>2. ASSUME NEW f \in Family, Corroborate(f) PROVE IInv'
    <3> DEFINE k == held[f].key
               now == held[f].now
    <3>1. k \in Keys /\ now \in Int
      BY Zenon, <2>2 DEF Corroborate, TypeInv, HoldsRecord, Records
    <3>2. /\ dedup[k] # Absent
          /\ dedup[k].family # f
          /\ dedup' = [dedup EXCEPT ![k] = [family |-> dedup[k].family, nano |-> now]]
          /\ corroborated' = [corroborated EXCEPT ![f] =
                               [corroborated[f] EXCEPT ![k] = corroborated[f][k] + 1]]
          /\ emitted' = emitted
      BY <2>2 DEF Corroborate, IsTwin, Fresh
    <3> HIDE DEF k, now
    <3>3. EntryHasEmitter'
      <4> SUFFICES ASSUME NEW q \in Keys, dedup'[q] # Absent
                   PROVE emitted[dedup'[q].family][q] > 0
        BY Zenon, <3>2 DEF EntryHasEmitter
      <4>1. CASE q = k
        BY <3>1, <3>2, <2>t, <4>1 DEF EntryHasEmitter
      <4>2. CASE q # k
        BY <3>1, <3>2, <2>t, <4>2 DEF EntryHasEmitter
      <4>3. QED
        BY <4>1, <4>2
    <3>4. dedup[k].family \in Family
      BY Zenon, <3>1, <3>2, <2>t DEF Entries
    <3>5. TwinHasEmitter'
      <4> SUFFICES ASSUME NEW a \in Family, NEW b \in Family, NEW q \in Keys,
                          a # b, corroborated'[a][q] > 0
                   PROVE emitted[b][q] > 0
        BY Zenon, <3>2 DEF TwinHasEmitter
      <4>1. CASE a = f /\ q = k
        <5>1. b = dedup[k].family
          BY <3>2, <3>4, <4>1 DEF Family
        <5>2. QED
          BY <3>1, <3>2, <4>1, <5>1 DEF EntryHasEmitter
      <4>2. CASE ~ (a = f /\ q = k)
        <5>1. corroborated'[a][q] = corroborated[a][q]
          BY <3>1, <3>2, <2>t, <4>2
        <5>2. QED
          BY Zenon, <5>1 DEF TwinHasEmitter
      <4>3. QED
        BY Zenon, <4>1, <4>2
    <3>6. QED
      BY Zenon, <3>3, <3>5
  <2>3. ASSUME NEW f \in Family, DecideEmit(f) PROVE IInv'
    <3> DEFINE k == held[f].key
               now == held[f].now
               entry == [family |-> f, nano |-> now]
               table == [dedup EXCEPT ![k] = entry]
    <3>1. k \in Keys /\ now \in Int /\ entry \in Entries
      BY Zenon, <2>3 DEF DecideEmit, TypeInv, HoldsRecord, Records, Entries
    <3>2. /\ dedup' = Pruned(table, now)
          /\ emitted' = [emitted EXCEPT ![f] =
                          [emitted[f] EXCEPT ![k] = emitted[f][k] + 1]]
          /\ corroborated' = corroborated
      BY Zenon, <2>3 DEF DecideEmit
    <3>3. \A q \in Keys : dedup'[q] # Absent => dedup'[q] = table[q]
      BY <3>1, <3>2, <2>t DEF Pruned
    <3>f. entry.family = f
      OBVIOUS
    <3> HIDE DEF k, now, entry
    <3>4. /\ emitted'[f][k] = emitted[f][k] + 1
          /\ emitted[f][k] \in Nat
          /\ \A g \in Family, q \in Keys :
               ~ (g = f /\ q = k) => emitted'[g][q] = emitted[g][q]
      BY Zenon, <3>1, <3>2, <2>t
    <3>5. \A g \in Family, q \in Keys : emitted[g][q] > 0 => emitted'[g][q] > 0
      BY <3>4
    <3>6. EntryHasEmitter'
      <4> SUFFICES ASSUME NEW q \in Keys, dedup'[q] # Absent
                   PROVE emitted'[dedup'[q].family][q] > 0
        BY Zenon DEF EntryHasEmitter
      <4>1. CASE q = k
        <5>1. dedup'[q].family = f
          BY <3>1, <3>3, <3>f, <2>t, <4>1
        <5>2. QED
          BY <3>4, <4>1, <5>1
      <4>2. CASE q # k
        <5>1. dedup'[q] = dedup[q] /\ dedup[q] # Absent
          BY <3>1, <3>3, <2>t, <4>2
        <5>2. dedup[q].family \in Family
          BY Zenon, <5>1, <2>t DEF Entries
        <5>3. QED
          BY <3>5, <5>1, <5>2 DEF EntryHasEmitter
      <4>3. QED
        BY Zenon, <4>1, <4>2
    <3>7. TwinHasEmitter'
      BY Zenon, <3>2, <3>5 DEF TwinHasEmitter
    <3>8. QED
      BY <3>6, <3>7
  <2>4. ASSUME NEW f \in Family, ReadRecord(f) \/ NoteDeny(f) PROVE IInv'
    BY Zenon, <2>1, <2>4 DEF ReadRecord, NoteDeny
  <2>5. ASSUME NEW w \in Writers, Writer(w) PROVE IInv'
    BY Zenon, <2>1, <2>5 DEF Writer, LockAndNumber, AppendLine, AppendFails, ReaderExits
  <2>6. CASE Tick \/ OtherEvent \/ CancelRun \/ Stop \/ UNCHANGED vars
    BY <2>1, <2>6
    DEF Tick, OtherEvent, CancelRun, Stop, CloseReader, Join, ReportLosses, vars
  <2>7. ASSUME NEW f \in Family, NEW k \in Keys, EmitDenyEvent(f, k) PROVE IInv'
    BY <2>1, <2>7 DEF EmitDenyEvent
  <2>8. QED
    BY <2>2, <2>3, <2>4, <2>5, <2>6, <2>7 DEF Next, Reader
<1>3. IInv => TwinHasEmitter
  OBVIOUS
<1>4. QED
  BY <1>1, <1>2, <1>3, TypeInvariant, PTL DEF Spec

\* pruneDenyDedupLocked never drops an entry that could still mark a twin of a
\* deny stamped at or after the one being decided: for every cap, every window
\* and every order of the readers' stamps.
THEOREM PruningSound == Spec => PruneKeepsTwins
<1> DEFINE Kept == \A k \in Keys, f \in Family :
                     /\ dedup[k] # Absent
                     /\ dedup'[k] = Absent
                     /\ pc[f] = "decide" /\ pc'[f] # "decide"
                     => held[f].now - dedup[k].nano > Window
<1>1. TypeInv /\ [Next]_vars => [Kept]_vars
  <2> SUFFICES ASSUME TypeInv, Next,
                      NEW q \in Keys, NEW g \in Family,
                      dedup[q] # Absent, dedup'[q] = Absent,
                      pc[g] = "decide", pc'[g] # "decide"
               PROVE held[g].now - dedup[q].nano > Window
    OBVIOUS
  <2> USE DEF kernelVars, dedupVars, logVars, stopVars, readerVars
  <2>t. /\ dedup \in [Keys -> Entries \cup {Absent}]
        /\ pc \in [Writers -> PCs]
        /\ Family \subseteq Writers
    BY Zenon DEF TypeInv, TypeOK, Writers
  <2>1. ASSUME dedup' = dedup PROVE FALSE
    BY <2>1
  <2>2. ASSUME NEW f \in Family, Corroborate(f) PROVE FALSE
    <3> DEFINE k == held[f].key
               entry == [family |-> dedup[k].family, nano |-> held[f].now]
    <3>1. k \in Keys /\ dedup[k] \in Entries /\ held[f].now \in Int
      BY Zenon, <2>2, <2>t DEF Corroborate, IsTwin, Fresh, TypeInv, HoldsRecord, Records
    <3>2. entry \in Entries /\ dedup' = [dedup EXCEPT ![k] = entry]
      BY Zenon, <2>2, <3>1 DEF Corroborate, Entries
    <3>3. Absent \notin Entries
      BY Zenon, ConstantsAssumption DEF Entries, Family
    <3> HIDE DEF k, entry
    <3>4. QED
      BY <2>t, <3>1, <3>2, <3>3
  <2>3. ASSUME NEW f \in Family, DecideEmit(f)
        PROVE held[g].now - dedup[q].nano > Window
    <3> DEFINE k == held[f].key
               now == held[f].now
               entry == [family |-> f, nano |-> now]
               table == [dedup EXCEPT ![k] = entry]
    <3>1. f = g
      BY Zenon, <2>3, <2>t DEF DecideEmit
    <3>2. k \in Keys /\ now \in Int /\ entry \in Entries
      BY Zenon, <2>3 DEF DecideEmit, TypeInv, HoldsRecord, Records, Entries
    <3>3. dedup' = Pruned(table, now)
      BY Zenon, <2>3 DEF DecideEmit
    <3>4. entry # Absent
      BY Zenon, <3>2, ConstantsAssumption DEF Entries, Family
    <3>5. entry.nano = now
      OBVIOUS
    <3> HIDE DEF k, now, entry
    <3>6. table[q] # Absent
      BY Zenon, <2>t, <3>2, <3>4
    <3>7. now - table[q].nano > Window
      BY Zenon, <3>3, <3>6 DEF Pruned
    <3>8. q # k
      <4> SUFFICES ASSUME q = k PROVE FALSE
        BY Zenon
      <4>1. table[q].nano = now
        BY Zenon, <2>t, <3>2, <3>5
      <4>2. QED
        BY <3>2, <3>7, <4>1, ConstantsAssumption
    <3>9. QED
      BY <2>t, <3>1, <3>2, <3>7, <3>8 DEF now
  <2>4. ASSUME NEW f \in Family, ReadRecord(f) \/ NoteDeny(f) PROVE FALSE
    BY Zenon, <2>1, <2>4 DEF ReadRecord, NoteDeny
  <2>5. ASSUME NEW w \in Writers, Writer(w) PROVE FALSE
    BY Zenon, <2>1, <2>5 DEF Writer, LockAndNumber, AppendLine, AppendFails, ReaderExits
  <2>6. CASE Tick \/ OtherEvent \/ CancelRun \/ Stop
    BY <2>1, <2>6
    DEF Tick, OtherEvent, CancelRun, Stop, CloseReader, Join, ReportLosses
  <2>7. ASSUME NEW f \in Family, NEW k \in Keys, EmitDenyEvent(f, k) PROVE FALSE
    BY <2>1, <2>7 DEF EmitDenyEvent
  <2>8. QED
    BY <2>2, <2>3, <2>4, <2>5, <2>6, <2>7 DEF Next, Reader
<1>2. QED
  BY <1>1, TypeInvariant, PTL DEF Spec, PruneKeepsTwins
-----------------------------------------------------------------------------
(* The library's facts about finite sets, for the operators of this module. *)

Fin == INSTANCE FiniteSetTheorems

\* The library speaks of the same finite sets and cardinalities.
LEMMA SameCardinality ==
  ASSUME NEW S
  PROVE  /\ Fin!IsFiniteSet(S) <=> IsFiniteSet(S)
         /\ Fin!Cardinality(S) = Cardinality(S)
BY Zenon DEF IsFiniteSet, Fin!IsFiniteSet, Cardinality, Fin!Cardinality

\* A cardinality is a number, and zero only for the empty set.
LEMMA CardinalityType ==
  ASSUME NEW S, IsFiniteSet(S)
  PROVE  Cardinality(S) \in Nat /\ (Cardinality(S) = 0 <=> S = {})
BY Zenon, SameCardinality, Fin!FS_CardinalityType, Fin!FS_EmptySet

\* The empty set is finite and has no elements.
LEMMA CardinalityEmpty == IsFiniteSet({}) /\ Cardinality({}) = 0
BY Zenon, SameCardinality, Fin!FS_EmptySet

\* One more element.
LEMMA CardinalityAdd ==
  ASSUME NEW S, NEW x, IsFiniteSet(S)
  PROVE  /\ IsFiniteSet(S \cup {x})
         /\ Cardinality(S \cup {x}) =
              IF x \in S THEN Cardinality(S) ELSE Cardinality(S) + 1
BY Zenon, SameCardinality, Fin!FS_AddElement

\* One element less.
LEMMA CardinalityRemove ==
  ASSUME NEW S, NEW x, IsFiniteSet(S)
  PROVE  /\ IsFiniteSet(S \ {x})
         /\ Cardinality(S \ {x}) =
              IF x \in S THEN Cardinality(S) - 1 ELSE Cardinality(S)
BY Zenon, SameCardinality, Fin!FS_RemoveElement

\* A subset of a finite set is finite and no larger.
LEMMA CardinalitySubset ==
  ASSUME NEW S, IsFiniteSet(S), NEW T \in SUBSET S
  PROVE  IsFiniteSet(T) /\ Cardinality(T) <= Cardinality(S)
BY Zenon, SameCardinality, Fin!FS_Subset

\* An interval is finite.
LEMMA FiniteInterval ==
  ASSUME NEW a \in Int, NEW b \in Int
  PROVE  IsFiniteSet(a..b)
BY Zenon, SameCardinality, Fin!FS_Interval

\* Sets in one-to-one correspondence have the same cardinality.
LEMMA CardinalityBijection ==
  ASSUME NEW S, NEW T, IsFiniteSet(S), NEW f \in [S -> T],
         \A a, b \in S : f[a] = f[b] => a = b,
         \A t \in T : \E s \in S : f[s] = t
  PROVE  IsFiniteSet(T) /\ Cardinality(T) = Cardinality(S)
<1>1. f \in Fin!Bijection(S, T)
  BY DEF Fin!Bijection, Fin!Injection, Fin!IsInjective, Fin!Surjection
<1>2. Fin!ExistsBijection(S, T)
  BY Zenon, <1>1 DEF Fin!ExistsBijection
<1>3. QED
  BY Zenon, <1>2, SameCardinality, Fin!FS_Bijection

-----------------------------------------------------------------------------
(* Counting the elements of a sequence.                                    *)

\* The positions counted by Count are finitely many.
LEMMA CountType ==
  ASSUME NEW S, NEW s \in Seq(S), NEW T
  PROVE  /\ IsFiniteSet({i \in 1..Len(s) : s[i] \in T})
         /\ Count(s, T) \in Nat
<1>1. IsFiniteSet(1..Len(s))
  BY FiniteInterval
<1>2. {i \in 1..Len(s) : s[i] \in T} \in SUBSET (1..Len(s))
  OBVIOUS
<1>3. QED
  BY <1>1, <1>2, CardinalitySubset, CardinalityType DEF Count

\* Appending an element adds one exactly when it is one of those counted.
LEMMA CountAppend ==
  ASSUME NEW S, NEW s \in Seq(S), NEW e \in S, NEW T
  PROVE  Count(Append(s, e), T) = Count(s, T) + IF e \in T THEN 1 ELSE 0
<1> DEFINE A == {i \in 1..Len(s) : s[i] \in T}
           n == Len(s) + 1
           B == {i \in 1..Len(Append(s, e)) : Append(s, e)[i] \in T}
<1>1. /\ Len(s) \in Nat
      /\ Len(Append(s, e)) = n
      /\ Append(s, e)[n] = e
      /\ \A i \in 1..Len(s) : Append(s, e)[i] = s[i]
  OBVIOUS
<1>2. IsFiniteSet(A) /\ Cardinality(A) \in Nat
  <2>1. IsFiniteSet(A)
    BY Zenon, CountType
  <2> HIDE DEF A
  <2>2. QED
    BY Zenon, <2>1, CardinalityType
<1>3. n \notin A
  BY <1>1
<1>4. CASE e \in T
  <2>1. B = A \cup {n}
    BY <1>1, <1>4
  <2>2. QED
    BY Zenon, <1>2, <1>3, <1>4, <2>1, CardinalityAdd DEF Count
<1>5. CASE e \notin T
  <2>1. B = A
    BY <1>1, <1>5
  <2>2. Count(Append(s, e), T) = Cardinality(B) /\ Count(s, T) = Cardinality(A)
    BY Zenon DEF Count
  <2> HIDE DEF A, B
  <2>3. QED
    BY <1>2, <1>5, <2>1, <2>2
<1>6. QED
  BY Zenon, <1>4, <1>5

\* Removing the head takes one away exactly when it is one of those counted.
LEMMA CountTail ==
  ASSUME NEW S, NEW s \in Seq(S), s # << >>, NEW T
  PROVE  Count(s, T) = Count(Tail(s), T) + IF Head(s) \in T THEN 1 ELSE 0
<1> DEFINE t == Tail(s)
           A == {i \in 1..Len(t) : t[i] \in T}
           C == {i \in 2..Len(s) : s[i] \in T}
           B == {i \in 1..Len(s) : s[i] \in T}
           shift == [i \in A |-> i + 1]
<1>1. /\ Len(s) \in Nat \ {0}
      /\ t \in Seq(S)
      /\ Len(t) = Len(s) - 1
      /\ \A i \in 1..Len(t) : t[i] = s[i + 1]
      /\ Head(s) = s[1]
  OBVIOUS
<1>2. IsFiniteSet(A) /\ Cardinality(A) \in Nat /\ IsFiniteSet(B)
  <2>1. IsFiniteSet(A) /\ IsFiniteSet(B)
    BY Zenon, <1>1, CountType
  <2> HIDE DEF A, B
  <2>2. QED
    BY Zenon, <2>1, CardinalityType
<1>3. IsFiniteSet(C) /\ Cardinality(C) = Cardinality(A)
  <2>1. shift \in [A -> C]
    BY <1>1
  <2>2. \A a, b \in A : shift[a] = shift[b] => a = b
    BY <1>1
  <2>3. \A c \in C : \E a \in A : shift[a] = c
    <3> SUFFICES ASSUME NEW c \in C PROVE c - 1 \in A /\ shift[c - 1] = c
      BY Zenon
    <3>1. c - 1 \in A
      BY <1>1
    <3>2. QED
      BY <3>1
  <2> HIDE DEF shift, A, C
  <2>4. QED
    BY Zenon, <1>2, <2>1, <2>2, <2>3, CardinalityBijection
<1>5. 1 \notin C
  OBVIOUS
<1>6. CASE Head(s) \in T
  <2>1. B = C \cup {1}
    BY <1>1, <1>6
  <2> HIDE DEF shift, A, C, B
  <2>2. Cardinality(B) = Cardinality(A) + 1
    BY <1>2, <1>3, <1>5, <2>1, CardinalityAdd
  <2>3. QED
    BY Zenon, <1>6, <2>2 DEF Count, A, B
<1>7. CASE Head(s) \notin T
  <2>1. B = C
    BY <1>1, <1>7
  <2>2. Count(s, T) = Cardinality(B) /\ Count(t, T) = Cardinality(A)
    BY Zenon DEF Count
  <2> HIDE DEF shift, A, C, B
  <2>3. QED
    BY <1>2, <1>3, <1>7, <2>1, <2>2
<1>8. QED
  BY <1>6, <1>7

-----------------------------------------------------------------------------
(* The deny count.                                                         *)

\* The deny count and the log agree at every moment: a written deny line is counted
\* or its reader stands before noteDeny, and nothing else is counted, whichever
\* appends fail and however the readers interleave.
THEOREM DenyCountExact == Spec => []CountMatchesLog
<1> DEFINE Noting == {f \in Family : pc[f] = "note"}
           D == [seq : Nat, kind : Family]
           Exact == denyCount + Cardinality(Noting) = Count(log, D)
<1>1. Init => CountMatchesLog
  <2> SUFFICES ASSUME Init PROVE Exact
    BY Zenon DEF CountMatchesLog, DenyLines
  <2>1. Noting = {} /\ denyCount = 0 /\ log = << >>
    BY DEF Init, Family, Writers
  <2>2. {i \in 1..Len(log) : log[i] \in D} = {}
    BY <2>1
  <2>3. Count(log, D) = 0 /\ Cardinality(Noting) = 0
    BY Zenon, <2>1, <2>2, CardinalityEmpty DEF Count
  <2> HIDE DEF Noting, D
  <2>4. QED
    BY <2>1, <2>3
<1>2. TypeInv /\ CountMatchesLog /\ [Next]_vars => CountMatchesLog'
  <2> SUFFICES ASSUME TypeInv, CountMatchesLog, [Next]_vars, logging' PROVE Exact'
    BY Zenon DEF CountMatchesLog, DenyLines
  <2> USE DEF kernelVars, dedupVars, logVars, stopVars, readerVars
  <2>t. /\ Family \subseteq Writers /\ "other" \in Writers \ Family
        /\ pc \in [Writers -> PCs]
        /\ denyCount \in Nat
        /\ log \in Seq([seq : Nat, kind : Writers])
        /\ num \in [Writers -> Nat]
    BY Zenon DEF TypeInv, TypeOK, Writers, Family
  <2>f. IsFiniteSet(Noting) /\ Cardinality(Noting) \in Nat
    <3>1. IsFiniteSet(Family)
      <4>1. Family = ({} \cup {"cgroup"}) \cup {"lsm"}
        BY DEF Family
      <4>2. QED
        BY Zenon, <4>1, CardinalityEmpty, CardinalityAdd
    <3>2. Noting \in SUBSET Family
      OBVIOUS
    <3>3. QED
      BY <3>1, <3>2, CardinalitySubset, CardinalityType
  <2>c. Count(log, D) \in Nat
    BY Zenon, <2>t, CountType
  <2>1. ASSUME logging PROVE Exact
    BY Zenon, <2>1 DEF CountMatchesLog, DenyLines
  <2>l. logging
    BY Zenon DEF Next, Reader, Writer, Stop, Tick, EmitDenyEvent, ReadRecord, Corroborate,
       DecideEmit, NoteDeny, OtherEvent, LockAndNumber, AppendLine, AppendFails,
       ReaderExits, CancelRun, CloseReader, Join, ReportLosses, vars
  <2>e. Exact
    BY Zenon, <2>1, <2>l
  <2>2. ASSUME denyCount' = denyCount, log' = log,
               \A f \in Family : pc'[f] = "note" <=> pc[f] = "note"
        PROVE Exact'
    <3>1. Noting' = Noting
      BY Zenon, <2>2
    <3> HIDE DEF Noting, D
    <3>2. QED
      BY <2>e, <2>2, <3>1
  <2>3. ASSUME NEW f \in Family, NoteDeny(f) PROVE Exact'
    <3>1. denyCount' = denyCount + 1 /\ log' = log
          /\ pc[f] = "note" /\ pc' = [pc EXCEPT ![f] = "read"]
      BY Zenon, <2>3 DEF NoteDeny, NextRecord
    <3>2. Noting' = Noting \ {f} /\ f \in Noting
      BY Zenon, <2>t, <3>1
    <3> HIDE DEF Noting, D
    <3>3. Cardinality(Noting') = Cardinality(Noting) - 1
      BY Zenon, <2>f, <3>2, CardinalityRemove
    <3>4. QED
      BY <2>e, <2>t, <2>f, <2>c, <3>1, <3>3
  <2>4. ASSUME NEW w \in Writers, AppendLine(w) PROVE Exact'
    <3> DEFINE line == [seq |-> num[w], kind |-> w]
    <3>1. /\ denyCount' = denyCount
          /\ log' = Append(log, line)
          /\ pc[w] = "append"
          /\ pc' = [pc EXCEPT ![w] = IF w \in Family THEN "note" ELSE "read"]
      BY Zenon, <2>4 DEF AppendLine
    <3>2. line \in [seq : Nat, kind : Writers] /\ (line \in D <=> w \in Family)
      BY Zenon, <2>t
    <3>3. Noting' = (IF w \in Family THEN Noting \cup {w} ELSE Noting) /\ w \notin Noting
      BY <2>t, <3>1
    <3> HIDE DEF Noting, D, line
    <3>4. Count(log', D) = Count(log, D) + IF w \in Family THEN 1 ELSE 0
      <4> DEFINE S == [seq : Nat, kind : Writers]
      <4>1. log \in Seq(S) /\ line \in S
        BY <2>t, <3>2
      <4> HIDE DEF S
      <4>2. Count(Append(log, line), D) = Count(log, D) + IF line \in D THEN 1 ELSE 0
        BY <4>1, CountAppend
      <4>3. QED
        BY <3>1, <3>2, <4>2
    <3>5. Cardinality(Noting') = Cardinality(Noting) + IF w \in Family THEN 1 ELSE 0
      <4>1. Cardinality(Noting \cup {w}) = Cardinality(Noting) + 1
        BY Zenon, <2>f, <3>3, CardinalityAdd
      <4>2. QED
        BY <2>f, <3>3, <4>1
    <3>6. QED
      BY <2>e, <2>t, <2>f, <2>c, <3>1, <3>4, <3>5
  <2>5. ASSUME NEW f \in Family, ReadRecord(f) \/ Corroborate(f) PROVE Exact'
    BY Zenon, <2>2, <2>5, <2>t DEF ReadRecord, Corroborate, NextRecord
  <2>6. ASSUME NEW f \in Family, DecideEmit(f) PROVE Exact'
    BY <2>2, <2>6, <2>t, <2>l DEF DecideEmit
  <2>7. ASSUME NEW w \in Writers, LockAndNumber(w) \/ AppendFails(w) \/ ReaderExits(w)
        PROVE Exact'
    BY Zenon, <2>2, <2>7, <2>t DEF LockAndNumber, AppendFails, ReaderExits, NextRecord
  <2>8. CASE OtherEvent
    BY <2>2, <2>8, <2>t DEF OtherEvent
  <2>9. CASE Tick \/ CancelRun \/ Stop \/ UNCHANGED vars
    BY Zenon, <2>2, <2>9 DEF Tick, CancelRun, Stop, CloseReader, Join, ReportLosses, vars
  <2>10. ASSUME NEW f \in Family, NEW k \in Keys, EmitDenyEvent(f, k) PROVE Exact'
    BY <2>2, <2>10 DEF EmitDenyEvent
  <2> HIDE DEF Noting, D
  <2>11. QED
    BY <2>3, <2>4, <2>5, <2>6, <2>7, <2>8, <2>9, <2>10 DEF Next, Reader, Writer
<1>3. QED
  BY <1>1, <1>2, TypeInvariant, PTL DEF Spec

-----------------------------------------------------------------------------
(* The books of a key: fired, lost, waiting, held, ruled on.               *)

\* What one step does to the books of a family: either no key's balance changes, or a
\* reservation fails, is counted, and one key lacks one record more.
Balanced(f) ==
  /\ reserveFailures'[f] = reserveFailures[f]
  /\ \A k \in Keys : Missing(f, k)' = Missing(f, k)
Loses(f) ==
  /\ reserveFailures'[f] = reserveFailures[f] + 1
  /\ \E q \in Keys : \A k \in Keys :
       Missing(f, k)' = Missing(f, k) + IF k = q THEN 1 ELSE 0

\* The terms of the balance are numbers.
LEMMA BooksType ==
  ASSUME TypeInv, NEW f \in Family, NEW k \in Keys
  PROVE  /\ ring[f] \in Seq(Keys)
         /\ InRing(f, k) \in Nat
         /\ Undecided(f, k) \in {0, 1}
         /\ fired[f][k] \in Nat /\ emitted[f][k] \in Nat /\ corroborated[f][k] \in Nat
         /\ Ruled(f, k) \in Nat
         /\ reserveFailures[f] \in Nat
         /\ Missing(f, k) \in Int
<1>1. /\ ring[f] \in Seq(Keys)
      /\ fired[f][k] \in Nat /\ emitted[f][k] \in Nat /\ corroborated[f][k] \in Nat
      /\ reserveFailures[f] \in Nat
  BY DEF TypeInv, TypeOK
<1>2. InRing(f, k) \in Nat
  BY Zenon, <1>1, CountType DEF InRing
<1>3. Undecided(f, k) \in {0, 1}
  BY DEF Undecided
<1>4. Ruled(f, k) \in Nat
  <2> DEFINE e == emitted[f][k]
             c == corroborated[f][k]
  <2>1. Ruled(f, k) = e + c /\ e \in Nat /\ c \in Nat
    BY Zenon, <1>1 DEF Ruled
  <2> HIDE DEF e, c
  <2>2. QED
    BY <2>1
<1>5. QED
  BY <1>1, <1>2, <1>3, <1>4 DEF Missing

\* A hook that finds room puts its record in the ring; one that does not is counted.
LEMMA EmitBooks ==
  ASSUME TypeInv, NEW g \in Family, NEW q \in Keys, EmitDenyEvent(g, q),
         NEW f \in Family
  PROVE  Balanced(f) \/ Loses(f)
<1>t. /\ fired \in [Family -> [Keys -> Nat]]
      /\ ring \in [Family -> Seq(Keys)]
      /\ reserveFailures \in [Family -> Nat]
  BY Zenon DEF TypeInv, TypeOK
<1>1. /\ fired' = [fired EXCEPT ![g] = [fired[g] EXCEPT ![q] = fired[g][q] + 1]]
      /\ emitted' = emitted /\ corroborated' = corroborated
      /\ pc' = pc /\ held' = held
  BY Zenon DEF EmitDenyEvent, readerVars, dedupVars
<1>2. \A k \in Keys : Undecided(f, k)' = Undecided(f, k) /\ Ruled(f, k)' = Ruled(f, k)
  BY Zenon, <1>1 DEF Undecided, Ruled
<1>3. \A k \in Keys : fired'[f][k] = fired[f][k] + IF f = g /\ k = q THEN 1 ELSE 0
  BY <1>1, <1>t
<1>4. CASE f # g
  <2>1. ring'[f] = ring[f] /\ reserveFailures'[f] = reserveFailures[f]
    BY Zenon, <1>4, <1>t DEF EmitDenyEvent
  <2>2. \A k \in Keys : fired'[f][k] = fired[f][k] /\ InRing(f, k)' = InRing(f, k)
    BY <1>1, <1>4, <1>t, <2>1 DEF InRing
  <2>3. QED
    BY <1>2, <2>1, <2>2 DEF Balanced, Missing
<1>5. CASE f = g /\ Len(ring[g]) < RingCap
  <2>1. /\ ring'[f] = Append(ring[f], q) /\ ring[f] \in Seq(Keys)
        /\ reserveFailures'[f] = reserveFailures[f]
    BY <1>5, <1>t, ConstantsAssumption DEF EmitDenyEvent
  <2>2. ASSUME NEW k \in Keys PROVE InRing(f, k)' = InRing(f, k) + IF k = q THEN 1 ELSE 0
    <3>1. Count(Append(ring[f], q), {k}) = Count(ring[f], {k}) + IF q \in {k} THEN 1 ELSE 0
      BY <2>1, CountAppend
    <3>2. QED
      BY Zenon, <2>1, <3>1 DEF InRing
  <2>3. ASSUME NEW k \in Keys PROVE Missing(f, k)' = Missing(f, k)
    <3>1. InRing(f, k) \in Nat /\ Undecided(f, k) \in {0, 1} /\ fired[f][k] \in Nat /\ Ruled(f, k) \in Nat
      BY Zenon, BooksType
    <3>2. /\ fired'[f][k] = fired[f][k] + IF k = q THEN 1 ELSE 0
          /\ Undecided(f, k)' = Undecided(f, k) /\ Ruled(f, k)' = Ruled(f, k)
          /\ InRing(f, k)' = InRing(f, k) + IF k = q THEN 1 ELSE 0
      BY <1>2, <1>3, <1>5, <2>2
    <3>3. QED
      BY <3>1, <3>2 DEF Missing
  <2>4. QED
    BY Zenon, <2>1, <2>3 DEF Balanced
<1>6. CASE f = g /\ ~ Len(ring[g]) < RingCap
  <2>1. ring'[f] = ring[f] /\ reserveFailures'[f] = reserveFailures[f] + 1
    BY Zenon, <1>6, <1>t DEF EmitDenyEvent
  <2>2. ASSUME NEW k \in Keys
        PROVE Missing(f, k)' = Missing(f, k) + IF k = q THEN 1 ELSE 0
    <3>1. InRing(f, k)' = InRing(f, k)
      BY Zenon, <2>1 DEF InRing
    <3>2. InRing(f, k) \in Nat /\ Undecided(f, k) \in {0, 1} /\ fired[f][k] \in Nat /\ Ruled(f, k) \in Nat
      BY BooksType
    <3>3. /\ fired'[f][k] = fired[f][k] + IF k = q THEN 1 ELSE 0
          /\ Undecided(f, k)' = Undecided(f, k) /\ Ruled(f, k)' = Ruled(f, k)
      BY <1>2, <1>3, <1>6
    <3>4. QED
      BY <3>1, <3>2, <3>3 DEF Missing
  <2>3. QED
    BY Zenon, <2>1, <2>2 DEF Loses
<1>7. QED
  BY Zenon, <1>4, <1>5, <1>6

\* Reading moves one record from the ring into the reader's hands.
LEMMA ReadBooks ==
  ASSUME TypeInv, NEW g \in Family, ReadRecord(g), NEW f \in Family
  PROVE  Balanced(f)
<1>t. /\ ring \in [Family -> Seq(Keys)]
      /\ pc \in [Writers -> PCs] /\ Family \subseteq Writers
      /\ held \in [Family -> Records \cup {Absent}]
  BY Zenon DEF TypeInv, TypeOK, Writers
<1>1. /\ fired' = fired /\ emitted' = emitted /\ corroborated' = corroborated
      /\ reserveFailures' = reserveFailures
      /\ pc[g] = "read" /\ ring[g] # << >>
      /\ pc' = [pc EXCEPT ![g] = "decide"]
      /\ held' = [held EXCEPT ![g] = [key |-> Head(ring[g]), now |-> clock]]
      /\ ring' = [ring EXCEPT ![g] = Tail(ring[g])]
  BY Zenon DEF ReadRecord, dedupVars
<1>2. \A k \in Keys : Ruled(f, k)' = Ruled(f, k)
  BY Zenon, <1>1 DEF Ruled
<1>3. CASE f # g
  <2>1. ring'[f] = ring[f] /\ pc'[f] = pc[f] /\ held'[f] = held[f]
    BY Zenon, <1>1, <1>3, <1>t
  <2>2. \A k \in Keys : InRing(f, k)' = InRing(f, k) /\ Undecided(f, k)' = Undecided(f, k)
    BY Zenon, <2>1 DEF InRing, Undecided
  <2>3. QED
    BY Zenon, <1>1, <1>2, <2>2 DEF Balanced, Missing
<1>4. CASE f = g
  <2>1. /\ ring[f] \in Seq(Keys) /\ ring[f] # << >> /\ ring'[f] = Tail(ring[f])
        /\ pc[f] = "read" /\ pc'[f] = "decide" /\ held'[f].key = Head(ring[f])
    BY <1>1, <1>4, <1>t
  <2>2. ASSUME NEW k \in Keys PROVE Missing(f, k)' = Missing(f, k)
    <3>1. Count(ring[f], {k}) = Count(Tail(ring[f]), {k})
                                 + IF Head(ring[f]) \in {k} THEN 1 ELSE 0
      BY Zenon, <2>1, CountTail
    <3>2. Tail(ring[f]) \in Seq(Keys)
      BY <2>1
    <3>3. Count(Tail(ring[f]), {k}) \in Nat
      BY Zenon, <3>2, CountType
    <3>4. /\ InRing(f, k) = InRing(f, k)' + IF Head(ring[f]) = k THEN 1 ELSE 0
          /\ InRing(f, k)' \in Nat
      BY <2>1, <3>1, <3>3 DEF InRing
    <3>5. Undecided(f, k) = 0 /\ Undecided(f, k)' = IF Head(ring[f]) = k THEN 1 ELSE 0
      BY Zenon, <2>1 DEF Undecided
    <3>6. InRing(f, k) \in Nat /\ Undecided(f, k) \in {0, 1} /\ fired[f][k] \in Nat /\ Ruled(f, k) \in Nat
      BY Zenon, BooksType
    <3> DEFINE n == fired[f][k]
               a == InRing(f, k)
               b == InRing(f, k)'
               r == Ruled(f, k)
               one == IF Head(ring[f]) = k THEN 1 ELSE 0
    <3>7. Missing(f, k) = n - a - 0 - r /\ Missing(f, k)' = n - b - one - r
      BY Zenon, <1>1, <1>2, <3>5 DEF Missing
    <3>8. n \in Nat /\ a \in Nat /\ b \in Nat /\ r \in Nat /\ one \in Nat /\ a = b + one
      BY Zenon, <3>4, <3>6
    <3> HIDE DEF n, a, b, r, one
    <3>9. QED
      BY <3>7, <3>8
  <2>3. QED
    BY Zenon, <1>1, <2>2 DEF Balanced
<1>5. QED
  BY Zenon, <1>3, <1>4

\* A ruling moves one record from the reader's hands to the rulings of its key.
LEMMA RuleBooks ==
  ASSUME TypeInv, NEW g \in Family, Corroborate(g) \/ DecideEmit(g), NEW f \in Family
  PROVE  Balanced(f)
<1> DEFINE q == held[g].key
<1>t. /\ pc \in [Writers -> PCs] /\ Family \subseteq Writers
      /\ held \in [Family -> Records \cup {Absent}]
      /\ emitted \in [Family -> [Keys -> Nat]] /\ corroborated \in [Family -> [Keys -> Nat]]
  BY Zenon DEF TypeInv, TypeOK, Writers
<1>1. /\ fired' = fired /\ ring' = ring /\ reserveFailures' = reserveFailures
      /\ pc[g] = "decide" /\ pc'[g] # "decide"
      /\ \A h \in Family \ {g} : pc'[h] = pc[h] /\ held'[h] = held[h]
  BY Zenon, <1>t DEF Corroborate, DecideEmit, NextRecord, kernelVars
<1>2. q \in Keys
  BY Zenon, <1>1 DEF TypeInv, HoldsRecord, Records
<1>3. \/ /\ corroborated' = [corroborated EXCEPT ![g] =
                               [corroborated[g] EXCEPT ![q] = corroborated[g][q] + 1]]
         /\ emitted' = emitted
      \/ /\ emitted' = [emitted EXCEPT ![g] = [emitted[g] EXCEPT ![q] = emitted[g][q] + 1]]
         /\ corroborated' = corroborated
  BY Zenon DEF Corroborate, DecideEmit
<1>4. ASSUME NEW k \in Keys
      PROVE  Undecided(g, k) = (IF k = q THEN 1 ELSE 0) /\ Undecided(g, k)' = 0
  BY Zenon, <1>1 DEF Undecided
<1> HIDE DEF q
<1>5. ASSUME NEW k \in Keys
      PROVE  emitted'[f][k] + corroborated'[f][k]
               = emitted[f][k] + corroborated[f][k] + IF f = g /\ k = q THEN 1 ELSE 0
  <2>1. CASE f = g /\ k = q
    BY <1>2, <1>3, <1>t, <2>1
  <2>2. CASE ~ (f = g /\ k = q)
    <3>1. emitted'[f][k] = emitted[f][k] /\ corroborated'[f][k] = corroborated[f][k]
      BY <1>2, <1>3, <1>t, <2>2
    <3>2. QED
      BY <1>t, <2>2, <3>1
  <2>3. QED
    BY Zenon, <2>1, <2>2
<1>6. ASSUME NEW k \in Keys PROVE Missing(f, k)' = Missing(f, k)
  <2>1. InRing(f, k)' = InRing(f, k) /\ fired'[f][k] = fired[f][k]
    BY Zenon, <1>1 DEF InRing
  <2>2. Ruled(f, k)' = Ruled(f, k) + IF f = g /\ k = q THEN 1 ELSE 0
    BY Zenon, <1>5 DEF Ruled
  <2>t. InRing(f, k) \in Nat /\ Undecided(f, k) \in {0, 1} /\ fired[f][k] \in Nat /\ Ruled(f, k) \in Nat
    BY Zenon, BooksType
  <2> DEFINE one == IF f = g /\ k = q THEN 1 ELSE 0
             n == fired[f][k]
             a == InRing(f, k)
             r == Ruled(f, k)
             u == Undecided(f, k)
             v == Undecided(f, k)'
  <2>3. u = v + one /\ v \in Nat
    <3>1. CASE f = g
      BY <1>4, <3>1
    <3>2. CASE f # g
      <4>1. u = v
        BY Zenon, <1>1, <3>2 DEF Undecided
      <4>2. QED
        BY <2>t, <3>2, <4>1
    <3>3. QED
      BY Zenon, <3>1, <3>2
  <2>4. Missing(f, k) = n - a - u - r /\ Missing(f, k)' = n - a - v - (r + one)
    BY Zenon, <2>1, <2>2 DEF Missing
  <2>5. n \in Nat /\ a \in Nat /\ r \in Nat /\ one \in Nat
    BY Zenon, <2>t
  <2> HIDE DEF one, n, a, r, u, v
  <2>6. QED
    BY <2>3, <2>4, <2>5
<1>7. QED
  BY Zenon, <1>1, <1>6 DEF Balanced

\* No step but a failed reservation changes the balance of any key.
LEMMA StepBooks ==
  ASSUME TypeInv, [Next]_vars, NEW f \in Family
  PROVE  Balanced(f) \/ Loses(f)
<1> USE DEF kernelVars, dedupVars, logVars, stopVars, readerVars
<1>t. pc \in [Writers -> PCs] /\ Family \subseteq Writers
      /\ held \in [Family -> Records \cup {Absent}] /\ "other" \notin Family
  BY Zenon DEF TypeInv, TypeOK, Writers, Family
<1>1. ASSUME UNCHANGED <<kernelVars, emitted, corroborated>>,
             \/ pc'[f] = pc[f] /\ held'[f] = held[f]
             \/ pc[f] # "decide" /\ pc'[f] # "decide"
      PROVE  Balanced(f)
  <2>1. ASSUME NEW k \in Keys PROVE Missing(f, k)' = Missing(f, k)
    <3>1. Undecided(f, k)' = Undecided(f, k)
      BY Zenon, <1>1 DEF Undecided
    <3>2. InRing(f, k)' = InRing(f, k) /\ Ruled(f, k)' = Ruled(f, k)
          /\ fired'[f][k] = fired[f][k]
      BY Zenon, <1>1 DEF InRing, Ruled
    <3>3. QED
      BY Zenon, <3>1, <3>2 DEF Missing
  <2>2. QED
    BY Zenon, <1>1, <2>1 DEF Balanced
<1>2. ASSUME NEW g \in Family, NoteDeny(g) PROVE Balanced(f)
  BY Zenon, <1>1, <1>2, <1>t DEF NoteDeny, NextRecord
<1>3. ASSUME NEW w \in Writers, Writer(w) PROVE Balanced(f)
  <2>1. /\ UNCHANGED <<kernelVars, emitted, corroborated>>
        /\ pc[w] \in {"lock", "append", "read"} /\ pc'[w] # "decide"
        /\ \A h \in Family \ {w} : pc'[h] = pc[h] /\ held'[h] = held[h]
    BY Zenon, <1>3, <1>t DEF Writer, LockAndNumber, AppendLine, AppendFails, ReaderExits, NextRecord
  <2>2. QED
    BY Zenon, <1>1, <2>1
<1>4. CASE Tick \/ OtherEvent \/ CancelRun \/ Stop \/ UNCHANGED vars
  <2>1. UNCHANGED <<kernelVars, emitted, corroborated>> /\ pc'[f] = pc[f] /\ held' = held
    BY Zenon, <1>4, <1>t
    DEF Tick, OtherEvent, CancelRun, Stop, CloseReader, Join, ReportLosses, vars
  <2>2. QED
    BY Zenon, <1>1, <2>1
<1>5. QED
  BY <1>2, <1>3, <1>4, EmitBooks, ReadBooks, RuleBooks DEF Next, Reader

\* No deny disappears uncounted between the hook and the dedup decision, for any
\* number of keys and denies and any ring size: what the readers never see is a
\* failed reservation that was counted, and a counted failure is a deny missing.
THEOREM DeniesAccounted == Spec => []EveryDenyAccounted
<1>1. Init => EveryDenyAccounted
  <2> SUFFICES ASSUME Init, NEW f \in Family
               PROVE  reserveFailures[f] = 0 /\ \A k \in Keys : Missing(f, k) = 0
    BY DEF EveryDenyAccounted
  <2>1. /\ reserveFailures[f] = 0 /\ ring[f] = << >> /\ pc[f] # "decide"
        /\ \A k \in Keys : fired[f][k] = 0 /\ emitted[f][k] = 0 /\ corroborated[f][k] = 0
    BY Zenon DEF Init, Zero, Writers
  <2>2. ASSUME NEW k \in Keys PROVE Missing(f, k) = 0
    <3>1. {i \in 1..Len(ring[f]) : ring[f][i] \in {k}} = {}
      BY <2>1
    <3>2. InRing(f, k) = 0
      BY Zenon, <3>1, CardinalityEmpty DEF InRing, Count
    <3>3. Undecided(f, k) = 0 /\ Ruled(f, k) = 0
      BY <2>1 DEF Undecided, Ruled
    <3>4. QED
      BY <2>1, <3>2, <3>3 DEF Missing
  <2>3. QED
    BY Zenon, <2>1, <2>2
<1>2. TypeInv /\ EveryDenyAccounted /\ [Next]_vars => EveryDenyAccounted'
  <2> SUFFICES ASSUME TypeInv, EveryDenyAccounted, [Next]_vars, NEW f \in Family
               PROVE  /\ \A k \in Keys : Missing(f, k)' >= 0
                                         /\ Missing(f, k)' <= reserveFailures'[f]
                      /\ reserveFailures'[f] > 0 => \E k \in Keys : Missing(f, k)' > 0
    BY Zenon DEF EveryDenyAccounted
  <2>1. /\ reserveFailures[f] \in Nat
        /\ \A k \in Keys : Missing(f, k) \in Int
    <3>1. reserveFailures[f] \in Nat
      BY Zenon DEF TypeInv, TypeOK
    <3>2. QED
      BY Zenon, <3>1, BooksType
  <2>2. /\ \A k \in Keys : Missing(f, k) >= 0 /\ Missing(f, k) <= reserveFailures[f]
        /\ reserveFailures[f] > 0 => \E k \in Keys : Missing(f, k) > 0
    BY Zenon DEF EveryDenyAccounted
  <2>3. CASE Balanced(f)
    BY Zenon, <2>2, <2>3 DEF Balanced
  <2>4. CASE Loses(f)
    BY <2>1, <2>2, <2>4 DEF Loses
  <2>5. QED
    BY <2>3, <2>4, StepBooks
<1>3. QED
  BY <1>1, <1>2, TypeInvariant, PTL DEF Spec
=============================================================================
