---------------------------- MODULE DenyPipeline ----------------------------
(***************************************************************************)
(* The path of a deny event, from the eBPF hook that refused a connect() or *)
(* sendmsg() to its line in the JSONL event log:                           *)
(*                                                                         *)
(*   hook (cgroup or LSM) -> ring buffer of that hook family               *)
(*     -> one reader goroutine per family (readDenyRing)                   *)
(*     -> cross-layer dedup shared by the readers (shouldEmitDeny)         *)
(*     -> sequence number and log line under jsonlMu -> noteDeny           *)
(*     -> shutdown: close the rings, join the readers, report the losses   *)
(*                                                                         *)
(* A key stands for the code's {tgid, tid, dst, dport, protocol}.  Time is *)
(* the wall clock in ticks; Window is denyDedupWindow in the same unit.    *)
(***************************************************************************)
EXTENDS Integers, Sequences, FiniteSets

CONSTANTS
  Keys,         \* the deny dedup keys
  RingCap,      \* records a deny ring buffer holds
  Window,       \* denyDedupWindow
  DedupCap,     \* denyDedupMaxEntries
  MaxDenies,    \* bound: denies of a run
  MaxOther,     \* bound: sequence numbers up to which other readers log
  MaxClock,     \* bound: the wall clock
  ClockSteps,   \* may the wall clock step backward (NTP, VM adjust)?
  Absent        \* no dedup entry for a key, no record held by a reader

ASSUME ConstantsAssumption ==
  /\ RingCap \in Nat \ {0}
  /\ Window \in Nat
  /\ DedupCap \in Nat
  /\ MaxDenies \in Nat
  /\ MaxOther \in Nat
  /\ MaxClock \in Nat
  /\ ClockSteps \in BOOLEAN
  /\ Absent \notin [family : {"cgroup", "lsm"}, nano : Int]
  /\ Absent \notin [key : Keys, now : Int]

Family == {"cgroup", "lsm"}
Writers == Family \cup {"other"}

VARIABLES
  hasLSM,           \* the LSM hooks attached, so both families fire
  logging,          \* cfg.EventsLogPath is set
  clock,            \* the wall clock
  ring,             \* records submitted and not yet read, per family
  reserveFailures,  \* per-family count of failed ring reservations
  pc,               \* where each writer goroutine is
  held,             \* the record each deny reader works on: its key, and the
                    \* time.Now() taken for it
  num,              \* the sequence number each writer is about to log
  dedup,            \* defendState.denyDedup
  mu,               \* holder of jsonlMu, "free" when unlocked
  seq,              \* SeqGen.next
  log,              \* the JSONL file, as the numbers and kinds of its lines
  denyCount,        \* defendState.denyCountN
  corroborated,     \* defendState.denyCorroboratedN, split by family and key
  phase,            \* progress of the shutdown
  closed,           \* deny ring readers closed so far
  reported,         \* dropped_events["deny"] of the shutdown meta event
  fired,            \* history: denies per family and key
  denies,           \* and in all
  emitted           \* history: decisions to emit, per family and key

readerVars == <<pc, held, num>>
kernelVars == <<ring, reserveFailures, fired, denies>>
dedupVars == <<dedup, corroborated, emitted>>
logVars == <<mu, seq, log, denyCount>>
stopVars == <<phase, closed, reported>>
vars == <<hasLSM, logging, clock, readerVars, kernelVars, dedupVars, logVars,
          stopVars>>

Entries == [family : Family, nano : Int]
Records == [key : Keys, now : Int]
PCs == {"read", "decide", "lock", "append", "note", "exit"}
Phases == {"running", "cancelled", "joined", "done"}

Zero == [f \in Family |-> [k \in Keys |-> 0]]

Init ==
  /\ hasLSM \in BOOLEAN
  /\ logging \in BOOLEAN
  /\ clock = 0
  /\ ring = [f \in Family |-> << >>]
  /\ reserveFailures = [f \in Family |-> 0]
  /\ pc = [w \in Writers |-> IF w = "lsm" /\ ~hasLSM THEN "exit" ELSE "read"]
  /\ held = [f \in Family |-> Absent]
  /\ num = [w \in Writers |-> 0]
  /\ dedup = [k \in Keys |-> Absent]
  /\ mu = "free"
  /\ seq = 0
  /\ log = << >>
  /\ denyCount = 0
  /\ corroborated = Zero
  /\ phase = "running"
  /\ closed = {}
  /\ reported = 0
  /\ fired = Zero
  /\ denies = 0
  /\ emitted = Zero

-----------------------------------------------------------------------------
(* The kernel side.                                                        *)

\* Advance the wall clock, or step it back when the model allows that.
Tick ==
  /\ phase = "running"
  /\ \/ clock < MaxClock /\ clock' = clock + 1
     \/ ClockSteps /\ clock > 0 /\ clock' = clock - 1
  /\ UNCHANGED <<hasLSM, logging, readerVars, kernelVars, dedupVars, logVars,
                 stopVars>>

\* Variation: a failed reservation is not counted.
EmitDenyEventUncounted(f, k) ==
  /\ phase \in {"running", "cancelled"}
  /\ f = "lsm" => hasLSM
  /\ denies < MaxDenies
  /\ denies' = denies + 1
  /\ fired' = [fired EXCEPT ![f][k] = @ + 1]
  /\ ring' = [ring EXCEPT ![f] = IF Len(@) < RingCap THEN Append(@, k) ELSE @]
  /\ UNCHANGED <<hasLSM, logging, clock, readerVars, reserveFailures, dedupVars,
                 logVars, stopVars>>

\* A hook of family f refuses a syscall with key k and emits a deny record;
\* when the ring has no room the loss is counted and the record is gone.
EmitDenyEvent(f, k) ==
  /\ phase \in {"running", "cancelled"}
  /\ f = "lsm" => hasLSM
  /\ denies < MaxDenies
  /\ denies' = denies + 1
  /\ fired' = [fired EXCEPT ![f][k] = @ + 1]
  /\ \/ /\ Len(ring[f]) < RingCap
        /\ ring' = [ring EXCEPT ![f] = Append(@, k)]
        /\ UNCHANGED reserveFailures
     \/ /\ Len(ring[f]) >= RingCap
        /\ reserveFailures' = [reserveFailures EXCEPT ![f] = @ + 1]
        /\ UNCHANGED ring
  /\ UNCHANGED <<hasLSM, logging, clock, readerVars, dedupVars, logVars, stopVars>>

-----------------------------------------------------------------------------
(* The deny readers.                                                       *)

\* rd.Read() returns a record and appendDenyFromRaw stamps it with time.Now(),
\* before it asks the dedup table.
ReadRecord(f) ==
  /\ pc[f] = "read"
  /\ f \notin closed
  /\ ring[f] # << >>
  /\ ring' = [ring EXCEPT ![f] = Tail(@)]
  /\ held' = [held EXCEPT ![f] = [key |-> Head(ring[f]), now |-> clock]]
  /\ pc' = [pc EXCEPT ![f] = "decide"]
  /\ UNCHANGED <<hasLSM, logging, clock, num, reserveFailures, fired, denies, dedupVars,
                 logVars, stopVars>>

\* The reader is done with its record and reads the next one.
NextRecord(w) ==
  /\ pc' = [pc EXCEPT ![w] = "read"]
  /\ held' = [f \in Family |-> IF f = w THEN Absent ELSE held[f]]

\* The entry of key k is one the window still covers at time now.
Fresh(k, now) ==
  /\ dedup[k] # Absent
  /\ now >= dedup[k].nano
  /\ now - dedup[k].nano <= Window

\* Variation: the hook families are not compared.
IsRecent(f, k, now) == Fresh(k, now)

\* A deny of family f for key k is the twin of one the other family emitted.
IsTwin(f, k, now) == Fresh(k, now) /\ dedup[k].family # f

Occupied(table) == {k \in Keys : table[k] # Absent}

\* Variation: pruning empties the table.
Cleared(table, now) ==
  IF Cardinality(Occupied(table)) > DedupCap THEN [k \in Keys |-> Absent] ELSE table

\* pruneDenyDedupLocked, when the table is over its cap.
Pruned(table, now) ==
  IF Cardinality(Occupied(table)) > DedupCap
    THEN [k \in Keys |-> IF table[k] # Absent /\ now - table[k].nano > Window
                           THEN Absent ELSE table[k]]
    ELSE table

\* shouldEmitDeny answers false: fold the deny into the one emitted, keep the
\* emitting family, refresh its time.
Corroborate(f) ==
  LET k == held[f].key
      now == held[f].now
  IN
  /\ pc[f] = "decide"
  /\ IsTwin(f, k, now)
  /\ dedup' = [dedup EXCEPT ![k] = [family |-> dedup[k].family, nano |-> now]]
  /\ corroborated' = [corroborated EXCEPT ![f][k] = @ + 1]
  /\ NextRecord(f)
  /\ UNCHANGED <<hasLSM, logging, clock, num, kernelVars, emitted, logVars,
                 stopVars>>

\* shouldEmitDeny answers true: this deny owns the key from now on.
DecideEmit(f) ==
  LET k == held[f].key
      now == held[f].now
  IN
  /\ pc[f] = "decide"
  /\ ~ IsTwin(f, k, now)
  /\ dedup' = Pruned([dedup EXCEPT ![k] = [family |-> f, nano |-> now]], now)
  /\ emitted' = [emitted EXCEPT ![f][k] = @ + 1]
  /\ pc' = [pc EXCEPT ![f] = IF logging THEN "lock" ELSE "note"]
  /\ UNCHANGED <<hasLSM, logging, clock, held, num, kernelVars, corroborated,
                 logVars, stopVars>>

-----------------------------------------------------------------------------
(* The event log, shared with the readers of every other ring.             *)

\* Another event reader has a record to log.
OtherEvent ==
  /\ pc["other"] = "read"
  /\ phase = "running"
  /\ logging
  /\ seq < MaxOther
  /\ pc' = [pc EXCEPT !["other"] = "lock"]
  /\ UNCHANGED <<hasLSM, logging, clock, held, num, kernelVars, dedupVars,
                 logVars, stopVars>>

\* Variation: the number is drawn before jsonlMu is taken.
NumberUnlocked(w) ==
  /\ pc[w] = "lock"
  /\ mu' = w
  /\ seq' = seq + 1
  /\ num' = [num EXCEPT ![w] = seq + 1]
  /\ pc' = [pc EXCEPT ![w] = "append"]
  /\ UNCHANGED <<hasLSM, logging, clock, held, kernelVars, dedupVars, log,
                 denyCount, stopVars>>

\* jsonlMu.Lock(); seq.Next()
LockAndNumber(w) ==
  /\ pc[w] = "lock"
  /\ mu = "free"
  /\ mu' = w
  /\ seq' = seq + 1
  /\ num' = [num EXCEPT ![w] = seq + 1]
  /\ pc' = [pc EXCEPT ![w] = "append"]
  /\ UNCHANGED <<hasLSM, logging, clock, held, kernelVars, dedupVars, log,
                 denyCount, stopVars>>

\* AppendJSONL succeeds; jsonlMu.Unlock().
AppendLine(w) ==
  /\ pc[w] = "append"
  /\ log' = Append(log, [seq |-> num[w], kind |-> w])
  /\ mu' = "free"
  /\ num' = [num EXCEPT ![w] = 0]
  /\ pc' = [pc EXCEPT ![w] = IF w \in Family THEN "note" ELSE "read"]
  /\ UNCHANGED <<hasLSM, logging, clock, held, kernelVars, dedupVars, seq,
                 denyCount, stopVars>>

\* Variation: the error path returns with jsonlMu held.
AppendFailsLocked(w) ==
  /\ pc[w] = "append"
  /\ num' = [num EXCEPT ![w] = 0]
  /\ NextRecord(w)
  /\ UNCHANGED <<hasLSM, logging, clock, kernelVars, dedupVars, mu, seq, log,
                 denyCount, stopVars>>

\* Variation: a failed append is noted like a written one.
AppendFailsNoted(w) ==
  /\ pc[w] = "append"
  /\ mu' = "free"
  /\ num' = [num EXCEPT ![w] = 0]
  /\ pc' = [pc EXCEPT ![w] = IF w \in Family THEN "note" ELSE "read"]
  /\ UNCHANGED <<hasLSM, logging, clock, held, kernelVars, dedupVars, seq, log,
                 denyCount, stopVars>>

\* AppendJSONL fails; jsonlMu.Unlock(); the sample is skipped with a warning.
AppendFails(w) ==
  /\ pc[w] = "append"
  /\ mu' = "free"
  /\ num' = [num EXCEPT ![w] = 0]
  /\ NextRecord(w)
  /\ UNCHANGED <<hasLSM, logging, clock, kernelVars, dedupVars, seq, log,
                 denyCount, stopVars>>

NoteDeny(f) ==
  /\ pc[f] = "note"
  /\ denyCount' = denyCount + 1
  /\ NextRecord(f)
  /\ UNCHANGED <<hasLSM, logging, clock, num, kernelVars, dedupVars, mu, seq,
                 log, stopVars>>

-----------------------------------------------------------------------------
(* Shutdown.                                                               *)

\* SIGTERM, or a reader that failed, cancels runCtx.
CancelRun ==
  /\ phase = "running"
  /\ phase' = "cancelled"
  /\ UNCHANGED <<hasLSM, logging, clock, readerVars, kernelVars, dedupVars,
                 logVars, closed, reported>>

\* Variation: closeAllReaders forgets the LSM deny ring.
CloseReaderCgroup(f) ==
  /\ phase = "cancelled"
  /\ f = "cgroup"
  /\ f \notin closed
  /\ closed' = closed \cup {f}
  /\ UNCHANGED <<hasLSM, logging, clock, readerVars, kernelVars, dedupVars,
                 logVars, phase, reported>>

\* closeAllReaders closes the cgroup deny ring, then the LSM one.
CloseReader(f) ==
  /\ phase = "cancelled"
  /\ f \notin closed
  /\ f = "lsm" => "cgroup" \in closed
  /\ closed' = closed \cup {f}
  /\ UNCHANGED <<hasLSM, logging, clock, readerVars, kernelVars, dedupVars,
                 logVars, phase, reported>>

\* rd.Read() on a closed ring returns ErrClosed and the goroutine ends; what
\* the ring still held is never read.
ReaderExits(w) ==
  /\ pc[w] = "read"
  /\ IF w \in Family THEN w \in closed ELSE phase = "cancelled"
  /\ pc' = [pc EXCEPT ![w] = "exit"]
  /\ UNCHANGED <<hasLSM, logging, clock, held, num, kernelVars, dedupVars,
                 logVars, stopVars>>

\* wg.Wait() returns; the unwinding cleanup stack detaches the hooks.
Join ==
  /\ phase = "cancelled"
  /\ \A w \in Writers : pc[w] = "exit"
  /\ phase' = "joined"
  /\ UNCHANGED <<hasLSM, logging, clock, readerVars, kernelVars, dedupVars,
                 logVars, closed, reported>>

\* The loadDefend cleanup stores the cgroup count in defendState and then, with
\* LSM, stores the LSM count in the same field; the shutdown meta event reports
\* that field.
ReportLosses ==
  /\ phase = "joined"
  /\ reported' = IF hasLSM THEN reserveFailures["lsm"] ELSE reserveFailures["cgroup"]
  /\ phase' = "done"
  /\ UNCHANGED <<hasLSM, logging, clock, readerVars, kernelVars, dedupVars,
                 logVars, closed>>

-----------------------------------------------------------------------------
Reader(f) ==
  \/ ReadRecord(f)
  \/ Corroborate(f)
  \/ DecideEmit(f)
  \/ NoteDeny(f)

Writer(w) ==
  \/ LockAndNumber(w)
  \/ AppendLine(w)
  \/ AppendFails(w)
  \/ ReaderExits(w)

Stop ==
  \/ \E f \in Family : CloseReader(f)
  \/ Join
  \/ ReportLosses

Next ==
  \/ Tick
  \/ \E f \in Family, k \in Keys : EmitDenyEvent(f, k)
  \/ \E f \in Family : Reader(f)
  \/ OtherEvent
  \/ \E w \in Writers : Writer(w)
  \/ CancelRun
  \/ Stop

Spec == Init /\ [][Next]_vars

\* Goroutines are scheduled and file writes return; hooks, clocks and signals
\* owe nothing.  A writer waiting for jsonlMu gets it: Go's mutex hands over to
\* a starving waiter.
Fairness ==
  /\ \A f \in Family : WF_vars(Reader(f))
  /\ \A w \in Writers : SF_vars(LockAndNumber(w)) /\ WF_vars(Writer(w))
  /\ WF_vars(Stop)

FairSpec == Spec /\ Fairness

-----------------------------------------------------------------------------
(* What the pipeline guarantees.                                           *)

\* Every variable of the readers, the dedup table, the log and the shutdown has its type.
TypeOK ==
  /\ hasLSM \in BOOLEAN
  /\ logging \in BOOLEAN
  /\ clock \in Nat
  /\ ring \in [Family -> Seq(Keys)]
  /\ reserveFailures \in [Family -> Nat]
  /\ pc \in [Writers -> PCs]
  /\ held \in [Family -> Records \cup {Absent}]
  /\ num \in [Writers -> Nat]
  /\ dedup \in [Keys -> Entries \cup {Absent}]
  /\ mu \in Writers \cup {"free"}
  /\ seq \in Nat
  /\ log \in Seq([seq : Nat, kind : Writers])
  /\ denyCount \in Nat
  /\ corroborated \in [Family -> [Keys -> Nat]]
  /\ phase \in Phases
  /\ closed \in SUBSET Family
  /\ reported \in Nat
  /\ fired \in [Family -> [Keys -> Nat]]
  /\ denies \in Nat
  /\ emitted \in [Family -> [Keys -> Nat]]

\* The sequence numbers of the log lines increase down the file: drawing the
\* number and appending the line are one critical section of jsonlMu, for every
\* reader (appendDenyFromRaw and the readers of agent_linux_ring_read.go).
SeqOrder ==
  \A i, j \in 1..Len(log) : i < j => log[i].seq < log[j].seq

\* What the log promises its consumers (EventLog) holds of the deny readers next to
\* the others: the number and its line are one critical section, and a number is
\* lost only with its line.  A number that is drawn and not yet written counts as not
\* drawn.
Log == INSTANCE EventLog WITH next <- IF mu = "free" THEN seq ELSE seq - 1

LogSpec == Log!Spec

\* A deny is folded away only when the other hook family decided to emit a deny
\* with the same key: shouldEmitDeny never suppresses the only report.
TwinHasEmitter ==
  \A f, g \in Family, k \in Keys :
    f # g /\ corroborated[f][k] > 0 => emitted[g][k] > 0

\* How many elements of a sequence lie in the set T.
Count(s, T) == Cardinality({i \in 1..Len(s) : s[i] \in T})

DenyLines == Count(log, [seq : Nat, kind : Family])

\* The deny count agrees with the log: it counts the deny lines written, less
\* the lines whose reader has not reached noteDeny yet.  After the readers have
\* joined the two are equal.
CountMatchesLog ==
  logging => denyCount + Cardinality({f \in Family : pc[f] = "note"}) = DenyLines

\* The number of records of family f the dedup table has ruled on, for key k.
Ruled(f, k) == emitted[f][k] + corroborated[f][k]

InRing(f, k) == Count(ring[f], {k})
Undecided(f, k) == IF pc[f] = "decide" /\ held[f].key = k THEN 1 ELSE 0
Missing(f, k) == fired[f][k] - InRing(f, k) - Undecided(f, k) - Ruled(f, k)

\* No deny disappears between the hook and the dedup decision except by a ring
\* reservation that failed and was counted: for one key, what was fired is lost
\* and counted, waiting in the ring, held by the reader, or ruled on.
EveryDenyAccounted ==
  \A f \in Family :
    /\ \A k \in Keys : Missing(f, k) >= 0 /\ Missing(f, k) <= reserveFailures[f]
    /\ reserveFailures[f] > 0 => \E k \in Keys : Missing(f, k) > 0

\* A step of pruneDenyDedupLocked never drops an entry that could still mark a
\* twin of a deny stamped at or after the time of the deny that caused it.
PruneKeepsTwins ==
  [][\A k \in Keys, f \in Family :
       /\ dedup[k] # Absent
       /\ dedup'[k] = Absent
       /\ pc[f] = "decide" /\ pc'[f] # "decide"
       => held[f].now - dedup[k].nano > Window]_vars

\* While the agent runs, a deny in a ring is read, whatever the other readers do
\* with jsonlMu.
DeniesDrain ==
  \A f \in Family :
    (phase = "running" /\ ring[f] # << >>) ~> (phase # "running" \/ ring[f] = << >>)

\* A cancelled run joins every reader and reports its losses: an append that
\* fails leaves jsonlMu free, and a closed ring ends its reader.
ShutdownCompletes == phase = "cancelled" ~> phase = "done"

-----------------------------------------------------------------------------
(* What comments in the code say and the pipeline does not do.             *)

\* A deny lost to a full ring shows in dropped_events["deny"].
LossesVisible ==
  phase = "done" /\ reported = 0 => \A f \in Family : reserveFailures[f] = 0
=============================================================================
