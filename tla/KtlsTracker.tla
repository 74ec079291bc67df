----------------------------- MODULE KtlsTracker -----------------------------
(***************************************************************************)
(* The table of sockets that handed their TLS encryption to the kernel.    *)
(* The ring reader of the offload events marks sockets, the ring reader of *)
(* the TLS events asks; each call holds the table's lock throughout, so it *)
(* is an operator on the table here.                                       *)
(***************************************************************************)
EXTENDS Integers

CONSTANT KtlsTTL    \* ktlsTrackerTTL

ASSUME KtlsTTLAssumption == KtlsTTL \in Nat

\* An entry of the map `by`: its key (pid, fd), the wall clock for its expiry,
\* and the arrival time of the offload event.
KtlsEntries == [pid : Nat, fd : Nat, at : Int, markedAt : Int]

\* The entry has not expired: e.at.After(now - ktlsTrackerTTL).
KtlsLive(e, now) == e.at > now - KtlsTTL

\* Mark evicts what has expired and overwrites the entry of (pid, fd).
Mark(by, now, pid, fd, markedAt) ==
  {e \in by : KtlsLive(e, now) /\ ~ (e.pid = pid /\ e.fd = fd)}
    \cup {[pid |-> pid, fd |-> fd, at |-> now, markedAt |-> markedAt]}

\* Variation: any live mark of the process counts, however late it came.
IsKTLSUnordered(by, now, pid, fd, stamp) ==
  \E e \in by : e.pid = pid /\ KtlsLive(e, now)

\* IsKTLS: fd 0 stands for any socket of the process, and then the earliest live
\* mark decides: some live mark is no later than the TLS event.
IsKTLS(by, now, pid, fd, stamp) ==
  \E e \in by :
    /\ e.pid = pid
    /\ fd = 0 \/ e.fd = fd
    /\ KtlsLive(e, now)
    /\ stamp >= e.markedAt
=============================================================================
