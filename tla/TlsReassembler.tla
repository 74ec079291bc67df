--------------------------- MODULE TlsReassembler ---------------------------
(***************************************************************************)
(* Joining a ClientHello that a TLS stack wrote in two system calls.  The  *)
(* BPF sniffer delivers each write on its own; the reader keeps what did   *)
(* not parse, per (process, destination), and tries again with the next    *)
(* write.  One goroutine uses the store.                                   *)
(*                                                                         *)
(* A write is a chunk: the 5-byte "head" of a handshake record, the "body" *)
(* with the server name, the "whole" hello in one write, a hello whose     *)
(* server name lies beyond the captured bytes ("deep"), or "other" bytes.  *)
(* The buffer cap of 512 bytes is counted in chunks.                       *)
(***************************************************************************)
EXTENDS Integers, Sequences, FiniteSets

CONSTANTS
  ReasmTTL,     \* tlsReassemblyDefaultTTL
  MaxKey,       \* tlsReassemblyDefaultMaxKey
  BufCap        \* tlsReassemblyBufferCap

\* The buffer has room for the head of a record and something of what follows it.
ASSUME ReasmAssumption == ReasmTTL \in Nat /\ MaxKey \in Nat \ {0} /\ BufCap \in Nat /\ BufCap > 1

\* The first byte of a buffer is 0x16, the type of a handshake record.
IsHandshake(buf) == buf[1].part \in {"head", "whole", "deep"}

\* ParseClientHelloSNI finds a server name in the buffer ...
Parses(buf) ==
  /\ buf # << >>
  /\ \/ buf[1].part = "whole"
     \/ Len(buf) > 1 /\ buf[1].part = "head" /\ buf[2].part = "body"

\* ... and it is this one.
ServerName(buf) == IF buf[1].part = "whole" THEN buf[1].name ELSE buf[2].name

\* Variation: the process is left out of the key.
KeyWithoutProcess(pid, dst) == [pid |-> 0, dst |-> dst.host]

\* tlsReassemblyKeyForEvent, for an IPv4 or IPv4-mapped destination; a native
\* IPv6 one has no key.
ReasmKey(pid, dst) == [pid |-> pid, dst |-> dst.host]
HasKey(dst) == dst.fam \in {"v4", "mapped"}

\* evictExpiredLocked
Unexpired(store, now) == {e \in store : e.updatedAt >= now - ReasmTTL}

\* Variation: the most recently updated entry makes room.
EvictNewest(store) ==
  {store \ {e} : e \in {o \in store : \A x \in store : o.updatedAt >= x.updatedAt}}

\* evictOldestLocked drops an entry updated least recently; the order of a Go map
\* decides between equals.  The stores it may leave:
EvictOldest(store) ==
  {store \ {e} : e \in {o \in store : \A x \in store : o.updatedAt <= x.updatedAt}}

\* The stores with room for a new key.
MakeRoom(store) ==
  IF Cardinality(store) >= MaxKey THEN EvictOldest(store) ELSE {store}

\* appendAndParse: the outcomes of feeding one chunk to the entry of key k.  The
\* entry goes when its buffer is no handshake record, and when it parses.
AppendAndParse(store, now, k, chunk) ==
  IF chunk.part = "empty"
    THEN {[store |-> store, parsed |-> FALSE, name |-> chunk.name, joined |-> FALSE]}
    ELSE
      LET live == Unexpired(store, now)
          had == {e \in live : e.key = k}
          old == IF had = {} THEN << >> ELSE (CHOOSE e \in had : TRUE).buf
          buf == IF Len(old) < BufCap THEN Append(old, chunk) ELSE old
          drops == ~ IsHandshake(buf) \/ Parses(buf)
          kept == IF drops THEN {} ELSE {[key |-> k, buf |-> buf, updatedAt |-> now]}
      IN  {[store |-> (base \ had) \cup kept,
            parsed |-> Parses(buf),
            name |-> IF Parses(buf) THEN ServerName(buf) ELSE chunk.name,
            joined |-> Parses(buf) /\ had # {}] :
             base \in IF had = {} THEN MakeRoom(live) ELSE {live}}
=============================================================================
