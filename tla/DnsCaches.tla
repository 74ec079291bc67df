----------------------------- MODULE DnsCaches -----------------------------
(***************************************************************************)
(* The two maps from IPv4 addresses to owner names, and what feeds them.   *)
(* The detection map mirrors DNSCache, which learns from sniffed replies   *)
(* and forgets by TTL.  The enforcement map, which dst_is_allowlisted      *)
(* consults, is seeded from the agent's own resolver at startup and again  *)
(* on every tick of the drift watcher.                                     *)
(***************************************************************************)
EXTENDS Naturals, FiniteSets

CONSTANTS
  Addrs,          \* IPv4 addresses
  Listed,         \* names in allowed-domains
  Unlisted,       \* other names
  Length,         \* Length[n]: characters of a name
  Rank,           \* Rank[n]: place of a listed name in lexicographic order
  Ttls,           \* TTLs a reply may carry
  MinTTL, DefaultTTL, MaxTTL,   \* dnsMinTTLSec, dnsDefaultTTL, dnsMaxTTLSec
  MaxEntries,     \* dnsMaxEntries
  Worlds          \* what a run may meet, and how much of it: see World

Names == Listed \cup Unlisted

\* The records of the listed names at the start, the names in sniffed replies, and the
\* bounds: clock, replies, changes of records, and faults (failing lookups and map
\* calls, LRU evictions).
World ==
  [records : [Listed -> SUBSET Addrs], names : SUBSET Names, time : Nat, packets : Nat,
   rotations : Nat, faults : Nat]

ASSUME DnsAssumption ==
  /\ IsFiniteSet(Addrs) /\ IsFiniteSet(Names)
  /\ Length \in [Names -> Nat]
  /\ Rank \in [Listed -> Nat]
  /\ \A m, n \in Listed : Rank[m] = Rank[n] => m = n
  /\ Ttls \subseteq Nat
  /\ MinTTL \in Nat \ {0} /\ DefaultTTL \in Nat /\ MaxTTL \in Nat
  /\ MinTTL <= DefaultTTL /\ DefaultTTL <= MaxTTL
  /\ MaxEntries \in Nat
  /\ Worlds \subseteq World /\ \A w \in Worlds : w.time >= 1

VARIABLES
  world,       \* the member of Worlds this run is in
  now,         \* clock, from 1
  entries,     \* DNSCache.entries
  kmap,        \* kmap[m]: the BPF map m, "detect" or "enforce"
  failures,    \* dns_cache update failures reported in the digest
  evictions,   \* entries the kernel dropped from the LRU maps
  heard,       \* heard[a][n]: when a reply last said a belongs to n; 0 for never
  packets,
  records,     \* records[n]: addresses the resolver has for n
  rotations,
  answered,    \* pairs <<a, n>> the resolver gave the agent
  snapshot,    \* addresses in the allowed trie
  drifted,     \* a drift was reported (addDNSDrift)
  faults,
  pc           \* "compile", "seed", "idle" or "reseed"

sniffed == <<entries, heard, packets>>
resolved == <<world, records, rotations>>
agent == <<snapshot, drifted, pc>>
vars == <<now, sniffed, kmap, failures, evictions, resolved, answered, agent, faults>>

Empty == [a \in {} |-> {}]

\* f without the arguments in S, and f with the arguments of g changed.
Without(f, S) == [a \in DOMAIN f \ S |-> f[a]]
With(f, g) == [a \in DOMAIN f \cup DOMAIN g |-> IF a \in DOMAIN g THEN g[a] ELSE f[a]]

Init ==
  /\ world \in Worlds
  /\ now = 1
  /\ entries = Empty
  /\ kmap = [m \in {"detect", "enforce"} |-> Empty]
  /\ failures = 0
  /\ evictions = 0
  /\ heard = [a \in Addrs |-> [n \in Names |-> 0]]
  /\ packets = 0
  /\ records = world.records
  /\ rotations = 0
  /\ answered = {}
  /\ snapshot = {}
  /\ drifted = FALSE
  /\ faults = 0
  /\ pc = "compile"

-----------------------------------------------------------------------------
(* DNSCache: sniffed replies.                                              *)

\* Variation: the enforcement map is registered as well.
RegisteredBoth == {"detect", "enforce"}

\* SetBPFMaps: the maps AddFromPacket writes to.
Registered == {"detect"}

\* Variation: no upper clamp.
ttlToExpiryUnclamped(ttl) == now + (IF ttl = 0 THEN DefaultTTL ELSE ttl)

ttlToExpiry(ttl) ==
  now + (IF ttl = 0 THEN DefaultTTL
         ELSE IF ttl > MaxTTL THEN MaxTTL
         ELSE IF ttl < MinTTL THEN MinTTL
         ELSE ttl)

purgeExpiredLocked == {a \in DOMAIN entries : entries[a].expires <= now}

\* Variation: the longer of two names is preferred.
KeepsPrevLonger(name, prev) == Length[name] < Length[prev]

\* A valid entry with another name stays when its name is shorter.
KeepsPrev(name, prev) == Length[name] > Length[prev]

\* How many entries trimLocked evicts.
trimLocked(size) == IF size > MaxEntries THEN size - MaxEntries ELSE 0

\* Variation: eviction at the cap does not reach the kernel.
SyncedNoTrim(k, purged, named, evicted) == With(Without(k, purged), named)

\* A BPF map after the purge, the updates and the trim of one reply.
Synced(k, purged, named, evicted) == Without(With(Without(k, purged), named), evicted)

\* AddFromPacket, under its lock: ans maps addresses to [name, ttl].  The updates of
\* the addresses in noUpdate and the deletes of those in noDelete fail.
AddFromPacket(ans) ==
  LET purged == purgeExpiredLocked
      valid == {a \in DOMAIN ans \cap DOMAIN entries : now < entries[a].expires}
      same == {a \in valid : ans[a].name = entries[a].name}
      kept == {a \in valid \ same : KeepsPrev(ans[a].name, entries[a].name)}
      written == DOMAIN ans \ (same \cup kept)
      learnt == [a \in same \cup written |->
                   [name |-> ans[a].name, expires |-> ttlToExpiry(ans[a].ttl)]]
      merged == With(Without(entries, purged), learnt)
      excess == trimLocked(Cardinality(DOMAIN merged))
  IN \E evicted \in {e \in SUBSET DOMAIN merged : Cardinality(e) = excess},
        noUpdate \in SUBSET written :
     \E noDelete \in SUBSET (purged \cup evicted) :
       LET failed == Cardinality(noUpdate) + Cardinality(noDelete)
           named == [a \in written \ noUpdate |-> ans[a].name]
       IN /\ faults + failed <= world.faults
          /\ faults' = faults + failed
          /\ failures' = failures + failed
          /\ entries' = Without(merged, evicted)
          /\ kmap' = [m \in DOMAIN kmap |->
                        IF m \in Registered
                        THEN Synced(kmap[m], purged \ noDelete, named, evicted \ noDelete)
                        ELSE kmap[m]]
          /\ heard' = [a \in Addrs |-> [n \in Names |->
                         IF a \in DOMAIN ans /\ ans[a].name = n THEN now ELSE heard[a][n]]]
          /\ packets' = packets + 1
          /\ UNCHANGED <<now, evictions, resolved, answered, agent>>

\* The owner a reader attributes an address to; "" stands for unknown.
LookupProvenance(a) ==
  IF a \in DOMAIN entries /\ now < entries[a].expires THEN entries[a].name ELSE ""

-----------------------------------------------------------------------------
(* The agent's resolver, the allowlist and the enforcement map.            *)

\* Lookups of the listed names, those in lost failing: the addresses of each.
Answers(lost) == [n \in Listed |-> IF n \in lost THEN {} ELSE records[n]]

Found(lost) == UNION {Answers(lost)[n] : n \in Listed}

Asks(lost) ==
  /\ faults + Cardinality(lost) <= world.faults
  /\ answered' = answered \cup UNION {{<<a, n>> : a \in Answers(lost)[n]} : n \in Listed}

\* CompileDomainAllowlist at startup and loadAllowedLPMMap.
CompileDomainAllowlist(lost) ==
  /\ pc = "compile"
  /\ Asks(lost)
  /\ faults' = faults + Cardinality(lost)
  /\ snapshot' = Found(lost)
  /\ pc' = "seed"
  /\ UNCHANGED <<now, sniffed, kmap, failures, evictions, resolved, drifted>>

\* Variation: only the first name is looked up.
ResolveOwnersFirst(lost) ==
  LET first == CHOOSE n \in Listed : \A o \in Listed : Rank[n] <= Rank[o]
  IN [a \in Answers(lost)[first] |-> first]

\* One owner for each address found: the smallest name.
ResolveOwners(lost) ==
  [a \in Found(lost) |->
     CHOOSE n \in Listed :
       /\ a \in Answers(lost)[n]
       /\ \A o \in Listed : a \in Answers(lost)[o] => Rank[n] <= Rank[o]]

\* seedDefendOwners: the updates of the addresses in noUpdate fail and are counted;
\* nothing is ever deleted.
seedDefendOwners(lost, noUpdate) ==
  /\ Asks(lost)
  /\ noUpdate \subseteq Found(lost)
  /\ LET failed == Cardinality(lost) + Cardinality(noUpdate) IN
       /\ faults + failed <= world.faults
       /\ faults' = faults + failed
  /\ failures' = failures + Cardinality(noUpdate)
  /\ kmap' = [kmap EXCEPT !["enforce"] = With(@, Without(ResolveOwners(lost), noUpdate))]
  /\ pc' = "idle"
  /\ UNCHANGED <<now, sniffed, evictions, resolved, snapshot, drifted>>

Seed(lost, noUpdate) == pc = "seed" /\ seedDefendOwners(lost, noUpdate)

\* Variation: only added addresses count as drift.
DiffAdded(original, updated) == ~(updated \subseteq original)

Diff(original, updated) == updated # original

\* A tick of runDNSDriftWatch: ReResolve and Diff against the startup snapshot.
DriftTick(lost) ==
  /\ pc = "idle"
  /\ Asks(lost)
  /\ faults' = faults + Cardinality(lost)
  /\ drifted' = (drifted \/ Diff(snapshot, Found(lost)))
  /\ pc' = "reseed"
  /\ UNCHANGED <<now, sniffed, kmap, failures, evictions, resolved, snapshot>>

\* onDrift and onClean alike: reseedDefendOwners, with lookups of its own.
Reseed(lost, noUpdate) == pc = "reseed" /\ seedDefendOwners(lost, noUpdate)

\* What dst_is_allowlisted admits.
Admitted(a) ==
  \/ a \in snapshot
  \/ a \in DOMAIN kmap["enforce"] /\ kmap["enforce"][a] \in Listed

-----------------------------------------------------------------------------
(* The world.                                                              *)

\* The records of a listed name change.
Rotate(n, as) ==
  /\ rotations < world.rotations
  /\ as # records[n]
  /\ records' = [records EXCEPT ![n] = as]
  /\ rotations' = rotations + 1
  /\ UNCHANGED <<world, now, sniffed, kmap, failures, evictions, answered, agent, faults>>

\* The kernel drops the least recently used entry of a full map.
Evict(m, a) ==
  /\ a \in DOMAIN kmap[m]
  /\ faults < world.faults
  /\ faults' = faults + 1
  /\ evictions' = evictions + 1
  /\ kmap' = [kmap EXCEPT ![m] = Without(@, {a})]
  /\ UNCHANGED <<now, sniffed, failures, resolved, answered, agent>>

Tick ==
  /\ now < world.time
  /\ now' = now + 1
  /\ UNCHANGED <<sniffed, kmap, failures, evictions, resolved, answered, agent, faults>>

Replies == UNION {[S -> [name : world.names, ttl : Ttls]] : S \in SUBSET Addrs \ {{}}}

Sniff == packets < world.packets /\ \E ans \in Replies : AddFromPacket(ans)

Resolve ==
  \E lost \in SUBSET Listed :
    \/ CompileDomainAllowlist(lost)
    \/ DriftTick(lost)
    \/ \E noUpdate \in SUBSET Addrs : Seed(lost, noUpdate) \/ Reseed(lost, noUpdate)

Next ==
  \/ Sniff
  \/ Resolve
  \/ \E n \in Listed, as \in SUBSET Addrs : Rotate(n, as)
  \/ \E m \in DOMAIN kmap, a \in Addrs : Evict(m, a)
  \/ Tick

Spec == Init /\ [][Next]_vars

\* The drift goroutine and its ticker are scheduled.
FairSpec == Spec /\ WF_vars(Resolve)

-----------------------------------------------------------------------------
(* Properties.                                                             *)

\* The detection map holds exactly what DNSCache holds, unless a map call failed,
\* which the digest reports, or the kernel evicted an entry: expiry, replacement
\* and trimming in userspace are all carried over (deleteBPFMapsLocked, AddFromPacket).
\* DNSCache itself never holds more than maxEntries once AddFromPacket returns.
KernelMirrors ==
  /\ Cardinality(DOMAIN entries) <= MaxEntries
  /\ failures = 0 /\ evictions = 0 =>
       kmap["detect"] = [a \in DOMAIN entries |-> entries[a].name]

\* The enforcement map names only listed owners that the agent's own resolver gave
\* for that very address: whatever replies are sniffed, none reaches it (loadDNS).
OwnersTrusted ==
  \A a \in DOMAIN kmap["enforce"] :
    kmap["enforce"][a] \in Listed /\ <<a, kmap["enforce"][a]>> \in answered

\* An address is attributed to a name only if a reply said so less than the maximum
\* TTL ago, however large the TTL of that reply was (ttlToExpiry).
AttributionFresh ==
  \A a \in Addrs : LookupProvenance(a) # "" =>
    LET at == heard[a][LookupProvenance(a)] IN at > 0 /\ now < at + MaxTTL

\* While an attribution is valid, a reply can replace its name only by one that is
\* no longer than it (AddFromPacket, M-08).
ShortOwnerStays ==
  [][\A a \in Addrs :
       LookupProvenance(a) # "" /\ LookupProvenance(a)' # "" =>
         Length[LookupProvenance(a)'] <= Length[LookupProvenance(a)]]_vars

\* Once the records of the listed names stop changing, every address they resolve
\* to is admitted, for good: reseedDefendOwners keeps a name whose records rotate
\* mid-job reachable.
StaysReachable == <>[](\A n \in Listed : \A a \in records[n] : Admitted(a))

\* If the records settle on addresses other than those in the allowed trie, the
\* drift is reported (runDNSDriftWatch), whether addresses were added or removed.
DriftReported ==
  <>[](UNION {records[n] : n \in Listed} # snapshot) => <>drifted
=============================================================================
