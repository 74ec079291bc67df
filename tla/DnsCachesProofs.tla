-------------------------- MODULE DnsCachesProofs --------------------------
(***************************************************************************)
(* Proofs about the address-to-name maps, for any addresses, names, TTLs   *)
(* and cap: only the agent's own lookups reach the enforcement map, the    *)
(* detection map mirrors the cache, and attributions are fresh.            *)
(***************************************************************************)
EXTENDS DnsCaches, TLAPS

-----------------------------------------------------------------------------
(* The cache: size, mirror and attribution in one invariant.               *)

Mirrored ==
  failures = 0 /\ evictions = 0 => kmap["detect"] = [a \in DOMAIN entries |-> entries[a].name]

\* The name of an entry was heard, and the entry outlives that by MaxTTL at most.
Heard(a) ==
  /\ entries[a].name \in Names
  /\ entries[a].expires \in Nat
  /\ heard[a][entries[a].name] \in 1..now
  /\ entries[a].expires <= heard[a][entries[a].name] + MaxTTL

CacheInv ==
  /\ world \in Worlds
  /\ now \in Nat \ {0}
  /\ DOMAIN kmap = {"detect", "enforce"}
  /\ DOMAIN entries \in SUBSET Addrs
  /\ failures \in Nat /\ evictions \in Nat
  /\ heard \in [Addrs -> [Names -> Nat]]
  /\ Cardinality(DOMAIN entries) <= MaxEntries
  /\ Mirrored
  /\ \A a \in DOMAIN entries : Heard(a)

\* Whatever TTL a reply carries, its entry lives between now and now + MaxTTL.
LEMMA TtlClamped ==
  ASSUME NEW ttl \in Nat, now \in Nat
  PROVE  ttlToExpiry(ttl) \in Nat /\ ttlToExpiry(ttl) <= now + MaxTTL
BY DnsAssumption DEF ttlToExpiry

LEMMA ReplyTypes ==
  ASSUME world \in Worlds, NEW ans \in Replies
  PROVE  /\ DOMAIN ans \in SUBSET Addrs
         /\ \A a \in DOMAIN ans : ans[a].name \in Names /\ ans[a].ttl \in Nat
<1>1. PICK S \in SUBSET Addrs : ans \in [S -> [name : world.names, ttl : Ttls]]
  BY DEF Replies
<1>2. world.names \subseteq Names /\ Ttls \subseteq Nat
  BY DnsAssumption DEF World
<1>3. DOMAIN ans = S /\ \A a \in S : ans[a] \in [name : world.names, ttl : Ttls]
  BY <1>1
<1> QED BY Zenon, <1>2, <1>3

LEMMA WithinTTL ==
  ASSUME NEW n \in Nat, NEW at \in 1..n, NEW e \in Nat, NEW max \in Nat,
         e <= at + max, n < e
  PROVE  at > 0 /\ n < at + max
OBVIOUS

LEMMA OwnerShortens ==
  ASSUME CacheInv, [Next]_vars, NEW a \in DOMAIN entries, a \in DOMAIN entries',
         now < entries[a].expires
  PROVE  Length[entries'[a].name] <= Length[entries[a].name]
<1>1. entries[a].name \in Names /\ Length[entries[a].name] \in Nat
  <2>1. Heard(a)
    BY DEF CacheInv
  <2> QED BY <2>1, DnsAssumption DEF Heard
<1> DEFINE before == Length[entries[a].name]
           after == Length[entries'[a].name]
<1>2. CASE entries'[a] = entries[a]
  <2>1. after = before
    BY <1>2
  <2> HIDE DEF before, after
  <2>2. before \in Nat
    BY <1>1 DEF before
  <2>3. after <= before
    BY <2>1, <2>2
  <2> QED BY <2>3 DEF before, after
<1>3. CASE entries' = entries
  BY Zenon, <1>3, <1>2
<1>4. CASE Sniff
  <2>1. PICK ans \in Replies : AddFromPacket(ans)
    BY Zenon, <1>4 DEF Sniff
  <2> DEFINE valid == {b \in DOMAIN ans \cap DOMAIN entries : now < entries[b].expires}
             same == {b \in valid : ans[b].name = entries[b].name}
             kept == {b \in valid \ same : KeepsPrev(ans[b].name, entries[b].name)}
  <2>2. entries'[a] = entries[a] \/ (a \in DOMAIN ans /\ entries'[a].name = ans[a].name
                                       /\ a \notin kept)
    <3> DEFINE written == DOMAIN ans \ (same \cup kept)
               learnt == [b \in same \cup written |->
                            [name |-> ans[b].name, expires |-> ttlToExpiry(ans[b].ttl)]]
               purged == purgeExpiredLocked
               merged == With(Without(entries, purged), learnt)
    <3>1. PICK evicted : entries' = Without(merged, evicted)
      BY <2>1, Zenon DEF AddFromPacket
    <3>2. a \in DOMAIN merged /\ entries'[a] = merged[a]
      BY Zenon, <3>1 DEF Without
    <3>3. merged[a] = IF a \in DOMAIN learnt THEN learnt[a] ELSE entries[a]
      <4> HIDE DEF learnt, purged
      <4> QED BY Zenon, <3>2 DEF With, Without
    <3>4. CASE a \in same \cup written
      <4>1. learnt[a] = [name |-> ans[a].name, expires |-> ttlToExpiry(ans[a].ttl)]
        BY Zenon, <3>4
      <4>2. a \in DOMAIN learnt /\ a \in DOMAIN ans /\ a \notin kept
        BY Zenon, <3>4
      <4> HIDE DEF learnt, same, kept, written, merged
      <4>3. learnt[a].name = ans[a].name
        BY <4>1
      <4>4. entries'[a] = learnt[a]
        BY Zenon, <3>2, <3>3, <4>2
      <4> QED BY Zenon, <4>2, <4>3, <4>4
    <3>5. CASE a \notin same \cup written
      BY Zenon, <3>2, <3>3, <3>5
    <3> QED BY Zenon, <3>4, <3>5
  <2>3. CASE entries'[a] = entries[a]
    BY Zenon, <1>2, <2>3
  <2>4. CASE a \in DOMAIN ans /\ entries'[a].name = ans[a].name /\ a \notin kept
    <3>1. ans[a].name \in Names /\ Length[ans[a].name] \in Nat
      <4>1. ans[a].name \in Names
        BY Zenon, <2>1, <2>4, ReplyTypes DEF CacheInv
      <4> QED BY Zenon, <4>1, DnsAssumption
    <3>2. ans[a].name = entries[a].name \/ ~ KeepsPrev(ans[a].name, entries[a].name)
      BY Zenon, <2>4
    <3> DEFINE told == Length[ans[a].name]
    <3>3. told = before \/ ~ (told > before)
      BY Zenon, <3>2 DEF KeepsPrev
    <3>4. after = told
      BY Zenon, <2>4
    <3>5. told \in Nat /\ before \in Nat
      BY Zenon, <1>1, <3>1
    <3> HIDE DEF told, before, after
    <3>6. after <= before
      BY <3>3, <3>4, <3>5
    <3> QED BY Zenon, <3>6 DEF before, after
  <2> QED BY Zenon, <2>2, <2>3, <2>4
<1>5. CASE Resolve
  BY Zenon, <1>3, <1>5 DEF Resolve, CompileDomainAllowlist, DriftTick, Seed, Reseed,
     seedDefendOwners, sniffed
<1>6. CASE Tick \/ (\E n \in Listed, as \in SUBSET Addrs : Rotate(n, as))
           \/ \E m \in DOMAIN kmap, b \in Addrs : Evict(m, b)
  BY Zenon, <1>3, <1>6 DEF Tick, Rotate, Evict, sniffed
<1>7. CASE UNCHANGED vars
  BY Zenon, <1>3, <1>7 DEF vars, sniffed
<1> QED BY Zenon, <1>4, <1>5, <1>6, <1>7 DEF Next

Trusted == {"detect", "enforce"} = DOMAIN kmap /\ OwnersTrusted

\* A sniffed reply leaves the enforcement map alone: it is not a registered mirror.
LEMMA PacketKeepsOwners ==
  ASSUME Trusted, NEW ans, AddFromPacket(ans)
  PROVE  DOMAIN kmap' = DOMAIN kmap /\ kmap'["enforce"] = kmap["enforce"]
         /\ answered \subseteq answered'
<1>1. \E g : kmap' = [m \in DOMAIN kmap |-> IF m \in Registered THEN g[m] ELSE kmap[m]]
  <2> DEFINE g == [m \in DOMAIN kmap |-> kmap'[m]]
  <2>1. kmap' = [m \in DOMAIN kmap |-> IF m \in Registered THEN g[m] ELSE kmap[m]]
    BY SMTT(20) DEF AddFromPacket
  <2> QED BY Zenon, <2>1
<1>2. answered' = answered
  BY Zenon DEF AddFromPacket
<1> QED BY <1>1, <1>2 DEF Registered, Trusted

\* The library's facts about finite sets, for the operators of this module.
Fin == INSTANCE FiniteSetTheorems

\* The library speaks of the same finite sets and cardinalities.
LEMMA SameCardinality ==
  ASSUME NEW S
  PROVE  /\ Fin!IsFiniteSet(S) <=> IsFiniteSet(S)
         /\ Fin!Cardinality(S) = Cardinality(S)
BY Zenon DEF IsFiniteSet, Fin!IsFiniteSet, Cardinality, Fin!Cardinality

\* A cardinality is a number, and zero only for the empty set.
LEMMA CardinalityType ==
  ASSUME NEW S, IsFiniteSet(S)
  PROVE  Cardinality(S) \in Nat /\ (Cardinality(S) = 0 <=> S = {})
BY Zenon, SameCardinality, Fin!FS_CardinalityType, Fin!FS_EmptySet

\* The empty set is finite and has no elements.
LEMMA CardinalityEmpty == IsFiniteSet({}) /\ Cardinality({}) = 0
BY Zenon, SameCardinality, Fin!FS_EmptySet

\* A subset of a finite set is finite and no larger.
LEMMA CardinalitySubset ==
  ASSUME NEW S, IsFiniteSet(S), NEW T \in SUBSET S
  PROVE  IsFiniteSet(T) /\ Cardinality(T) <= Cardinality(S)
BY Zenon, SameCardinality, Fin!FS_Subset

\* The union of two finite sets.
LEMMA FiniteUnion ==
  ASSUME NEW S, NEW T, IsFiniteSet(S), IsFiniteSet(T)
  PROVE  IsFiniteSet(S \cup T)
BY Zenon, SameCardinality, Fin!FS_Union

\* What is left of a finite set.
LEMMA CardinalityDifference ==
  ASSUME NEW S, NEW T, IsFiniteSet(S)
  PROVE  Cardinality(S \ T) = Cardinality(S) - Cardinality(S \cap T)
<1>1. Fin!Cardinality(S \ T) = Fin!Cardinality(S) - Fin!Cardinality(S \cap T)
  BY Zenon, SameCardinality, Fin!FS_Difference
<1> QED BY <1>1, SameCardinality

LEMMA CachePacket ==
  ASSUME CacheInv, NEW ans \in Replies, AddFromPacket(ans)
  PROVE  CacheInv'
<1> DEFINE purged == purgeExpiredLocked
           valid == {a \in DOMAIN ans \cap DOMAIN entries : now < entries[a].expires}
           same == {a \in valid : ans[a].name = entries[a].name}
           kept == {a \in valid \ same : KeepsPrev(ans[a].name, entries[a].name)}
           written == DOMAIN ans \ (same \cup kept)
           learnt == [a \in same \cup written |->
                        [name |-> ans[a].name, expires |-> ttlToExpiry(ans[a].ttl)]]
           merged == With(Without(entries, purged), learnt)
           excess == trimLocked(Cardinality(DOMAIN merged))
<1>1. PICK evicted \in {e \in SUBSET DOMAIN merged : Cardinality(e) = excess},
           noUpdate \in SUBSET written :
      \E noDelete \in SUBSET (purged \cup evicted) :
       LET failed == Cardinality(noUpdate) + Cardinality(noDelete)
           named == [a \in written \ noUpdate |-> ans[a].name]
       IN /\ faults + failed <= world.faults
          /\ faults' = faults + failed
          /\ failures' = failures + failed
          /\ entries' = Without(merged, evicted)
          /\ kmap' = [m \in DOMAIN kmap |->
                        IF m \in Registered
                        THEN Synced(kmap[m], purged \ noDelete, named, evicted \ noDelete)
                        ELSE kmap[m]]
          /\ heard' = [a \in Addrs |-> [n \in Names |->
                         IF a \in DOMAIN ans /\ ans[a].name = n THEN now ELSE heard[a][n]]]
          /\ packets' = packets + 1
          /\ UNCHANGED <<now, evictions, resolved, answered, agent>>
  BY Zenon DEF AddFromPacket
<1>2. PICK noDelete \in SUBSET (purged \cup evicted) :
       LET failed == Cardinality(noUpdate) + Cardinality(noDelete)
           named == [a \in written \ noUpdate |-> ans[a].name]
       IN /\ faults + failed <= world.faults
          /\ faults' = faults + failed
          /\ failures' = failures + failed
          /\ entries' = Without(merged, evicted)
          /\ kmap' = [m \in DOMAIN kmap |->
                        IF m \in Registered
                        THEN Synced(kmap[m], purged \ noDelete, named, evicted \ noDelete)
                        ELSE kmap[m]]
          /\ heard' = [a \in Addrs |-> [n \in Names |->
                         IF a \in DOMAIN ans /\ ans[a].name = n THEN now ELSE heard[a][n]]]
          /\ packets' = packets + 1
          /\ UNCHANGED <<now, evictions, resolved, answered, agent>>
  BY <1>1, Zenon
<1> DEFINE named == [a \in written \ noUpdate |-> ans[a].name]
<1>3. /\ heard' = [a \in Addrs |-> [n \in Names |->
                     IF a \in DOMAIN ans /\ ans[a].name = n THEN now ELSE heard[a][n]]]
      /\ now' = now /\ evictions' = evictions /\ world' = world
      /\ entries' = Without(merged, evicted)
      /\ failures' = failures + (Cardinality(noUpdate) + Cardinality(noDelete))
      /\ kmap' = [m \in DOMAIN kmap |->
                    IF m \in Registered
                    THEN Synced(kmap[m], purged \ noDelete, named, evicted \ noDelete)
                    ELSE kmap[m]]
  BY <1>2, Zenon DEF resolved
<1>4. /\ DOMAIN ans \in SUBSET Addrs
      /\ \A a \in DOMAIN ans : ans[a].name \in Names /\ ans[a].ttl \in Nat
  BY ReplyTypes DEF CacheInv
<1>5. /\ same \subseteq DOMAIN ans /\ written \subseteq DOMAIN ans
      /\ purged \subseteq DOMAIN entries
      /\ same \subseteq DOMAIN entries
      /\ \A a \in same : ans[a].name = entries[a].name /\ now < entries[a].expires
      /\ \A a \in DOMAIN ans : a \notin same \cup written => ans[a].name # entries[a].name
      /\ \A a \in purged : entries[a].expires <= now
  BY Zenon DEF purgeExpiredLocked
<1>6. /\ DOMAIN merged = (DOMAIN entries \ purged) \cup same \cup written
      /\ \A a \in DOMAIN merged :
           merged[a] = IF a \in same \cup written
                       THEN [name |-> ans[a].name, expires |-> ttlToExpiry(ans[a].ttl)]
                       ELSE entries[a]
  BY Zenon DEF With, Without
<1> HIDE DEF purged, same, written, merged, excess
<1>7. DOMAIN merged \in SUBSET Addrs
  BY Zenon, <1>4, <1>5, <1>6 DEF CacheInv
<1>8. IsFiniteSet(Addrs) /\ IsFiniteSet(DOMAIN merged) /\ IsFiniteSet(purged)
      /\ IsFiniteSet(written)
  BY Zenon, <1>4, <1>5, <1>7, DnsAssumption, CardinalitySubset DEF CacheInv
<1>9. evicted \subseteq DOMAIN merged /\ Cardinality(evicted) = excess
  BY Zenon, <1>2
<1>10. /\ DOMAIN entries' = DOMAIN merged \ evicted
       /\ \A a \in DOMAIN entries' : entries'[a] = merged[a]
  BY Zenon, <1>3 DEF Without
<1>11. Cardinality(DOMAIN entries') <= MaxEntries
  <2>1. DOMAIN merged \cap evicted = evicted
    BY <1>9
  <2>2. Cardinality(DOMAIN merged \ evicted) = Cardinality(DOMAIN merged) - excess
    <3>1. Cardinality(DOMAIN merged \ evicted)
            = Cardinality(DOMAIN merged) - Cardinality(DOMAIN merged \cap evicted)
      BY Zenon, <1>8, CardinalityDifference
    <3> QED BY Zenon, <1>9, <2>1, <3>1
  <2>3. Cardinality(DOMAIN merged) \in Nat
    BY <1>8, CardinalityType
  <2> QED BY <1>10, <2>2, <2>3, DnsAssumption DEF trimLocked, excess
<1>12. /\ IsFiniteSet(noUpdate) /\ IsFiniteSet(noDelete)
       /\ Cardinality(noUpdate) \in Nat /\ Cardinality(noDelete) \in Nat
  <2>1. IsFiniteSet(evicted) /\ IsFiniteSet(purged \cup evicted)
    BY Zenon, <1>8, <1>9, CardinalitySubset, FiniteUnion
  <2>2. IsFiniteSet(noUpdate) /\ IsFiniteSet(noDelete)
    BY <1>1, <1>2, <1>8, <2>1, CardinalitySubset
  <2> QED BY <2>2, CardinalityType
<1>13. failures' \in Nat
  BY <1>3, <1>12 DEF CacheInv
<1>14. DOMAIN kmap' = DOMAIN kmap
  BY Zenon, <1>3
<1>15. Mirrored'
  <2> SUFFICES ASSUME failures' = 0, evictions' = 0
               PROVE  kmap'["detect"] = [a \in DOMAIN entries' |-> entries'[a].name]
    BY Zenon DEF Mirrored
  <2>1. failures = 0 /\ evictions = 0 /\ Cardinality(noUpdate) = 0 /\ Cardinality(noDelete) = 0
    <3>1. failures \in Nat
      BY Zenon DEF CacheInv
    <3> DEFINE c == Cardinality(noUpdate)
               d == Cardinality(noDelete)
    <3>2. 0 = failures + (c + d) /\ c \in Nat /\ d \in Nat
      BY <1>3, <1>12
    <3> HIDE DEF c, d
    <3>3. failures = 0 /\ c = 0 /\ d = 0
      BY <3>1, <3>2
    <3> QED BY <1>3, <3>3 DEF c, d
  <2>2. noUpdate = {} /\ noDelete = {}
    BY Zenon, <1>12, <2>1, CardinalityType
  <2>3. kmap["detect"] = [a \in DOMAIN entries |-> entries[a].name]
    BY Zenon, <2>1 DEF CacheInv, Mirrored
  <2> DEFINE k == kmap["detect"]
             names == [a \in written |-> ans[a].name]
  <2>4. kmap'["detect"] = Synced(k, purged, names, evicted)
    BY <1>3, <2>2 DEF CacheInv, Registered
  <2>5. DOMAIN k = DOMAIN entries /\ \A a \in DOMAIN entries : k[a] = entries[a].name
    BY Zenon, <2>3
  <2>6. same \cap purged = {}
    <3> SUFFICES ASSUME NEW a \in same, a \in purged PROVE FALSE
      OBVIOUS
    <3>1. entries[a].expires \in Nat /\ now \in Nat
      BY Zenon, <1>5 DEF CacheInv, Heard
    <3> QED BY <1>5, <3>1
  <2> HIDE DEF k
  <2>7. Synced(k, purged, names, evicted) =
          [a \in ((DOMAIN entries \ purged) \cup written) \ evicted |->
             IF a \in written THEN ans[a].name ELSE k[a]]
    BY Zenon, <2>5 DEF Synced, With, Without
  <2>8. DOMAIN entries' = ((DOMAIN entries \ purged) \cup written) \ evicted
    BY Zenon, <1>5, <1>6, <1>10, <2>6
  <2>9. ASSUME NEW a \in DOMAIN entries'
        PROVE  (IF a \in written THEN ans[a].name ELSE k[a]) = entries'[a].name
    <3>1. entries'[a] = merged[a] /\ a \in DOMAIN merged
      BY Zenon, <1>10
    <3> DEFINE e == [name |-> ans[a].name, expires |-> ttlToExpiry(ans[a].ttl)]
    <3>5. e.name = ans[a].name
      OBVIOUS
    <3>6. a \in same \cup written => merged[a] = e
      BY Zenon, <1>6, <3>1
    <3> HIDE DEF e
    <3>2. CASE a \in written
      BY Zenon, <3>1, <3>2, <3>5, <3>6
    <3>3. CASE a \in same /\ a \notin written
      BY <1>5, <2>5, <3>1, <3>3, <3>5, <3>6
    <3>4. CASE a \notin same /\ a \notin written
      BY Zenon, <1>5, <1>6, <2>5, <3>1, <3>4
    <3> QED BY Zenon, <3>2, <3>3, <3>4
  <2> QED BY <2>4, <2>7, <2>8, <2>9
<1>16. ASSUME NEW a \in DOMAIN entries' PROVE Heard(a)'
  <2>1. a \in Addrs /\ a \in DOMAIN merged /\ entries'[a] = merged[a]
    BY <1>7, <1>10
  <2>2. now \in Nat \ {0} /\ heard \in [Addrs -> [Names -> Nat]] /\ MaxTTL \in Nat
    BY DnsAssumption DEF CacheInv
  <2>3. CASE a \in same \cup written
    <3>1. entries'[a] = [name |-> ans[a].name, expires |-> ttlToExpiry(ans[a].ttl)]
      BY <1>6, <2>1, <2>3
    <3>2. a \in DOMAIN ans /\ ans[a].name \in Names /\ ans[a].ttl \in Nat
      BY <1>4, <1>5, <2>3
    <3>3. heard'[a][ans[a].name] = now
      BY Zenon, <1>3, <2>1, <3>2
    <3>4. ttlToExpiry(ans[a].ttl) \in Nat /\ ttlToExpiry(ans[a].ttl) <= now + MaxTTL
      BY Zenon, <2>2, <3>2, TtlClamped
    <3>5. entries'[a].name = ans[a].name /\ entries'[a].expires = ttlToExpiry(ans[a].ttl)
      BY <3>1
    <3>6. now \in 1..now /\ now' = now
      BY <1>3, <2>2
    <3> QED BY Zenon, <2>2, <3>2, <3>3, <3>4, <3>5, <3>6 DEF Heard
  <2>4. CASE a \notin same \cup written
    <3>1. entries'[a] = entries[a] /\ a \in DOMAIN entries
      BY Zenon, <1>6, <2>1, <2>4
    <3>2. Heard(a)
      BY <3>1 DEF CacheInv
    <3>3. a \in DOMAIN ans => ans[a].name # entries[a].name
      BY <1>5, <2>4
    <3>4. heard'[a][entries[a].name] = heard[a][entries[a].name]
      BY Zenon, <1>3, <2>1, <3>2, <3>3 DEF Heard
    <3> QED BY Zenon, <1>3, <3>1, <3>2, <3>4 DEF Heard
  <2> QED BY <2>3, <2>4
<1>17. heard' \in [Addrs -> [Names -> Nat]]
  BY Zenon, <1>3 DEF CacheInv
<1>18. DOMAIN entries' \in SUBSET Addrs
  BY Zenon, <1>7, <1>10
<1> QED BY <1>3, <1>11, <1>13, <1>14, <1>15, <1>16, <1>17, <1>18 DEF CacheInv

LEMMA CacheStep == CacheInv /\ [Next]_vars => CacheInv'
<1> SUFFICES ASSUME CacheInv, [Next]_vars PROVE CacheInv'
  OBVIOUS
<1>1. ASSUME UNCHANGED <<world, entries, heard>>, now' \in Nat, now <= now',
             DOMAIN kmap' = DOMAIN kmap, failures' \in Nat, evictions' \in Nat, Mirrored'
      PROVE  CacheInv'
  <2>1. ASSUME NEW a \in DOMAIN entries' PROVE Heard(a)'
    <3>1. Heard(a)
      BY Zenon, <1>1, <2>1 DEF CacheInv
    <3> QED BY <1>1, <3>1 DEF CacheInv, Heard
  <2> QED BY <1>1, <2>1 DEF CacheInv
<1>2. ASSUME UNCHANGED <<world, entries, heard, kmap, failures, evictions>>,
             now' \in Nat, now <= now'
      PROVE  CacheInv'
  BY <1>1, <1>2 DEF CacheInv, Mirrored
<1>3. CASE Sniff
  BY Zenon, <1>3, CachePacket DEF Sniff
<1>4. ASSUME NEW lost \in SUBSET Listed, CompileDomainAllowlist(lost) \/ DriftTick(lost)
      PROVE  CacheInv'
  BY <1>2, <1>4 DEF CompileDomainAllowlist, DriftTick, sniffed, resolved, CacheInv
<1>5. ASSUME NEW lost \in SUBSET Listed, NEW noUpdate \in SUBSET Addrs,
             seedDefendOwners(lost, noUpdate)
      PROVE  CacheInv'
  <2>1. Cardinality(noUpdate) \in Nat
    BY Zenon, DnsAssumption, CardinalitySubset, CardinalityType
  <2>2. failures' \in Nat /\ (failures' = 0 => failures = 0)
    BY <1>5, <2>1 DEF seedDefendOwners, CacheInv
  <2>3. DOMAIN kmap' = DOMAIN kmap /\ kmap'["detect"] = kmap["detect"]
    BY Zenon, <1>5 DEF seedDefendOwners, CacheInv
  <2>4. UNCHANGED <<world, entries, heard, now, evictions>>
    BY Zenon, <1>5 DEF seedDefendOwners, sniffed, resolved
  <2> QED BY <1>1, <2>2, <2>3, <2>4 DEF CacheInv, Mirrored
<1>6. ASSUME NEW m \in DOMAIN kmap, NEW a, Evict(m, a) PROVE CacheInv'
  <2>1. evictions' \in Nat /\ evictions' # 0
    BY <1>6 DEF Evict, CacheInv
  <2>2. DOMAIN kmap' = DOMAIN kmap /\ UNCHANGED <<world, entries, heard, now, failures>>
    BY Zenon, <1>6 DEF Evict, sniffed, resolved
  <2> QED BY <1>1, <2>1, <2>2 DEF CacheInv, Mirrored
<1>7. CASE \E n \in Listed, as \in SUBSET Addrs : Rotate(n, as)
  BY <1>2, <1>7 DEF Rotate, sniffed, CacheInv
<1>8. CASE Tick
  BY <1>2, <1>8 DEF Tick, sniffed, resolved, CacheInv
<1>9. CASE UNCHANGED vars
  BY <1>2, <1>9 DEF vars, sniffed, resolved, CacheInv
<1> QED BY Zenon, <1>3, <1>4, <1>5, <1>6, <1>7, <1>8, <1>9 DEF Next, Resolve, Seed, Reseed

LEMMA CacheInit == Init => CacheInv
<1> SUFFICES ASSUME Init PROVE CacheInv
  OBVIOUS
<1>1. DOMAIN entries = {} /\ Cardinality(DOMAIN entries) = 0
  BY Zenon, CardinalityEmpty DEF Init, Empty
<1>2. kmap["detect"] = [a \in DOMAIN entries |-> entries[a].name]
  BY <1>1 DEF Init, Empty
<1> QED BY <1>1, <1>2, DnsAssumption DEF Init, CacheInv, Mirrored

\* The cache is bounded, and the detection map holds exactly what it holds unless a
\* map call failed or the kernel evicted an entry.
THEOREM MapMirrorsCache == Spec => []KernelMirrors
<1>1. CacheInv => KernelMirrors
  BY DEF CacheInv, Mirrored, KernelMirrors
<1> QED BY <1>1, CacheInit, CacheStep, PTL DEF Spec

\* No attribution is older than the largest TTL, whatever the replies say.
THEOREM FreshAttributions == Spec => []AttributionFresh
<1>1. CacheInv => AttributionFresh
  <2> SUFFICES ASSUME CacheInv, NEW a \in Addrs, LookupProvenance(a) # ""
               PROVE  LET at == heard[a][LookupProvenance(a)] IN at > 0 /\ now < at + MaxTTL
    BY Zenon DEF AttributionFresh
  <2>1. a \in DOMAIN entries /\ now < entries[a].expires
        /\ LookupProvenance(a) = entries[a].name
    BY Zenon DEF LookupProvenance
  <2>2. Heard(a)
    BY Zenon, <2>1 DEF CacheInv
  <2>3. now \in Nat /\ MaxTTL \in Nat
    BY Zenon, DnsAssumption DEF CacheInv
  <2> QED BY Zenon, <2>1, <2>2, <2>3, WithinTTL DEF Heard
<1> QED BY <1>1, CacheInit, CacheStep, PTL DEF Spec

\* While an attribution is valid, a reply replaces its name only by one that is no
\* longer than it.
THEOREM ShortOwnersStay == Spec => ShortOwnerStays
<1> DEFINE Shorter == \A a \in Addrs :
             LookupProvenance(a) # "" /\ LookupProvenance(a)' # "" =>
               Length[LookupProvenance(a)'] <= Length[LookupProvenance(a)]
<1>1. ASSUME CacheInv, [Next]_vars PROVE Shorter
  <2> SUFFICES ASSUME NEW a \in Addrs, LookupProvenance(a) # "", LookupProvenance(a)' # ""
               PROVE  Length[LookupProvenance(a)'] <= Length[LookupProvenance(a)]
    BY Zenon
  <2>1. /\ a \in DOMAIN entries /\ now < entries[a].expires
        /\ LookupProvenance(a) = entries[a].name
        /\ a \in DOMAIN entries' /\ LookupProvenance(a)' = entries'[a].name
    BY Zenon DEF LookupProvenance
  <2>2. Length[entries'[a].name] <= Length[entries[a].name]
    BY Zenon, <1>1, <2>1, OwnerShortens
  <2> QED BY <2>1, <2>2, Zenon
<1>2. ASSUME CacheInv, [Next]_vars PROVE [Shorter]_vars
  BY Zenon, <1>1, <1>2
<1>3. Spec => [][Shorter]_vars
  BY <1>2, CacheInit, CacheStep, PTL DEF Spec
<1> QED BY <1>3 DEF ShortOwnerStays

-----------------------------------------------------------------------------
(* Owners.                                                                 *)

\* ResolveOwners always finds the smallest of the names an address belongs to.
LEMMA LeastName ==
  ASSUME NEW T \in SUBSET Listed, T # {}
  PROVE  \E n \in T : \A o \in T : Rank[n] <= Rank[o]
<1> DEFINE R == {Rank[n] : n \in T}
<1>1. Rank \in [Listed -> Nat]
  BY DnsAssumption
<1>2. R \subseteq Nat /\ R # {}
  BY <1>1
<1>3. \E x \in R : \A y \in R : ~ (<<y, x>> \in Fin!OpToRel(<, Nat))
  <2> HIDE DEF R
  <2> QED BY Zenon, <1>2, Fin!NatLessThanWellFounded, Fin!WFMin
<1>4. PICK x \in R : \A y \in R : ~ (<<y, x>> \in Fin!OpToRel(<, Nat))
  BY Zenon, <1>3
<1>5. \A y \in R : ~ (y < x)
  BY Zenon, <1>2, <1>4 DEF Fin!OpToRel
<1>6. PICK n \in T : x = Rank[n]
  OBVIOUS
<1>7. ASSUME NEW o \in T PROVE Rank[n] <= Rank[o]
  <2>1. Rank[o] \in R /\ Rank[o] \in Nat /\ Rank[n] \in Nat
    BY <1>1
  <2>2. ~ (Rank[o] < Rank[n])
    BY <1>5, <1>6, <2>1
  <2> QED BY <2>1, <2>2
<1> QED BY <1>7

LEMMA OwnerOfFound ==
  ASSUME NEW lost \in SUBSET Listed, NEW a \in Found(lost)
  PROVE  /\ ResolveOwners(lost)[a] \in Listed
         /\ a \in Answers(lost)[ResolveOwners(lost)[a]]
<1> DEFINE T == {n \in Listed : a \in Answers(lost)[n]}
           P(n) == /\ a \in Answers(lost)[n]
                   /\ \A o \in Listed : a \in Answers(lost)[o] => Rank[n] <= Rank[o]
<1>1. T \in SUBSET Listed /\ T # {}
  BY DEF Found
<1>2. \E n \in T : \A o \in T : Rank[n] <= Rank[o]
  BY Zenon, <1>1, LeastName
<1>3. \E n \in Listed : P(n)
  BY <1>2
<1>4. ResolveOwners(lost)[a] = CHOOSE n \in Listed : P(n)
  BY DEF ResolveOwners
<1> QED BY <1>3, <1>4

LEMMA TrustedSeed ==
  ASSUME Trusted, NEW lost \in SUBSET Listed, NEW noUpdate, seedDefendOwners(lost, noUpdate)
  PROVE  Trusted'
<1> DEFINE new == Without(ResolveOwners(lost), noUpdate)
<1>1. kmap' = [kmap EXCEPT !["enforce"] = With(@, new)]
  BY DEF seedDefendOwners
<1>2. answered' = answered \cup UNION {{<<a, n>> : a \in Answers(lost)[n]} : n \in Listed}
  BY DEF seedDefendOwners, Asks
<1>3. DOMAIN new \subseteq Found(lost) /\ \A a \in DOMAIN new : new[a] = ResolveOwners(lost)[a]
  BY DEF Without, ResolveOwners
<1>4. \A a \in DOMAIN new : new[a] \in Listed /\ <<a, new[a]>> \in answered'
  BY <1>2, <1>3, OwnerOfFound
<1> HIDE DEF new
<1>5. DOMAIN kmap' = DOMAIN kmap /\ kmap'["enforce"] = With(kmap["enforce"], new)
  BY <1>1 DEF Trusted
<1>6. \A a \in DOMAIN kmap'["enforce"] :
        \/ a \in DOMAIN new /\ kmap'["enforce"][a] = new[a]
        \/ a \in DOMAIN kmap["enforce"] /\ kmap'["enforce"][a] = kmap["enforce"][a]
  BY <1>5 DEF With
<1> QED BY <1>2, <1>4, <1>5, <1>6 DEF Trusted, OwnersTrusted

LEMMA TrustedStep == Trusted /\ [Next]_vars => Trusted'
<1>0. SUFFICES ASSUME Trusted, [Next]_vars PROVE Trusted'
  OBVIOUS
<1>1. ASSUME DOMAIN kmap' = DOMAIN kmap, kmap'["enforce"] = kmap["enforce"],
             answered \subseteq answered'
      PROVE  Trusted'
  BY <1>0, <1>1 DEF Trusted, OwnersTrusted
<1>2. CASE Sniff
  <2>1. PICK ans \in Replies : AddFromPacket(ans)
    BY Zenon, <1>2 DEF Sniff
  <2> QED BY Zenon, <1>0, <1>1, <2>1, PacketKeepsOwners
<1>3. ASSUME NEW lost \in SUBSET Listed, CompileDomainAllowlist(lost) \/ DriftTick(lost)
      PROVE  Trusted'
  BY Zenon, <1>1, <1>3 DEF CompileDomainAllowlist, DriftTick, Asks
<1>4. ASSUME NEW lost \in SUBSET Listed, NEW noUpdate,
             Seed(lost, noUpdate) \/ Reseed(lost, noUpdate)
      PROVE  Trusted'
  BY Zenon, <1>0, <1>4, TrustedSeed DEF Seed, Reseed
<1>5. ASSUME NEW n, NEW as, Rotate(n, as) PROVE Trusted'
  BY <1>1, <1>5 DEF Rotate
<1>6. ASSUME NEW m \in DOMAIN kmap, NEW a, Evict(m, a) PROVE Trusted'
  <2>1. kmap' = [kmap EXCEPT ![m] = Without(@, {a})] /\ answered' = answered
    BY <1>6 DEF Evict
  <2>2. DOMAIN kmap' = DOMAIN kmap /\ DOMAIN kmap'["enforce"] \subseteq DOMAIN kmap["enforce"]
        /\ \A b \in DOMAIN kmap'["enforce"] : kmap'["enforce"][b] = kmap["enforce"][b]
    BY <1>0, <2>1 DEF Trusted, Without
  <2> QED BY Zenon, <1>0, <2>1, <2>2 DEF Trusted, OwnersTrusted
<1>7. CASE Tick
  BY <1>1, <1>7 DEF Tick
<1>8. CASE UNCHANGED vars
  BY <1>1, <1>8 DEF vars
<1> QED BY Zenon, <1>0, <1>2, <1>3, <1>4, <1>5, <1>6, <1>7, <1>8 DEF Next, Resolve

\* Whatever replies are sniffed, the enforcement map names only listed owners that
\* the agent's own resolver gave for that very address.
THEOREM OnlyTrustedOwners == Spec => []OwnersTrusted
<1>1. Init => Trusted
  BY DEF Init, Trusted, OwnersTrusted, Empty
<1>2. Trusted => OwnersTrusted
  BY DEF Trusted
<1> QED BY <1>1, <1>2, TrustedStep, PTL DEF Spec
=============================================================================
