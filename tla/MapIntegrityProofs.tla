------------------------- MODULE MapIntegrityProofs -------------------------
(***************************************************************************)
(* Proofs about MapIntegrity, for addresses of any width, any policy, any  *)
(* set of backends and any number of outside changes and failing calls.    *)
(***************************************************************************)
EXTENDS MapIntegrity, TLAPS

-----------------------------------------------------------------------------
(* Keys.                                                                   *)

\* The address of a host key is masked by nothing: the only address it covers is itself.
LEMMA MaskFull == \A a \in Addr : Mask(a, Width) = a
<1> SUFFICES ASSUME NEW a \in Addr PROVE Mask(a, Width) = a
  OBVIOUS
<1>1. a \in Nat
  BY WidthAssumption DEF Addr
<1>2. Width - Width = 0
  BY WidthAssumption
<1>3. 2^0 = 1
  OBVIOUS
<1>4. a % 1 = 0
  BY <1>1
<1>5. Mask(a, Width) = a - (a % 2^0)
  BY Zenon, <1>2 DEF Mask
<1> QED
  BY <1>1, <1>3, <1>4, <1>5

\* What the watcher expects is what startup programmed.
LEMMA ExpectedProgrammed == \A m : Expected(m) = Programmed(m)
  BY DEF Expected, Programmed, expectedAllowedKeys, expectedIgnoredKeys

\* The keys of a policy are keys.
LEMMA ExpectedKeys == \A m : Expected(m) \subseteq Keys
<1>1. \A a \in Addr, len \in 0..Width : Key(a, len) \in Keys
  BY DEF Keys
<1>2. Width \in 0..Width
  BY WidthAssumption
<1>3. HostKeys(Hosts) \subseteq Keys
  BY <1>1, <1>2, IntegrityAssumption DEF HostKeys
<1>4. NetKeys(Nets) \subseteq Keys /\ NetKeys(IgnoredNets) \subseteq Keys
  BY <1>1, IntegrityAssumption DEF NetKeys, Cidr
<1> QED
  BY <1>3, <1>4 DEF Expected, expectedAllowedKeys, expectedIgnoredKeys

\* A trie with the keys of a CIDR list covers the addresses of its CIDRs.
LEMMA NetsCover ==
  ASSUME NEW nets, NEW a
  PROVE  Hit(NetKeys(nets), a) <=> \E n \in nets : Contains(n, a)
<1>1. \A n : Covers(Key(n.addr, n.len), a) <=> Contains(n, a)
  BY DEF Covers, Key, Contains
<1> QED
  BY <1>1 DEF Hit, NetKeys

\* A trie with the keys of hosts covers the hosts.
LEMMA HostsCover ==
  ASSUME NEW a \in Addr
  PROVE  Hit(HostKeys(Hosts), a) <=> a \in Hosts
<1>1. \A h \in Hosts : Covers(Key(h, Width), a) <=> a = h
  BY MaskFull, IntegrityAssumption DEF Covers, Key
<1> QED
  BY <1>1 DEF Hit, HostKeys

\* The keys startup programs cover exactly the addresses of the policy.
LEMMA ProgrammedCovers ==
  ASSUME NEW a \in Addr
  PROVE  Hit(Programmed("allowed"), a) \/ Hit(Programmed("ignored"), a) <=> Permitted(a)
<1>1. Programmed("allowed") = HostKeys(Hosts) \cup NetKeys(Nets)
  BY DEF Programmed
<1>2. Programmed("ignored") = NetKeys(IgnoredNets)
  BY DEF Programmed
<1>3. Hit(Programmed("allowed"), a) <=> Hit(HostKeys(Hosts), a) \/ Hit(NetKeys(Nets), a)
  BY <1>1 DEF Hit
<1> QED
  BY <1>2, <1>3, HostsCover, NetsCover DEF Permitted

-----------------------------------------------------------------------------
(* The inductive invariant.                                                *)

\* The progress of a repair: stale keys are not expected, and while nobody else
\* writes the expected keys that are no longer to do are in the trie.
Progress(b) ==
  /\ todo[b] \subseteq Expected(cur[b])
  /\ stale[b] \cap Expected(cur[b]) = {}
  /\ calm[b] => Expected(cur[b]) \ todo[b] \subseteq trie[b][cur[b]]

RepairInv == \A b \in Backends : pc[b] = "reconcile" => Progress(b)

\* Undisturbed, a loaded backend holds what startup programmed and is not repaired.
QuietInv ==
  disturbs = 0 =>
    /\ failures > 0 => faults > 0
    /\ \A b \in Backends : pc[b] # "off" =>
         /\ mode[b] = 1
         /\ \A m \in Maps : trie[b][m] = Expected(m)
         /\ pc[b] \notin {"rearm", "reconcile"}

\* Only loaded backends are attached.
AttachInv == \A b \in attached : pc[b] # "off"

IInv == TypeOK /\ RepairInv /\ QuietInv /\ AttachInv

\* Type correctness: every step of the watchers and of another writer keeps the
\* maps sets of keys and the counters within their bounds.
LEMMA TypeStep == TypeOK /\ [Next]_vars => TypeOK'
<1> SUFFICES ASSUME TypeOK, [Next]_vars PROVE TypeOK'
  OBVIOUS
<1> USE IntegrityAssumption, ExpectedKeys DEF TypeOK, Maps
<1>1. ASSUME NEW b \in Backends, LoadMaps(b) PROVE TypeOK'
  <2>1. [m \in Maps |-> Programmed(m)] \in [Maps -> SUBSET Keys]
    BY ExpectedProgrammed
  <2> QED
    BY <1>1, <2>1 DEF LoadMaps
<1>2. ASSUME NEW b \in Backends, Attach(b) PROVE TypeOK'
  BY <1>2 DEF Attach, maps
<1>3. ASSUME NEW b \in Backends, Tick(b) PROVE TypeOK'
  BY <1>3 DEF Tick, maps
<1>4. ASSUME NEW b \in Backends, CheckCfg(b) PROVE TypeOK'
  BY <1>4 DEF CheckCfg, Fault, NoFault, maps
<1>5. ASSUME NEW b \in Backends, RevertCfg(b) PROVE TypeOK'
  BY <1>5 DEF RevertCfg, Fault, NoFault
<1>6. ASSUME NEW b \in Backends, Survey(b) PROVE TypeOK'
  <2>1. UNCHANGED <<maps, attached, todo, stale, calm, disturbs>>
    BY <1>6 DEF Survey
  <2>2. \/ pc' = [pc EXCEPT ![b] = IF cur[b] = "allowed" THEN "survey" ELSE "idle"]
        \/ pc' = [pc EXCEPT ![b] = "rearm"]
    BY <1>6 DEF Survey, Advance
  <2>3. pc' \in [Backends -> {"off", "loaded", "idle", "cfg", "revert", "survey", "rearm", "reconcile"}]
    BY <2>2
  <2>4. cur' \in [Backends -> Maps]
    BY <1>6 DEF Survey, Advance
  <2>5. faults' \in 0..MaxFaults
    BY <1>6 DEF Survey, Fault, NoFault
  <2>6. failures' \in Nat
    BY <1>6 DEF Survey
  <2> QED
    BY <2>1, <2>3, <2>4, <2>5, <2>6 DEF maps
<1>7. ASSUME NEW b \in Backends, StartReconcile(b) PROVE TypeOK'
  <2>1. Expected(cur[b]) \in SUBSET Keys /\ trie[b][cur[b]] \ Expected(cur[b]) \in SUBSET Keys
    OBVIOUS
  <2>2. UNCHANGED <<maps, attached, failures, disturbs>>
    BY <1>7 DEF StartReconcile
  <2>3. pc' \in [Backends -> {"off", "loaded", "idle", "cfg", "revert", "survey", "rearm", "reconcile"}]
    BY <1>7 DEF StartReconcile, Advance
  <2>4. cur' \in [Backends -> Maps]
    BY <1>7 DEF StartReconcile, Advance
  <2>5. calm' \in [Backends -> BOOLEAN]
    BY <1>7, Zenon DEF StartReconcile
  <2>6. faults' \in 0..MaxFaults
    BY <1>7 DEF StartReconcile, Fault, NoFault
  <2>7. todo' \in [Backends -> SUBSET Keys]
    BY <1>7, <2>1 DEF StartReconcile
  <2>8. stale' \in [Backends -> SUBSET Keys]
    BY <1>7, <2>1 DEF StartReconcile
  <2> QED
    BY <2>2, <2>3, <2>4, <2>5, <2>6, <2>7, <2>8 DEF maps
<1>8. ASSUME NEW b \in Backends, ReconcileFails(b) PROVE TypeOK'
  BY <1>8 DEF ReconcileFails, Advance, Fault, maps
<1>9. ASSUME NEW b \in Backends, NEW key \in Keys, InsertExpected(b, key) PROVE TypeOK'
  BY <1>9 DEF InsertExpected
<1>10. ASSUME NEW b \in Backends, NEW key \in Keys, DeleteStale(b, key) PROVE TypeOK'
  BY <1>10 DEF DeleteStale
<1>11. ASSUME NEW b \in Backends, EndReconcile(b) PROVE TypeOK'
  BY <1>11 DEF EndReconcile, Advance, maps
<1>12. ASSUME NEW b \in Backends, DisturbMode(b) PROVE TypeOK'
  BY <1>12 DEF DisturbMode, Disturbed, watcher
<1>13. ASSUME NEW b \in Backends, NEW m \in Maps, NEW key \in Keys, DisturbTrie(b, m, key) PROVE TypeOK'
  <2>1. UNCHANGED <<mode, attached, watcher, failures, faults>> /\ disturbs' \in 0..MaxDisturbs
    BY <1>13 DEF DisturbTrie, Disturbed
  <2>2. calm' \in [Backends -> BOOLEAN]
    BY <1>13 DEF DisturbTrie, Disturbed
  <2>3. \E s \in SUBSET Keys : trie' = [trie EXCEPT ![b][m] = s]
    <3>1. trie[b][m] \cup {key} \in SUBSET Keys /\ trie[b][m] \ {key} \in SUBSET Keys
      OBVIOUS
    <3> QED
      BY Zenon, <1>13, <3>1 DEF DisturbTrie
  <2>4. trie' \in [Backends -> [Maps -> SUBSET Keys]]
    BY <2>3
  <2> QED
    BY <2>1, <2>2, <2>4 DEF watcher
<1>14. CASE UNCHANGED vars
  BY <1>14 DEF vars, maps, watcher
<1> QED
  BY <1>1, <1>2, <1>3, <1>4, <1>5, <1>6, <1>7, <1>8, <1>9, <1>10, <1>11, <1>12, <1>13, <1>14 DEF Next, Watch

\* A step keeps the progress of every repair: it begins with a survey, an insertion
\* takes a key from todo to the trie, a deletion takes no expected key away, and what
\* another writer does makes calm false.
LEMMA RepairStep == TypeOK /\ RepairInv /\ [Next]_vars => RepairInv'
<1> SUFFICES ASSUME TypeOK, RepairInv, [Next]_vars, NEW c \in Backends, pc'[c] = "reconcile"
             PROVE  Progress(c)'
  BY DEF RepairInv, Progress
<1> USE DEF TypeOK, Maps
<1>a. pc[c] = "reconcile" => Progress(c)
  BY DEF RepairInv, Progress
<1> DEFINE Kept == /\ pc'[c] = pc[c] /\ cur'[c] = cur[c] /\ todo'[c] = todo[c]
                   /\ stale'[c] = stale[c] /\ calm'[c] = calm[c] /\ trie'[c] = trie[c]
<1>b. ASSUME Kept PROVE Progress(c)'
  BY <1>a, <1>b DEF Progress
<1>1. ASSUME NEW b \in Backends, LoadMaps(b) PROVE Progress(c)'
  <2>1. b # c
    BY <1>1 DEF LoadMaps
  <2> QED
    BY <1>1, <1>b, <2>1 DEF LoadMaps
<1>2. ASSUME NEW b \in Backends, Attach(b) PROVE Progress(c)'
  BY <1>2, <1>b DEF Attach, maps
<1>3. ASSUME NEW b \in Backends, Tick(b) PROVE Progress(c)'
  BY <1>3, <1>b DEF Tick, maps
<1>4. ASSUME NEW b \in Backends, CheckCfg(b) PROVE Progress(c)'
  BY <1>4, <1>b DEF CheckCfg, maps
<1>5. ASSUME NEW b \in Backends, RevertCfg(b) PROVE Progress(c)'
  BY <1>5, <1>b DEF RevertCfg
<1>6. ASSUME NEW b \in Backends, Survey(b) PROVE Progress(c)'
  BY <1>6, <1>b DEF Survey, Advance, maps
<1>7. ASSUME NEW b \in Backends, StartReconcile(b) PROVE Progress(c)'
  <2>1. CASE b # c
    BY <1>7, <1>b, <2>1 DEF StartReconcile, Advance, maps
  <2>2. CASE b = c
    <3>1. /\ todo'[c] = Expected(cur[c])
          /\ stale'[c] = trie[c][cur[c]] \ Expected(cur[c])
          /\ cur'[c] = cur[c]
      BY <1>7, <2>2 DEF StartReconcile, Advance
    <3> QED
      BY <3>1 DEF Progress
  <2> QED
    BY <2>1, <2>2
<1>8. ASSUME NEW b \in Backends, ReconcileFails(b) PROVE Progress(c)'
  BY <1>8, <1>b DEF ReconcileFails, Advance, maps
<1>9. ASSUME NEW b \in Backends, NEW key \in Keys, InsertExpected(b, key) PROVE Progress(c)'
  <2>1. CASE b # c
    BY <1>9, <1>b, <2>1 DEF InsertExpected
  <2>2. CASE b = c
    <3>1. /\ pc[c] = "reconcile" /\ cur' = cur /\ stale' = stale /\ calm' = calm
          /\ key \in todo[c]
          /\ todo'[c] = todo[c] \ {key}
          /\ trie'[c][cur[c]] = trie[c][cur[c]] \cup {key}
      BY <1>9, <2>2 DEF InsertExpected
    <3> QED
      BY <1>a, <3>1 DEF Progress
  <2> QED
    BY <2>1, <2>2
<1>10. ASSUME NEW b \in Backends, NEW key \in Keys, DeleteStale(b, key) PROVE Progress(c)'
  <2>1. CASE b # c
    BY <1>10, <1>b, <2>1 DEF DeleteStale
  <2>2. CASE b = c
    <3>1. /\ pc[c] = "reconcile" /\ cur' = cur /\ todo' = todo /\ calm' = calm
          /\ key \in stale[c]
          /\ stale'[c] = stale[c] \ {key}
          /\ trie'[c][cur[c]] = trie[c][cur[c]] \ {key}
      BY <1>10, <2>2 DEF DeleteStale
    <3> QED
      BY <1>a, <3>1 DEF Progress
  <2> QED
    BY <2>1, <2>2
<1>11. ASSUME NEW b \in Backends, EndReconcile(b) PROVE Progress(c)'
  BY <1>11, <1>b DEF EndReconcile, Advance, maps
<1>12. ASSUME NEW b \in Backends, DisturbMode(b) PROVE Progress(c)'
  BY <1>12, <1>a DEF DisturbMode, Disturbed, watcher, Progress
<1>13. ASSUME NEW b \in Backends, NEW m \in Maps, NEW key \in Keys, DisturbTrie(b, m, key)
       PROVE  Progress(c)'
  <2>1. pc' = pc /\ cur' = cur /\ todo' = todo /\ stale' = stale
    BY <1>13 DEF DisturbTrie, Disturbed, watcher
  <2>2. CASE b # c
    <3>1. calm'[c] = calm[c] /\ trie'[c] = trie[c]
      BY Zenon, <1>13, <2>2 DEF DisturbTrie, Disturbed
    <3> QED
      BY <1>b, <2>1, <3>1
  <2>3. CASE b = c
    <3>1. ~ calm'[c]
      BY <1>13, <2>3 DEF DisturbTrie, Disturbed
    <3> QED
      BY <1>a, <2>1, <3>1 DEF Progress
  <2> QED
    BY <2>2, <2>3
<1>14. CASE UNCHANGED vars
  BY <1>14, <1>b DEF vars, maps, watcher
<1> QED
  BY <1>1, <1>2, <1>3, <1>4, <1>5, <1>6, <1>7, <1>8, <1>9, <1>10, <1>11, <1>12, <1>13, <1>14 DEF Next, Watch

\* A step keeps an undisturbed backend as startup programmed it: the survey finds the
\* keys it expects, so that no repair begins, and a revert writes the value there is.
LEMMA QuietStep == TypeOK /\ QuietInv /\ AttachInv /\ [Next]_vars => QuietInv' /\ AttachInv'
<1> SUFFICES ASSUME TypeOK, QuietInv, AttachInv, [Next]_vars PROVE QuietInv' /\ AttachInv'
  OBVIOUS
<1> USE DEF TypeOK
<1>1. ASSUME NEW b \in Backends, LoadMaps(b) PROVE QuietInv' /\ AttachInv'
  <2>1. trie' = [trie EXCEPT ![b] = [m \in Maps |-> Expected(m)]]
    BY Zenon, <1>1, ExpectedProgrammed DEF LoadMaps
  <2>2. \A m \in Maps : trie'[b][m] = Expected(m)
    BY <2>1
  <2>3. \A c \in Backends : c # b => trie'[c] = trie[c]
    BY <2>1
  <2>4. /\ mode' = [mode EXCEPT ![b] = 1] /\ pc' = [pc EXCEPT ![b] = "loaded"]
        /\ UNCHANGED <<attached, failures, disturbs, faults>>
    BY <1>1 DEF LoadMaps
  <2> QED
    BY <2>2, <2>3, <2>4 DEF QuietInv, AttachInv
<1>2. ASSUME NEW b \in Backends, Attach(b) PROVE QuietInv' /\ AttachInv'
  BY <1>2 DEF Attach, maps, QuietInv, AttachInv
<1>3. ASSUME NEW b \in Backends, Tick(b) PROVE QuietInv' /\ AttachInv'
  BY <1>3 DEF Tick, maps, QuietInv, AttachInv
<1>4. ASSUME NEW b \in Backends, CheckCfg(b) PROVE QuietInv' /\ AttachInv'
  BY <1>4 DEF CheckCfg, Fault, NoFault, maps, QuietInv, AttachInv
<1>5. ASSUME NEW b \in Backends, RevertCfg(b) PROVE QuietInv' /\ AttachInv'
  BY <1>5 DEF RevertCfg, Fault, NoFault, QuietInv, AttachInv
<1>6. ASSUME NEW b \in Backends, Survey(b) PROVE QuietInv' /\ AttachInv'
  BY <1>6 DEF Survey, Advance, lpmKeysetsEqual, Fault, NoFault, maps, QuietInv, AttachInv
<1>7. ASSUME NEW b \in Backends, StartReconcile(b) PROVE QuietInv' /\ AttachInv'
  BY <1>7 DEF StartReconcile, Advance, maps, QuietInv, AttachInv
<1>8. ASSUME NEW b \in Backends, ReconcileFails(b) PROVE QuietInv' /\ AttachInv'
  BY <1>8 DEF ReconcileFails, Advance, maps, QuietInv, AttachInv
<1>9. ASSUME NEW b \in Backends, NEW key \in Keys, InsertExpected(b, key) PROVE QuietInv' /\ AttachInv'
  BY <1>9 DEF InsertExpected, QuietInv, AttachInv
<1>10. ASSUME NEW b \in Backends, NEW key \in Keys, DeleteStale(b, key) PROVE QuietInv' /\ AttachInv'
  BY <1>10 DEF DeleteStale, QuietInv, AttachInv
<1>11. ASSUME NEW b \in Backends, EndReconcile(b) PROVE QuietInv' /\ AttachInv'
  BY <1>11 DEF EndReconcile, Advance, maps, QuietInv, AttachInv
<1>12. ASSUME NEW b \in Backends, DisturbMode(b) PROVE QuietInv' /\ AttachInv'
  BY <1>12, IntegrityAssumption DEF DisturbMode, Disturbed, watcher, QuietInv, AttachInv
<1>13. ASSUME NEW b \in Backends, NEW m \in Maps, NEW key \in Keys, DisturbTrie(b, m, key)
       PROVE  QuietInv' /\ AttachInv'
  BY <1>13, IntegrityAssumption DEF DisturbTrie, Disturbed, watcher, QuietInv, AttachInv
<1>14. CASE UNCHANGED vars
  BY <1>14 DEF vars, maps, watcher, QuietInv, AttachInv
<1> QED
  BY <1>1, <1>2, <1>3, <1>4, <1>5, <1>6, <1>7, <1>8, <1>9, <1>10, <1>11, <1>12, <1>13, <1>14 DEF Next, Watch

-----------------------------------------------------------------------------
(* Theorems.                                                               *)

LEMMA InitIInv == Init => IInv
  BY IntegrityAssumption DEF Init, IInv, TypeOK, RepairInv, QuietInv, AttachInv, Maps

\* The inductive invariant holds in every reachable state of checkMapIntegrity and its maps.
THEOREM Invariant == Spec => []IInv
<1>1. IInv /\ [Next]_vars => IInv'
  BY TypeStep, RepairStep, QuietStep DEF IInv
<1> QED
  BY InitIInv, <1>1, PTL DEF Spec

\* Type correctness of the defend maps and of the watchers.
THEOREM TypeCorrect == Spec => []TypeOK
<1>1. IInv => TypeOK
  BY DEF IInv
<1> QED
  BY Invariant, <1>1, PTL

\* Undisturbed, an attached backend lets exactly the addresses of the policy pass,
\* for every allowlist and however the watcher's system calls fail.
THEOREM PolicyEnforced == Spec => []EnforcesPolicy
<1>1. IInv => EnforcesPolicy
  <2> SUFFICES ASSUME IInv, disturbs = 0, NEW b \in attached, NEW a \in Addr
               PROVE  Passes(b, a) <=> Permitted(a)
    BY DEF EnforcesPolicy
  <2>1. b \in Backends /\ pc[b] # "off"
    BY DEF IInv, TypeOK, AttachInv
  <2>2. mode[b] = 1 /\ \A m \in Maps : trie[b][m] = Expected(m)
    BY <2>1 DEF IInv, QuietInv
  <2>3. trie[b]["allowed"] = Programmed("allowed") /\ trie[b]["ignored"] = Programmed("ignored")
    BY <2>2, ExpectedProgrammed DEF Maps
  <2> QED
    BY <2>2, <2>3, ProgrammedCovers DEF Passes, defense_enabled, dst_in_ignored, dst_is_allowlisted
<1> QED
  BY Invariant, <1>1, PTL

\* checkMapIntegrity records a failure only after an outside change or a failing call.
THEOREM AlarmsJustified == Spec => []NoFalseAlarm
<1>1. IInv => NoFalseAlarm
  <2> SUFFICES ASSUME IInv, failures > 0 PROVE disturbs + faults > 0
    BY DEF NoFalseAlarm
  <2>1. disturbs \in Nat /\ faults \in Nat
    BY IntegrityAssumption DEF IInv, TypeOK
  <2>2. disturbs = 0 => faults > 0
    BY DEF IInv, QuietInv
  <2> QED
    BY <2>1, <2>2
<1> QED
  BY Invariant, <1>1, PTL

\* While nobody else writes, no step takes an address a trie is meant to hold out of it.
LEMMA KeepsHits ==
  ASSUME IInv, Next, NEW c \in Backends, NEW m \in Maps, NEW a \in Addr,
         calm[c], calm'[c], Hit(Programmed(m), a), Hit(trie[c][m], a)
  PROVE  Hit(trie'[c][m], a)
<1> USE DEF IInv, TypeOK
<1>a. ASSUME trie[c][m] \subseteq trie'[c][m] PROVE Hit(trie'[c][m], a)
  BY <1>a DEF Hit
<1>1. ASSUME NEW b \in Backends, LoadMaps(b) PROVE Hit(trie'[c][m], a)
  <2>1. trie' = [trie EXCEPT ![b] = [k \in Maps |-> Programmed(k)]]
    BY <1>1 DEF LoadMaps
  <2>2. trie'[c][m] = Programmed(m) \/ trie'[c][m] = trie[c][m]
    BY <2>1
  <2> QED
    BY <2>2
<1>2. ASSUME NEW b \in Backends, NEW key \in Keys, InsertExpected(b, key) PROVE Hit(trie'[c][m], a)
  <2>1. trie' = [trie EXCEPT ![b][cur[b]] = trie[b][cur[b]] \cup {key}]
    BY <1>2 DEF InsertExpected
  <2>2. trie[c][m] \subseteq trie'[c][m]
    BY <2>1
  <2> QED
    BY <1>a, <2>2
<1>3. ASSUME NEW b \in Backends, NEW key \in Keys, DeleteStale(b, key) PROVE Hit(trie'[c][m], a)
  <2>1. trie' = [trie EXCEPT ![b][cur[b]] = trie[b][cur[b]] \ {key}]
    BY <1>3 DEF DeleteStale
  <2>2. CASE c = b /\ m = cur[b]
    <3>1. Progress(b) /\ todo[b] = {} /\ key \in stale[b] /\ calm[b]
      BY <1>3, <2>2 DEF DeleteStale, RepairInv
    <3>2. Expected(m) \subseteq trie[b][m] \ {key}
      BY <2>2, <3>1 DEF Progress
    <3>3. trie'[c][m] = trie[b][m] \ {key}
      BY <2>1, <2>2
    <3> QED
      BY <3>2, <3>3, ExpectedProgrammed DEF Hit
  <2>3. CASE c # b \/ m # cur[b]
    <3>1. trie'[c][m] = trie[c][m]
      BY <2>1, <2>3
    <3> QED
      BY <3>1
  <2> QED
    BY <2>2, <2>3
<1>4. ASSUME NEW b \in Backends, NEW k \in Maps, NEW key \in Keys, DisturbTrie(b, k, key)
      PROVE  Hit(trie'[c][m], a)
  <2>1. b # c
    BY <1>4 DEF DisturbTrie, Disturbed
  <2>2. trie'[c] = trie[c]
    BY <1>4, <2>1 DEF DisturbTrie
  <2> QED
    BY <2>2
<1>5. ASSUME trie' = trie PROVE Hit(trie'[c][m], a)
  BY <1>5
<1> QED
  BY Zenon, <1>1, <1>2, <1>3, <1>4, <1>5 DEF Next, Watch, Attach, Tick, CheckCfg, RevertCfg, Survey,
     StartReconcile, ReconcileFails, EndReconcile, DisturbMode, maps

\* reconcileLPMMap opens no window in which a trie misses an address that it is meant
\* to hold and did hold.
THEOREM NoWindow == Spec => NoDenyWindow
<1>1. IInv /\ [Next]_vars =>
        [\A b \in Backends, m \in Maps, a \in Addr :
           (calm[b] /\ calm'[b] /\ Hit(Programmed(m), a) /\ Hit(trie[b][m], a))
             => Hit(trie'[b][m], a)]_vars
  BY Zenon, KeepsHits
<1> QED
  BY Invariant, <1>1, PTL DEF Spec, NoDenyWindow

\* No step but another writer's admits an address that is not in the policy and was
\* not admitted.
LEMMA KeepsNarrow ==
  ASSUME IInv, Next, disturbs' = disturbs, NEW c \in Backends, NEW a \in Addr,
         Passes(c, a)', ~ Permitted(a)
  PROVE  Passes(c, a)
<1> USE DEF IInv, TypeOK
<1> SUFFICES ASSUME c \in attached, mode[c] = 1, ~ Hit(trie[c]["allowed"], a), ~ Hit(trie[c]["ignored"], a)
             PROVE  FALSE
  BY DEF Passes, defense_enabled, dst_in_ignored, dst_is_allowlisted
<1>a. \/ c \notin attached'
      \/ mode'[c] # 1 
      \/ Hit(trie'[c]["ignored"], a) \/ Hit(trie'[c]["allowed"], a)
  BY DEF Passes, defense_enabled, dst_in_ignored, dst_is_allowlisted
<1>b. ~ Hit(Expected("allowed"), a) /\ ~ Hit(Expected("ignored"), a)
  BY ProgrammedCovers, ExpectedProgrammed
<1>c. pc[c] # "off"
  BY Zenon DEF AttachInv
<1>1. ASSUME NEW b \in Backends, LoadMaps(b) PROVE FALSE
  <2>1. b # c /\ attached' = attached
    BY <1>1 DEF LoadMaps
  <2>2. mode'[c] = mode[c] /\ trie'[c] = trie[c]
    BY <1>1, <2>1 DEF LoadMaps
  <2> QED
    BY <1>a, <2>1, <2>2
<1>2. ASSUME NEW b \in Backends, Attach(b) PROVE FALSE
  BY <1>2, <1>a DEF Attach, maps
<1>3. ASSUME NEW b \in Backends, RevertCfg(b) PROVE FALSE
  BY <1>3, <1>a DEF RevertCfg
<1>4. ASSUME NEW b \in Backends, NEW key \in Keys, InsertExpected(b, key) PROVE FALSE
  <2>1. /\ mode' = mode /\ attached' = attached
        /\ trie' = [trie EXCEPT ![b][cur[b]] = trie[b][cur[b]] \cup {key}]
        /\ pc[b] = "reconcile" /\ key \in todo[b]
    BY Zenon, <1>4 DEF InsertExpected
  <2>2. key \in Expected(cur[b])
    BY <2>1 DEF RepairInv, Progress
  <2>3. ~ Covers(key, a)
    BY <1>b, <2>2 DEF Hit, Maps
  <2>4. \A m \in Maps : trie'[c][m] \subseteq trie[c][m] \cup {key}
    BY <2>1
  <2> QED
    BY <1>a, <2>1, <2>3, <2>4 DEF Hit, Maps
<1>5. ASSUME NEW b \in Backends, NEW key \in Keys, DeleteStale(b, key) PROVE FALSE
  <2>1. /\ mode' = mode /\ attached' = attached
        /\ trie' = [trie EXCEPT ![b][cur[b]] = trie[b][cur[b]] \ {key}]
    BY <1>5 DEF DeleteStale
  <2>2. \A m \in Maps : trie'[c][m] \subseteq trie[c][m]
    BY <2>1
  <2> QED
    BY <1>a, <2>1, <2>2 DEF Hit, Maps
<1>6. ASSUME mode' = mode, trie' = trie, attached' = attached PROVE FALSE
  BY <1>6, <1>a
<1>7. ASSUME NEW b \in Backends, DisturbMode(b) \/ \E m \in Maps, key \in Keys : DisturbTrie(b, m, key)
      PROVE  FALSE
  <2>1. disturbs' = disturbs + 1
    BY <1>7 DEF DisturbMode, DisturbTrie, Disturbed
  <2> QED
    BY <2>1
<1> QED
  BY Zenon, <1>1, <1>2, <1>3, <1>4, <1>5, <1>6, <1>7 DEF Next, Watch, Tick, CheckCfg, Survey,
     StartReconcile, ReconcileFails, EndReconcile, maps

\* The watcher's repairs never let an address pass that the policy does not admit.
THEOREM NeverWidens == Spec => RepairNeverWidens
<1>1. IInv /\ [Next]_vars =>
        [disturbs' = disturbs =>
           \A b \in Backends, a \in Addr : Passes(b, a)' => Passes(b, a) \/ Permitted(a)]_vars
  BY KeepsNarrow
<1> QED
  BY Invariant, <1>1, PTL DEF Spec, RepairNeverWidens
=============================================================================
