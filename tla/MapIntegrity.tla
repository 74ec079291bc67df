---------------------------- MODULE MapIntegrity ----------------------------
(***************************************************************************)
(* The defend maps of each backend and the goroutine that watches them     *)
(* (watchMapIntegrity): on every tick it checks defend_cfg and the keys of *)
(* the allowed and ignored tries, and programs them back when they differ  *)
(* from the startup snapshot.                                              *)
(*                                                                         *)
(* A map system call is one step, so a hook may decide, and another writer *)
(* may change the maps, between any two of them; iterating over a trie is  *)
(* one step.  Mode 0 stands for every value of defend_cfg but the enforcing *)
(* one, absence included.  Owner fallback, loopback and the unspecified    *)
(* address are decided in EgressHooks.                                     *)
(***************************************************************************)
EXTENDS Lpm, FiniteSets

CONSTANTS
  Backends,      \* "cgroup" and, where LSM attached, "lsm"
  Hosts,         \* allowed addresses: resolved ones and literals
  Nets,          \* allowed CIDRs, [addr, len]
  IgnoredNets,   \* ignored CIDRs
  MaxDisturbs,   \* bound: changes by another writer
  MaxFaults      \* bound: failing map system calls

Cidr == [addr : Addr, len : 0..Width]

ASSUME IntegrityAssumption ==
  /\ IsFiniteSet(Backends)
  /\ Hosts \subseteq Addr
  /\ Nets \subseteq Cidr
  /\ IgnoredNets \subseteq Cidr
  /\ MaxDisturbs \in Nat
  /\ MaxFaults \in Nat

Maps == {"allowed", "ignored"}

HostKeys(hosts) == {Key(a, Width) : a \in hosts}

\* Variation: a CIDR is programmed as the one address it is written with.
NetKeysAsHosts(nets) == {Key(n.addr, Width) : n \in nets}

NetKeys(nets) == {Key(n.addr, n.len) : n \in nets}

\* The keys startup programs: buildAllowedLPMPlan, loadIgnoredLPMMap.
Programmed(m) == IF m = "allowed" THEN HostKeys(Hosts) \cup NetKeys(Nets) ELSE NetKeys(IgnoredNets)

\* Variation: the CIDRs of the policy are left out of the expected keys.
expectedAllowedHosts == HostKeys(Hosts)

expectedAllowedKeys == HostKeys(Hosts) \cup NetKeys(Nets)

expectedIgnoredKeys == NetKeys(IgnoredNets)

\* The keys the watcher compares with and restores.
Expected(m) == IF m = "allowed" THEN expectedAllowedKeys ELSE expectedIgnoredKeys

\* An address inside a CIDR (net.IPNet.Contains).
Contains(n, a) == Mask(a, n.len) = Mask(n.addr, n.len)

\* What the policy admits, whatever the tries hold.
Permitted(a) == a \in Hosts \/ \E n \in Nets \cup IgnoredNets : Contains(n, a)

VARIABLES
  mode,       \* mode[b]: key 0 of defend_cfg
  trie,       \* trie[b][m]: keys of a trie
  attached,   \* backends whose hooks are attached
  pc,         \* pc[b]: where the watcher of b is
  cur,        \* cur[b]: the trie it is at
  todo,       \* todo[b]: expected keys reconcileLPMMap has yet to insert
  stale,      \* stale[b]: surveyed keys it has yet to delete
  calm,       \* calm[b]: nobody else wrote since its survey
  failures,   \* integrity failures recorded
  disturbs,
  faults

maps == <<mode, trie>>
watcher == <<pc, cur, todo, stale>>
vars == <<maps, attached, watcher, calm, failures, disturbs, faults>>

Init ==
  /\ mode = [b \in Backends |-> 0]
  /\ trie = [b \in Backends |-> [m \in Maps |-> {}]]
  /\ attached = {}
  /\ pc = [b \in Backends |-> "off"]
  /\ cur = [b \in Backends |-> "allowed"]
  /\ todo = [b \in Backends |-> {}]
  /\ stale = [b \in Backends |-> {}]
  /\ calm = [b \in Backends |-> TRUE]
  /\ failures = 0
  /\ disturbs = 0
  /\ faults = 0

-----------------------------------------------------------------------------
(* The decision of the IPv4 hooks of a backend.                            *)

defense_enabled(b) == mode[b] = 1

dst_in_ignored(b, a) == Hit(trie[b]["ignored"], a)

dst_is_allowlisted(b, a) == Hit(trie[b]["allowed"], a)

\* An attached hook lets the call go on.
Passes(b, a) ==
  b \in attached =>
    \/ ~ defense_enabled(b)
    \/ dst_in_ignored(b, a)
    \/ dst_is_allowlisted(b, a)

-----------------------------------------------------------------------------
(* Startup.                                                                *)

\* loadDefendMapsForBackend; nothing reads the maps before the hooks attach.
LoadMaps(b) ==
  /\ pc[b] = "off"
  /\ b \notin attached
  /\ mode' = [mode EXCEPT ![b] = 1]
  /\ trie' = [trie EXCEPT ![b] = [m \in Maps |-> Programmed(m)]]
  /\ pc' = [pc EXCEPT ![b] = "loaded"]
  /\ UNCHANGED <<attached, cur, todo, stale, calm, failures, disturbs, faults>>

Attach(b) ==
  /\ pc[b] = "loaded"
  /\ attached' = attached \cup {b}
  /\ pc' = [pc EXCEPT ![b] = "idle"]
  /\ UNCHANGED <<maps, cur, todo, stale, calm, failures, disturbs, faults>>

-----------------------------------------------------------------------------
(* checkMapIntegrity.                                                      *)

\* The ticker fires.
Tick(b) ==
  /\ pc[b] = "idle"
  /\ pc' = [pc EXCEPT ![b] = "cfg"]
  /\ cur' = [cur EXCEPT ![b] = "allowed"]
  /\ UNCHANGED <<maps, attached, todo, stale, calm, failures, disturbs, faults>>

\* A map system call fails; bounded.
Fault == faults < MaxFaults /\ faults' = faults + 1
NoFault == UNCHANGED faults

\* Lookup of defend_cfg: an error and a value other than 1 are both failures.
CheckCfg(b) ==
  /\ pc[b] = "cfg"
  /\ \/ /\ NoFault /\ mode[b] = 1
        /\ pc' = [pc EXCEPT ![b] = "survey"]
        /\ UNCHANGED failures
     \/ /\ Fault \/ (NoFault /\ mode[b] # 1)
        /\ pc' = [pc EXCEPT ![b] = "revert"]
        /\ failures' = failures + 1
  /\ UNCHANGED <<maps, attached, cur, todo, stale, calm, disturbs>>

\* The update back to defend mode; when it fails the next tick retries.
RevertCfg(b) ==
  /\ pc[b] = "revert"
  /\ \/ NoFault /\ mode' = [mode EXCEPT ![b] = 1]
     \/ Fault /\ UNCHANGED mode
  /\ pc' = [pc EXCEPT ![b] = "survey"]
  /\ UNCHANGED <<trie, attached, cur, todo, stale, calm, failures, disturbs>>

\* After the allowed trie comes the ignored one, after that the next tick.
Advance(b) ==
  /\ pc' = [pc EXCEPT ![b] = IF cur[b] = "allowed" THEN "survey" ELSE "idle"]
  /\ cur' = [cur EXCEPT ![b] = "ignored"]

\* Variation: only the numbers of keys are compared.
sameSize(m, actual) == Cardinality(actual) = Cardinality(Expected(m))

lpmKeysetsEqual(m, actual) == actual = Expected(m)

\* Iterate the current trie and compare.
Survey(b) ==
  /\ pc[b] = "survey"
  /\ LET same == lpmKeysetsEqual(cur[b], trie[b][cur[b]]) IN
     \/ NoFault /\ same /\ Advance(b) /\ UNCHANGED failures
     \/ /\ NoFault /\ ~ same
        /\ failures' = failures + 1
        /\ pc' = [pc EXCEPT ![b] = "rearm"]
        /\ UNCHANGED cur
     \/ Fault /\ failures' = failures + 1 /\ Advance(b)
  /\ UNCHANGED <<maps, attached, todo, stale, calm, disturbs>>

\* reconcileLPMMap surveys the trie again.
StartReconcile(b) ==
  /\ pc[b] = "rearm"
  /\ \/ /\ NoFault
        /\ todo' = [todo EXCEPT ![b] = Expected(cur[b])]
        /\ stale' = [stale EXCEPT ![b] = trie[b][cur[b]] \ Expected(cur[b])]
        /\ calm' = [calm EXCEPT ![b] = TRUE]
        /\ pc' = [pc EXCEPT ![b] = "reconcile"]
        /\ UNCHANGED cur
     \/ Fault /\ Advance(b) /\ UNCHANGED <<todo, stale, calm>>
  /\ UNCHANGED <<maps, attached, failures, disturbs>>

\* An update or a delete fails: reconcileLPMMap returns, the next tick retries.
ReconcileFails(b) ==
  /\ pc[b] = "reconcile"
  /\ todo[b] \cup stale[b] # {}
  /\ Fault
  /\ todo' = [todo EXCEPT ![b] = {}]
  /\ stale' = [stale EXCEPT ![b] = {}]
  /\ Advance(b)
  /\ UNCHANGED <<maps, attached, calm, failures, disturbs>>

\* Variation: an expected key is inserted one bit too short.
InsertCovering(b, key) ==
  /\ pc[b] = "reconcile"
  /\ key \in todo[b]
  /\ trie' = [trie EXCEPT ![b][cur[b]] = @ \cup {Key(key.net, key.len - 1)}]
  /\ todo' = [todo EXCEPT ![b] = @ \ {key}]
  /\ UNCHANGED <<mode, attached, pc, cur, stale, calm, failures, disturbs, faults>>

InsertExpected(b, key) ==
  /\ pc[b] = "reconcile"
  /\ key \in todo[b]
  /\ trie' = [trie EXCEPT ![b][cur[b]] = @ \cup {key}]
  /\ todo' = [todo EXCEPT ![b] = @ \ {key}]
  /\ UNCHANGED <<mode, attached, pc, cur, stale, calm, failures, disturbs, faults>>

\* Variation: stale keys are deleted before every expected key is in.
DeleteStaleEarly(b, key) ==
  /\ pc[b] = "reconcile"
  /\ key \in stale[b]
  /\ trie' = [trie EXCEPT ![b][cur[b]] = @ \ {key}]
  /\ stale' = [stale EXCEPT ![b] = @ \ {key}]
  /\ UNCHANGED <<mode, attached, pc, cur, todo, calm, failures, disturbs, faults>>

\* Only after every expected key is in; a key already gone is no error.
DeleteStale(b, key) ==
  /\ pc[b] = "reconcile"
  /\ todo[b] = {}
  /\ key \in stale[b]
  /\ trie' = [trie EXCEPT ![b][cur[b]] = @ \ {key}]
  /\ stale' = [stale EXCEPT ![b] = @ \ {key}]
  /\ UNCHANGED <<mode, attached, pc, cur, todo, calm, failures, disturbs, faults>>

EndReconcile(b) ==
  /\ pc[b] = "reconcile"
  /\ todo[b] = {}
  /\ stale[b] = {}
  /\ Advance(b)
  /\ UNCHANGED <<maps, attached, todo, stale, calm, failures, disturbs, faults>>

-----------------------------------------------------------------------------
(* Another writer of the maps, once the hooks are attached.                *)

Disturbed(b) ==
  /\ b \in attached
  /\ disturbs < MaxDisturbs
  /\ disturbs' = disturbs + 1
  /\ calm' = [calm EXCEPT ![b] = FALSE]
  /\ UNCHANGED <<attached, watcher, failures, faults>>

DisturbMode(b) ==
  /\ Disturbed(b)
  /\ mode' = [mode EXCEPT ![b] = 0]
  /\ UNCHANGED trie

DisturbTrie(b, m, key) ==
  /\ Disturbed(b)
  /\ \/ trie' = [trie EXCEPT ![b][m] = @ \cup {key}]
     \/ trie' = [trie EXCEPT ![b][m] = @ \ {key}]
  /\ UNCHANGED mode

Watch(b) ==
  \/ Tick(b) \/ CheckCfg(b) \/ RevertCfg(b) \/ Survey(b)
  \/ StartReconcile(b) \/ ReconcileFails(b)
  \/ \E key \in Keys : InsertExpected(b, key) \/ DeleteStale(b, key)
  \/ EndReconcile(b)

Next ==
  \E b \in Backends :
    \/ LoadMaps(b) \/ Attach(b) \/ Watch(b) \/ DisturbMode(b)
    \/ \E m \in Maps, key \in Keys : DisturbTrie(b, m, key)

Spec == Init /\ [][Next]_vars

\* The ticker fires for ever and the watcher goroutine is scheduled; startup goes on.
FairSpec ==
  Spec /\ \A b \in Backends : WF_vars(LoadMaps(b) \/ Attach(b)) /\ WF_vars(Watch(b))

-----------------------------------------------------------------------------
(* Properties.                                                             *)

\* Type invariant of the maps and the watchers.
TypeOK ==
  /\ mode \in [Backends -> {0, 1}]
  /\ trie \in [Backends -> [Maps -> SUBSET Keys]]
  /\ attached \subseteq Backends
  /\ pc \in [Backends -> {"off", "loaded", "idle", "cfg", "revert", "survey", "rearm", "reconcile"}]
  /\ cur \in [Backends -> Maps]
  /\ todo \in [Backends -> SUBSET Keys]
  /\ stale \in [Backends -> SUBSET Keys]
  /\ calm \in [Backends -> BOOLEAN]
  /\ failures \in Nat
  /\ disturbs \in 0..MaxDisturbs
  /\ faults \in 0..MaxFaults

\* Unless another writer interferes, an attached backend lets exactly the addresses
\* of the policy pass, in whatever way tries encode them and however its watcher's
\* system calls fail.
EnforcesPolicy ==
  disturbs = 0 => \A b \in attached, a \in Addr : Passes(b, a) <=> Permitted(a)

\* checkMapIntegrity records a failure only if a map was changed by another
\* writer or a system call failed: what it expects is what startup programmed.
NoFalseAlarm == failures > 0 => disturbs + faults > 0

\* reconcileLPMMap inserts before it deletes, so while nobody else writes no step
\* of the watcher takes an address a trie is meant to hold out of it, also when
\* the trie under repair held that address through a stale wider prefix only.
NoDenyWindow ==
  [][\A b \in Backends, m \in Maps, a \in Addr :
       (calm[b] /\ calm'[b] /\ Hit(Programmed(m), a) /\ Hit(trie[b][m], a))
         => Hit(trie'[b][m], a)]_vars

\* A step of the watcher never lets an address pass that the policy does not
\* admit and that did not pass before.
RepairNeverWidens ==
  [][disturbs' = disturbs =>
       \A b \in Backends, a \in Addr : Passes(b, a)' => Passes(b, a) \/ Permitted(a)]_vars

Healed(b) == mode[b] = 1 /\ \A m \in Maps : trie[b][m] = Programmed(m)

\* Once the other writer and the faults stop, the maps of every backend are back
\* to the startup snapshot and stay so.
EventuallyHealed == \A b \in Backends : <>[]Healed(b)
=============================================================================
