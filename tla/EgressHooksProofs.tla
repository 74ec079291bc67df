------------------------- MODULE EgressHooksProofs -------------------------
(***************************************************************************)
(* Proofs about the egress hooks for any addresses, cooldown and number of *)
(* calls: the implementations of the policy agree, an admitted connection  *)
(* is not broken by a send, and the backstop is silent for less than its   *)
(* cooldown.                                                               *)
(***************************************************************************)
EXTENDS EgressHooks, TLAPS

-----------------------------------------------------------------------------
(* Destinations.                                                           *)

LEMMA DstFields ==
  ASSUME NEW d \in Dst
  PROVE  \/ d.kind \in {"v4", "mapped"} /\ d.addr \in IPv4 /\ d # Nobody
         \/ d.kind = "v6" /\ d.addr \in Native6 \cup Special6 /\ d # Nobody
BY DEF Dst, V4, Mapped, V6, Nobody

\* The kernel's rewriting changes the address only.
LEMMA RewrittenDst ==
  ASSUME NEW d \in Dst
  PROVE  /\ Rewritten(d) \in Dst
         /\ Rewritten(d).kind = d.kind
         /\ Rewritten(d).addr = IF d.addr = "unspecified" THEN "loopback" ELSE d.addr
<1>1. CASE d.addr # "unspecified"
  BY <1>1 DEF Rewritten
<1>2. CASE d.addr = "unspecified"
  <2>1. Rewritten(d) = [d EXCEPT !.addr = "loopback"]
    BY <1>2 DEF Rewritten
  <2>2. CASE \E a \in IPv4 : d = V4(a)
    <3>1. [d EXCEPT !.addr = "loopback"] = V4("loopback")
      BY <2>2 DEF V4
    <3> QED BY <1>2, <2>1, <2>2, <3>1 DEF Dst, IPv4, V4
  <2>3. CASE \E a \in IPv4 : d = Mapped(a)
    <3>1. [d EXCEPT !.addr = "loopback"] = Mapped("loopback")
      BY <2>3 DEF Mapped
    <3> QED BY <1>2, <2>1, <2>3, <3>1 DEF Dst, IPv4, Mapped
  <2>4. CASE \E a \in Native6 \cup Special6 : d = V6(a)
    <3>1. [d EXCEPT !.addr = "loopback"] = V6("loopback")
      BY <2>4 DEF V6
    <3> QED BY <1>2, <2>1, <2>4, <3>1 DEF Dst, Special6, V6
  <2> QED BY <2>2, <2>3, <2>4 DEF Dst
<1> QED BY <1>1, <1>2

-----------------------------------------------------------------------------
(* One verdict.                                                            *)

\* The tables of an attached backend are programmed, the shared ones before the
\* cgroup hooks run, and both backends have one policy.
SamePolicy ==
  /\ attached \in SUBSET Backends
  /\ mode \in [Backends -> {0, 1}]
  /\ allowed \in [Backends -> SUBSET Remote4]
  /\ ignored \in [Backends -> SUBSET Remote4]
  /\ \A b \in Backends : b \in attached <=> mode[b] = 1
  /\ attached = Backends => /\ allowed["lsm"] = allowed["cgroup"]
                            /\ ignored["lsm"] = ignored["cgroup"]

LEMMA SamePolicyInit == Init => SamePolicy
BY DEF Init, SamePolicy, Backends

LEMMA SamePolicyStep == SamePolicy /\ [Next]_vars => SamePolicy'
<1> SUFFICES ASSUME SamePolicy, [Next]_vars PROVE SamePolicy'
  OBVIOUS
<1>1. ASSUME NEW p \in Policy4, AttachLsm(p) PROVE SamePolicy'
  BY <1>1 DEF AttachLsm, SamePolicy, Backends, Policy4
<1>2. ASSUME NEW p \in Policy4, NEW owners, NEW a6, AttachCgroup(p, owners, a6)
      PROVE  SamePolicy'
  BY <1>2 DEF AttachCgroup, SamePolicy, Backends, Policy4
<1>3. CASE UNCHANGED <<attached, mode, allowed, ignored>>
  BY <1>3 DEF SamePolicy
<1>4. CASE \E owners \in SUBSET Remote4 : Reseed(owners)
  BY <1>3, <1>4 DEF Reseed
<1>5. CASE \E d \in Dst : Connect(d) \/ Unhooked(d) \/ Leave(d) \/ ForgetSeen(d)
  BY <1>3, <1>5 DEF Connect, Unhooked, Leave, ForgetSeen, tables
<1>6. CASE (\E d \in Dst, readable \in BOOLEAN : SendTo(d, readable)) \/ Send \/ Sendpage \/ Tick
  BY <1>3, <1>6 DEF SendTo, Send, Sendpage, SendOn, Tick, tables
<1>7. CASE UNCHANGED vars
  BY <1>3, <1>7 DEF vars, tables
<1> QED BY <1>1, <1>2, <1>4, <1>5, <1>6, <1>7 DEF Next

\* Whatever the policy and the addresses, the LSM hooks, the cgroup hooks and the
\* backstop decide alike once both backends run.
THEOREM VerdictsAgree == Spec => []OneVerdict
<1>1. SamePolicy => OneVerdict
  <2> SUFFICES ASSUME SamePolicy, attached = Backends, NEW d \in Dst
               PROVE  /\ LsmLets(d) = Admits("lsm", d)
                      /\ CgroupLets(d) = Admits("lsm", d)
                      /\ defend_skb_egress(d) = Admits("lsm", d)
    BY DEF OneVerdict
  <2>1. /\ mode["lsm"] = 1 /\ mode["cgroup"] = 1
        /\ allowed["lsm"] = allowed["cgroup"] /\ ignored["lsm"] = ignored["cgroup"]
    BY DEF SamePolicy, Backends
  <2>2. \/ d.kind \in {"v4", "mapped"} /\ d.addr \in IPv4
        \/ d.kind = "v6" /\ d.addr \in Native6 \cup Special6
    BY DstFields
  <2>3. \A b \in Backends : \A a : Lets4(b, a) <=>
          a \in {"loopback", "unspecified"} \cup ignored["lsm"] \cup allowed["lsm"] \cup owned
    BY <2>1 DEF Lets4, dst_in_ignored, dst_is_allowlisted, Backends
  <2>4. LsmLets(d) <=> Admits("lsm", d)
    BY <2>1, <2>2, <2>3 DEF LsmLets, lsm_v6_enforce, Admits, defense_enabled, Backends
  <2>5. CgroupLets(d) <=> Admits("lsm", d)
    BY <2>1, <2>2, <2>3 DEF CgroupLets, defend_cgroup_sock_addr_ipv4,
       defend_cgroup_sock_addr_ipv6, Admits, defense_enabled, Backends
  <2>6. defend_skb_egress(d) <=> Admits("lsm", d)
    BY <2>1, <2>2, <2>3 DEF defend_skb_egress, Admits, defense_enabled, Backends
  <2>7. /\ LsmLets(d) \in BOOLEAN /\ CgroupLets(d) \in BOOLEAN
        /\ defend_skb_egress(d) \in BOOLEAN /\ Admits("lsm", d) \in BOOLEAN
    BY Zenon DEF LsmLets, CgroupLets, defend_cgroup_sock_addr_ipv4, defend_cgroup_sock_addr_ipv6,
       defend_skb_egress, Admits, lsm_v6_enforce, Lets4, dst_in_ignored, dst_is_allowlisted,
       defense_enabled
  <2> QED BY <2>4, <2>5, <2>6, <2>7
<1> QED BY <1>1, SamePolicyInit, SamePolicyStep, PTL DEF Spec

-----------------------------------------------------------------------------
(* A connection that was let through stays usable.                         *)

\* While the policy is steady, both hooks of a send let the connected peer pass.
PeerLet ==
  /\ peer \in Dst \cup {Nobody}
  /\ (steady /\ peer # Nobody /\ "lsm" \in attached) =>
        LsmLets(peer) /\ lsm_socket_sendpage(peer)
  /\ sendRefused = FALSE

\* What the LSM connect hook lets through, its send hooks let through as well, also
\* after an unspecified destination has become loopback.
LEMMA LetAfterConnect ==
  ASSUME NEW d \in Dst, LsmLets(d)
  PROVE  LsmLets(Rewritten(d)) /\ lsm_socket_sendpage(Rewritten(d))
<1> DEFINE e == Rewritten(d)
<1>1. e.kind = d.kind /\ e.addr = IF d.addr = "unspecified" THEN "loopback" ELSE d.addr
  BY RewrittenDst
<1>2. d.kind \in {"v4", "mapped", "v6"}
  BY DstFields
<1> HIDE DEF e
<1>3. Lets4("lsm", d.addr) => Lets4("lsm", e.addr)
  BY <1>1 DEF Lets4, dst_in_ignored
<1>4. lsm_v6_enforce(d) => lsm_v6_enforce(e)
  BY <1>1, <1>3 DEF lsm_v6_enforce, Special6
<1>5. LsmLets(e)
  BY <1>1, <1>3, <1>4 DEF LsmLets
<1>6. lsm_socket_sendpage(e)
  BY <1>1, <1>5 DEF LsmLets, lsm_socket_sendpage
<1> QED BY <1>5, <1>6 DEF e

\* The hooks' answers depend on the tables alone.
LEMMA LetsUnchanged ==
  ASSUME UNCHANGED tables, UNCHANGED <<peer, steady, sendRefused>>, PeerLet
  PROVE  PeerLet'
BY DEF PeerLet, tables, LsmLets, lsm_socket_sendpage, lsm_v6_enforce, Lets4, dst_in_ignored,
   dst_is_allowlisted, defense_enabled

LEMMA PeerLetStep == PeerLet /\ [Next]_vars => PeerLet'
<1> SUFFICES ASSUME PeerLet, [Next]_vars PROVE PeerLet'
  OBVIOUS
<1>1. CASE steady' = FALSE /\ UNCHANGED <<peer, sendRefused>>
  BY <1>1 DEF PeerLet
<1>2. CASE \E p \in Policy4 : AttachLsm(p)
  BY Zenon, <1>1, <1>2 DEF AttachLsm
<1>3. CASE \E p \in Policy4, owners \in SUBSET Remote4, a6 \in SUBSET Native6 :
             AttachCgroup(p, owners, a6)
  BY Zenon, <1>1, <1>3 DEF AttachCgroup
<1>4. CASE \E owners \in SUBSET Remote4 : Reseed(owners)
  BY Zenon, <1>1, <1>4 DEF Reseed
<1>5. ASSUME NEW d \in Dst, Connect(d) PROVE PeerLet'
  <2>1. UNCHANGED tables /\ sendRefused' = FALSE
    BY <1>5 DEF Connect, PeerLet
  <2>2. CASE UNCHANGED <<peer, steady>>
    BY Zenon, <2>1, <2>2, LetsUnchanged DEF PeerLet
  <2>3. CASE peer' = Rewritten(d) /\ ("lsm" \in attached => LsmLets(d))
    <3>1. Rewritten(d) \in Dst
      BY RewrittenDst
    <3>2. "lsm" \in attached => LsmLets(Rewritten(d)) /\ lsm_socket_sendpage(Rewritten(d))
      BY <2>3, LetAfterConnect
    <3>3. "lsm" \in attached' => LsmLets(peer)' /\ lsm_socket_sendpage(peer)'
      BY <2>1, <2>3, <3>2 DEF tables, LsmLets, lsm_socket_sendpage, lsm_v6_enforce, Lets4,
         dst_in_ignored, dst_is_allowlisted, defense_enabled
    <3> QED BY <2>1, <2>3, <3>1, <3>3 DEF PeerLet
  <2> QED BY <1>5, <2>2, <2>3 DEF Connect
<1>6. CASE Send \/ Sendpage
  <2>1. UNCHANGED tables /\ UNCHANGED <<peer, steady>> /\ peer # Nobody
    BY <1>6 DEF Send, Sendpage, SendOn
  <2>2. sendRefused' = sendRefused
    BY Zenon, <1>6 DEF Send, Sendpage, SendOn, PeerLet
  <2> QED BY <2>1, <2>2, LetsUnchanged
<1>7. CASE \E d \in Dst : Unhooked(d) \/ Leave(d) \/ ForgetSeen(d)
  BY <1>7, LetsUnchanged DEF Unhooked, Leave, ForgetSeen
<1>8. CASE (\E d \in Dst, readable \in BOOLEAN : SendTo(d, readable)) \/ Tick
  BY <1>8, LetsUnchanged DEF SendTo, Tick
<1>9. CASE UNCHANGED vars
  BY <1>9, LetsUnchanged DEF vars
<1> QED BY <1>2, <1>3, <1>4, <1>5, <1>6, <1>7, <1>8, <1>9 DEF Next

\* A socket that connect let through is never refused by a send hook while the
\* policy stands.
THEOREM SendsPass == Spec => []ConnectedSendsPass
<1>1. Init => PeerLet
  BY DEF Init, PeerLet
<1>2. PeerLet => ConnectedSendsPass
  BY DEF PeerLet, ConnectedSendsPass
<1> QED BY <1>1, <1>2, PeerLetStep, PTL DEF Spec

-----------------------------------------------------------------------------
(* The backstop's cooldown.                                                *)

\* A mark is no younger than the last time the backstop spoke.
Spoken ==
  /\ now \in Nat \ {0}
  /\ seen \in [Dst -> Nat] /\ flags \in [Dst -> Nat] /\ passed \in [Dst -> Nat]
  /\ \A d \in Dst : seen[d] <= flags[d]
  /\ UnlistedFlagged

LEMMA SpokenStep == Spoken /\ [Next]_vars => Spoken'
<1> SUFFICES ASSUME Spoken, [Next]_vars PROVE Spoken'
  OBVIOUS
<1>1. ASSUME UNCHANGED backstop, now' \in Nat \ {0} PROVE Spoken'
  BY <1>1 DEF Spoken, UnlistedFlagged, backstop
<1>2. ASSUME NEW d \in Dst, Leave(d) PROVE Spoken'
  <2>1. now' = now
    BY <1>2 DEF Leave
  <2>2. CASE UNCHANGED backstop
    BY <1>1, <2>1, <2>2 DEF Spoken
  <2>3. CASE passed' = [passed EXCEPT ![d] = now] /\ skb_backstop_recently_seen(d)
             /\ flags' = flags
    BY <2>1, <2>3, EgressAssumption DEF Spoken, UnlistedFlagged, skb_backstop_recently_seen
  <2>4. CASE passed' = [passed EXCEPT ![d] = now] /\ Flag(d)
    BY <2>1, <2>4, EgressAssumption DEF Spoken, UnlistedFlagged, Flag
  <2> QED BY <1>2, <2>2, <2>3, <2>4 DEF Leave
<1>3. ASSUME NEW d \in Dst, ForgetSeen(d) PROVE Spoken'
  BY <1>3 DEF Spoken, UnlistedFlagged, ForgetSeen
<1>4. CASE Tick
  BY <1>1, <1>4 DEF Tick, Spoken
<1>5. CASE UNCHANGED <<backstop, now>>
  BY <1>1, <1>5 DEF Spoken
<1>6. CASE (\E p \in Policy4 : AttachLsm(p)) \/ (\E owners \in SUBSET Remote4 : Reseed(owners))
  BY <1>5, <1>6 DEF AttachLsm, Reseed
<1>7. CASE \E p \in Policy4, owners \in SUBSET Remote4, a6 \in SUBSET Native6 :
             AttachCgroup(p, owners, a6)
  BY <1>5, <1>7 DEF AttachCgroup
<1>8. CASE (\E d \in Dst : Connect(d) \/ Unhooked(d)) \/ Send \/ Sendpage
           \/ \E d \in Dst, readable \in BOOLEAN : SendTo(d, readable)
  BY <1>5, <1>8 DEF Connect, Unhooked, SendTo, Send, Sendpage, SendOn
<1>9. CASE UNCHANGED vars
  BY <1>5, <1>9 DEF vars
<1> QED BY <1>2, <1>3, <1>4, <1>6, <1>7, <1>8, <1>9 DEF Next

\* Whenever an unlisted packet leaves, the backstop spoke of its destination less
\* than a cooldown before.
THEOREM NeverSilent == Spec => []UnlistedFlagged
<1>1. Init => Spoken
  BY EgressAssumption DEF Init, Spoken, UnlistedFlagged
<1>2. Spoken => UnlistedFlagged
  BY DEF Spoken
<1> QED BY <1>1, <1>2, SpokenStep, PTL DEF Spec

-----------------------------------------------------------------------------
(* Types.                                                                  *)

LEMMA TypeStep == TypeOK /\ [Next]_vars => TypeOK'
<1> SUFFICES ASSUME TypeOK, [Next]_vars PROVE TypeOK'
  OBVIOUS
<1>1. ASSUME NEW p \in Policy4, AttachLsm(p) PROVE TypeOK'
  BY Zenon, <1>1 DEF AttachLsm, TypeOK, Backends, Policy4, backstop
<1>2. ASSUME NEW p \in Policy4, NEW owners \in SUBSET Remote4, NEW a6 \in SUBSET Native6,
             AttachCgroup(p, owners, a6)
      PROVE  TypeOK'
  BY Zenon, <1>2 DEF AttachCgroup, TypeOK, Backends, Policy4, backstop
<1>3. ASSUME NEW owners \in SUBSET Remote4, Reseed(owners) PROVE TypeOK'
  BY Zenon, <1>3 DEF Reseed, TypeOK, backstop
<1>4. ASSUME Called PROVE calls' \in 0..MaxCalls
  BY <1>4, EgressAssumption DEF Called, TypeOK
<1>5. ASSUME NEW d \in Dst, Connect(d) PROVE TypeOK'
  BY Zenon, <1>4, <1>5, RewrittenDst DEF Connect, TypeOK, tables, backstop
<1>6. ASSUME NEW d \in Dst, NEW readable \in BOOLEAN, SendTo(d, readable) PROVE TypeOK'
  BY <1>4, <1>6, RewrittenDst DEF SendTo, TypeOK, tables, backstop
<1>7. ASSUME NEW lets \in BOOLEAN, SendOn(lets) PROVE TypeOK'
  BY <1>4, <1>7 DEF SendOn, TypeOK, tables, backstop
<1>8. CASE Send \/ Sendpage
  <2>1. LsmLets(peer) \in BOOLEAN /\ lsm_socket_sendpage(peer) \in BOOLEAN
    BY DEF LsmLets, lsm_socket_sendpage, lsm_v6_enforce, Lets4, dst_in_ignored,
       dst_is_allowlisted, defense_enabled
  <2> QED BY <1>7, <1>8, <2>1 DEF Send, Sendpage
<1>9. ASSUME NEW d \in Dst, Unhooked(d) PROVE TypeOK'
  BY <1>4, <1>9 DEF Unhooked, TypeOK, tables, backstop
<1>10. ASSUME NEW d \in Dst, Leave(d) PROVE TypeOK'
  <2>1. /\ UNCHANGED tables /\ UNCHANGED <<peer, steady, now, sendRefused, calls>>
        /\ queue' \subseteq queue
    BY <1>10 DEF Leave
  <2>2. now \in 0..now
    BY EgressAssumption DEF TypeOK
  <2>3. {seen', flags', passed'} \subseteq [Dst -> 0..now]
    BY <1>10, <2>2 DEF Leave, TypeOK, backstop, skb_backstop_recently_seen, Flag
  <2> QED BY <2>1, <2>3 DEF TypeOK, tables
<1>11. ASSUME NEW d \in Dst, ForgetSeen(d) PROVE TypeOK'
  BY <1>11, EgressAssumption DEF ForgetSeen, TypeOK, tables
<1>12. CASE Tick
  <2>1. now' \in 1..MaxTime /\ 0..now \subseteq 0..now'
    BY <1>12, EgressAssumption DEF Tick, TypeOK
  <2>2. {seen', flags', passed'} \subseteq [Dst -> 0..now']
    BY <1>12, <2>1 DEF Tick, TypeOK, backstop
  <2> QED BY <1>12, <2>1, <2>2 DEF Tick, TypeOK, tables
<1>13. CASE UNCHANGED vars
  BY <1>13 DEF vars, TypeOK, tables, backstop
<1> QED BY <1>1, <1>2, <1>3, <1>5, <1>6, <1>8, <1>9, <1>10, <1>11, <1>12, <1>13 DEF Next

\* Every variable keeps its type.
THEOREM TypeCorrect == Spec => []TypeOK
<1>1. Init => TypeOK
  <2> SUFFICES ASSUME Init PROVE TypeOK
    OBVIOUS
  <2>1. now \in 1..MaxTime /\ calls \in 0..MaxCalls
    BY EgressAssumption DEF Init
  <2>2. {seen, flags, passed} \subseteq [Dst -> 0..now]
    BY DEF Init
  <2>3. mode \in [Backends -> {0, 1}] /\ {allowed, ignored} \subseteq [Backends -> SUBSET Remote4]
    BY DEF Init
  <2>4. steady \in BOOLEAN /\ sendRefused \in BOOLEAN
    BY Zenon DEF Init
  <2> QED BY <2>1, <2>2, <2>3, <2>4 DEF Init, TypeOK
<1> QED BY <1>1, TypeStep, PTL DEF Spec
=============================================================================
