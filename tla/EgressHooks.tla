---------------------------- MODULE EgressHooks ----------------------------
(***************************************************************************)
(* What the defend hooks decide on a destination, and the path of a call   *)
(* through them: the LSM socket hooks, then the cgroup connect and sendmsg *)
(* hooks, then the tc egress backstop that flags packets.  The hooks are   *)
(* three separate implementations of one policy over two sets of IPv4      *)
(* tries, here sets of addresses (Lpm and MapIntegrity have the keys), and *)
(* shared owner and IPv6 maps.  DenyPipeline has what becomes of the event *)
(* a refusing hook emits.                                                  *)
(***************************************************************************)
EXTENDS Naturals, FiniteSets

CONSTANTS
  Remote4,     \* IPv4 addresses outside 127.0.0.0/8, except 0.0.0.0
  Native6,     \* IPv6 addresses that are none of the special kinds
  Cooldown,    \* COLDSTEP_SKB_BACKSTOP_COOLDOWN_NS
  MaxTime,     \* bound: clock
  MaxCalls     \* bound: socket calls and packets

ASSUME EgressAssumption ==
  /\ IsFiniteSet(Remote4) /\ IsFiniteSet(Native6)
  /\ {"loopback", "unspecified"} \cap Remote4 = {}
  /\ Cooldown \in Nat \ {0}
  /\ MaxTime \in Nat \ {0} /\ MaxCalls \in Nat

IPv4 == Remote4 \cup {"loopback", "unspecified"}

V4(a) == [kind |-> "v4", addr |-> a]
Mapped(a) == [kind |-> "mapped", addr |-> a]
V6(a) == [kind |-> "v6", addr |-> a]
Special6 == {"loopback", "unspecified", "link_local"}

Dst == {V4(a) : a \in IPv4} \cup {Mapped(a) : a \in IPv4}
       \cup {V6(a) : a \in Native6 \cup Special6}

Nobody == [kind |-> "none", addr |-> "none"]
Backends == {"lsm", "cgroup"}

VARIABLES
  attached,   \* backends whose hooks are attached; the backstop (where TCX is
              \* available) comes with cgroup
  mode,       \* mode[b]: defend_cfg, 0 before it is programmed
  allowed,    \* allowed[b]: addresses the allowed trie covers
  ignored,    \* ignored[b]: addresses the ignored trie covers
  owned,      \* addresses whose dns_cache owner is in allowed_domains
  allowed6,   \* addresses the allowed_ipv6 trie covers
  peer,       \* destination of the connected socket
  steady,     \* the policy has not changed since it connected
  queue,      \* packets on their way to the interface
  seen,       \* seen[d]: when the backstop marked d, 0 for never
  now,
  flags,      \* flags[d]: when a backstop event, or a counted failure to emit
              \* one, last spoke of d; 0 for never
  passed,     \* passed[d]: when an unlisted packet to d last left; 0 for never
  sendRefused,\* a send on a connected socket was refused although steady
  calls

tables == <<attached, mode, allowed, ignored, owned, allowed6>>
backstop == <<seen, flags, passed>>
vars == <<tables, peer, steady, queue, backstop, now, sendRefused, calls>>

-----------------------------------------------------------------------------
(* defend_policy.inc, included once per backend.                           *)

defense_enabled(b) == mode[b] = 1

dst_is_allowlisted(b, a) == a \in allowed[b] \/ a \in owned

dst_in_ignored(b, a) == a \in {"loopback", "unspecified"} \/ a \in ignored[b]

Lets4(b, a) == dst_in_ignored(b, a) \/ dst_is_allowlisted(b, a)

-----------------------------------------------------------------------------
(* The verdicts: TRUE lets the call go on.                                 *)

defend_cgroup_sock_addr_ipv4(d) == ~ defense_enabled("cgroup") \/ Lets4("cgroup", d.addr)

defend_cgroup_sock_addr_ipv6(d) ==
  IF d.kind = "mapped" THEN ~ defense_enabled("cgroup") \/ Lets4("cgroup", d.addr)
  ELSE \/ d.addr \in Special6
       \/ ~ defense_enabled("cgroup")
       \/ d.addr \in allowed6

CgroupLets(d) ==
  IF d.kind = "v4" THEN defend_cgroup_sock_addr_ipv4(d) ELSE defend_cgroup_sock_addr_ipv6(d)

\* Variation: a mapped address is looked up in the IPv6 trie.
lsm_v6_enforce_native(d) == d.addr \in Special6 \/ d.addr \in allowed6

lsm_v6_enforce(d) ==
  IF d.kind = "mapped" THEN Lets4("lsm", d.addr)
  ELSE d.addr \in Special6 \/ d.addr \in allowed6

LsmLets(d) ==
  \/ ~ defense_enabled("lsm")
  \/ IF d.kind = "v4" THEN Lets4("lsm", d.addr) ELSE lsm_v6_enforce(d)

\* Variation: the ignored addresses are not consulted.
lsm_socket_sendpage_listed(d) ==
  ~ defense_enabled("lsm") \/ d.kind # "v4" \/ d.addr = "unspecified" \/ dst_is_allowlisted("lsm", d.addr)

\* Only IPv4 sockets are judged; a peer of 0.0.0.0 is no peer.
lsm_socket_sendpage(d) ==
  ~ defense_enabled("lsm") \/ d.kind # "v4" \/ d.addr = "unspecified" \/ Lets4("lsm", d.addr)

\* What the backstop has nothing to say about.
defend_skb_egress(d) ==
  ~ defense_enabled("cgroup")
  \/ IF d.kind \in {"v4", "mapped"} THEN Lets4("cgroup", d.addr)
     ELSE d.addr \in Special6 \/ d.addr \in allowed6

-----------------------------------------------------------------------------
(* The policy, as the documentation of the hooks gives it.                 *)

\* A destination is admitted by its IPv4 address, also when it is mapped, or is a
\* local IPv6 address or an allowed one.
Admits(b, d) ==
  \/ mode[b] # 1
  \/ d.kind \in {"v4", "mapped"} /\ (d.addr \in {"loopback", "unspecified"} \cup ignored[b] \cup allowed[b] \cup owned)
  \/ d.kind = "v6" /\ d.addr \in Special6 \cup allowed6

-----------------------------------------------------------------------------
Init ==
  /\ attached = {}
  /\ mode = [b \in Backends |-> 0]
  /\ allowed = [b \in Backends |-> {}]
  /\ ignored = [b \in Backends |-> {}]
  /\ owned = {}
  /\ allowed6 = {}
  /\ peer = Nobody
  /\ steady = TRUE
  /\ queue = {}
  /\ seen = [d \in Dst |-> 0]
  /\ flags = [d \in Dst |-> 0]
  /\ passed = [d \in Dst |-> 0]
  /\ now = 1
  /\ sendRefused = FALSE
  /\ calls = 0

Called == calls < MaxCalls /\ calls' = calls + 1

Policy4 == [allow : SUBSET Remote4, ign : SUBSET Remote4]

\* loadLSMDefendMaps and the attachment of the LSM hooks.
AttachLsm(p) ==
  /\ attached = {}
  /\ attached' = {"lsm"}
  /\ mode' = [mode EXCEPT !["lsm"] = 1]
  /\ allowed' = [allowed EXCEPT !["lsm"] = p.allow]
  /\ ignored' = [ignored EXCEPT !["lsm"] = p.ign]
  /\ steady' = FALSE
  /\ UNCHANGED <<owned, allowed6, peer, queue, backstop, now, sendRefused, calls>>

\* loadDefendMaps, the owners, and the attachment of the cgroup hooks and the
\* backstop; the LSM maps, if any, were programmed from the same policy.
AttachCgroup(p, owners, a6) ==
  /\ "cgroup" \notin attached
  /\ "lsm" \in attached => p = [allow |-> allowed["lsm"], ign |-> ignored["lsm"]]
  /\ attached' = attached \cup {"cgroup"}
  /\ mode' = [mode EXCEPT !["cgroup"] = 1]
  /\ allowed' = [allowed EXCEPT !["cgroup"] = p.allow]
  /\ ignored' = [ignored EXCEPT !["cgroup"] = p.ign]
  /\ owned' = owners
  /\ allowed6' = a6
  /\ steady' = FALSE
  /\ UNCHANGED <<peer, queue, backstop, now, sendRefused, calls>>

\* The drift watcher seeds another owner, or the LRU map drops one.
Reseed(owners) ==
  /\ "cgroup" \in attached
  /\ owners # owned
  /\ owned' = owners
  /\ steady' = FALSE
  /\ UNCHANGED <<attached, mode, allowed, ignored, allowed6, peer, queue, backstop, now,
                 sendRefused, calls>>

\* The kernel turns an unspecified destination into loopback after the hooks.
Rewritten(d) == IF d.addr = "unspecified" THEN [d EXCEPT !.addr = "loopback"] ELSE d

\* connect(2): lsm/socket_connect, then cgroup/connect4 or connect6.
Connect(d) ==
  /\ Called
  /\ IF ("lsm" \in attached => LsmLets(d)) /\ ("cgroup" \in attached => CgroupLets(d))
       THEN /\ peer' = Rewritten(d)
            /\ steady' = TRUE
            /\ queue' = queue \cup {Rewritten(d)}
       ELSE UNCHANGED <<peer, steady, queue>>
  /\ UNCHANGED <<tables, backstop, now, sendRefused>>

\* sendmsg(2) with a name: lsm/socket_sendmsg, which passes when it cannot read
\* an IPv4 name, then cgroup/sendmsg4 or sendmsg6.
SendTo(d, readable) ==
  /\ Called
  /\ IF /\ ("lsm" \in attached /\ (readable \/ d.kind # "v4")) => LsmLets(d)
        /\ "cgroup" \in attached => CgroupLets(d)
       THEN queue' = queue \cup {Rewritten(d)}
       ELSE UNCHANGED queue
  /\ UNCHANGED <<tables, peer, steady, backstop, now, sendRefused>>

\* A send on the connected socket, with the hook it meets.
SendOn(lets) ==
  /\ peer # Nobody
  /\ Called
  /\ IF "lsm" \in attached => lets
       THEN queue' = queue \cup {peer} /\ UNCHANGED sendRefused
       ELSE sendRefused' = (sendRefused \/ steady) /\ UNCHANGED queue
  /\ UNCHANGED <<tables, peer, steady, backstop, now>>

\* sendmsg(2) without a name: only lsm/socket_sendmsg, on the connected peer.
Send == SendOn(LsmLets(peer))

\* sendfile(2) and splice(2) on kernels with sendpage: only lsm/socket_sendpage.
Sendpage == SendOn(lsm_socket_sendpage(peer))

\* A packet that no socket hook saw (raw socket, redirected destination).
Unhooked(d) ==
  /\ Called
  /\ d.addr # "unspecified"
  /\ queue' = queue \cup {d}
  /\ UNCHANGED <<tables, peer, steady, backstop, now, sendRefused>>

\* Variation: the mark is renewed by every packet.
skb_backstop_recently_seen_renewing(d) ==
  /\ seen[d] # 0 /\ now - seen[d] < Cooldown
  /\ seen' = [seen EXCEPT ![d] = now]

skb_backstop_recently_seen(d) ==
  /\ seen[d] # 0 /\ now - seen[d] < Cooldown
  /\ UNCHANGED seen

\* The backstop meets a packet it has something to say about.
Flag(d) ==
  /\ ~ (seen[d] # 0 /\ now - seen[d] < Cooldown)
  /\ seen' = [seen EXCEPT ![d] = now]
  /\ flags' = [flags EXCEPT ![d] = now]

\* The packet reaches tc egress; loopback has no backstop.  It always leaves.
Leave(d) ==
  /\ d \in queue
  /\ queue' = queue \ {d}
  /\ IF "cgroup" \in attached /\ d.addr # "loopback" /\ ~ defend_skb_egress(d)
       THEN /\ passed' = [passed EXCEPT ![d] = now]
            /\ \/ skb_backstop_recently_seen(d) /\ UNCHANGED flags
               \/ Flag(d)
       ELSE UNCHANGED backstop
  /\ UNCHANGED <<tables, peer, steady, now, sendRefused, calls>>

\* skb_backstop_seen is an LRU map: the kernel may drop an entry.
ForgetSeen(d) ==
  /\ seen[d] # 0
  /\ seen' = [seen EXCEPT ![d] = 0]
  /\ UNCHANGED <<tables, peer, steady, queue, flags, passed, now, sendRefused, calls>>

Tick ==
  /\ now < MaxTime
  /\ now' = now + 1
  /\ UNCHANGED <<tables, peer, steady, queue, backstop, sendRefused, calls>>

Next ==
  \/ \E p \in Policy4 : AttachLsm(p)
  \/ \E p \in Policy4, owners \in SUBSET Remote4, a6 \in SUBSET Native6 : AttachCgroup(p, owners, a6)
  \/ \E owners \in SUBSET Remote4 : Reseed(owners)
  \/ \E d \in Dst : Connect(d) \/ Unhooked(d) \/ Leave(d) \/ ForgetSeen(d)
  \/ \E d \in Dst, readable \in BOOLEAN : SendTo(d, readable)
  \/ Send \/ Sendpage \/ Tick

Spec == Init /\ [][Next]_vars

-----------------------------------------------------------------------------
(* Properties.                                                             *)

\* Type invariant of the tables, the socket and the backstop.
TypeOK ==
  /\ attached \subseteq Backends
  /\ mode \in [Backends -> {0, 1}]
  /\ allowed \in [Backends -> SUBSET Remote4]
  /\ ignored \in [Backends -> SUBSET Remote4]
  /\ owned \subseteq Remote4 /\ allowed6 \subseteq Native6
  /\ peer \in Dst \cup {Nobody} /\ steady \in BOOLEAN
  /\ queue \subseteq Dst
  /\ {seen, flags, passed} \subseteq [Dst -> 0..now]
  /\ now \in 1..MaxTime
  /\ calls \in 0..MaxCalls
  /\ sendRefused \in BOOLEAN

\* Once both backends run, every implementation of the decision (cgroup, LSM,
\* backstop) gives the verdict of the policy for every destination, a mapped
\* IPv6 address that of its IPv4 address.
OneVerdict ==
  attached = Backends =>
    \A d \in Dst :
      /\ LsmLets(d) = Admits("lsm", d)
      /\ CgroupLets(d) = Admits("lsm", d)
      /\ defend_skb_egress(d) = Admits("lsm", d)

\* A connection that connect let through is not broken by a later send, unless the
\* policy changed meanwhile: also one to 0.0.0.0 or ::, whose peer is loopback.
ConnectedSendsPass == ~ sendRefused

\* Whenever an unlisted packet left, the backstop spoke of its destination less
\* than a cooldown before, with an event or a counted failure to emit one.
UnlistedFlagged == \A d \in Dst : passed[d] # 0 => flags[d] # 0 /\ passed[d] - flags[d] < Cooldown
=============================================================================
