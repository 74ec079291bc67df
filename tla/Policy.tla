------------------------------- MODULE Policy -------------------------------
(***************************************************************************)
(* The allow and ignore lists of a run, from the tokens of the action's    *)
(* inputs to the class of an observed destination.  All of it is pure, so  *)
(* the module has operators only.                                          *)
(*                                                                         *)
(* A name is a sequence of labels with the properties that matter: letters *)
(* in upper case, a trailing dot, and whether it has up to 253 bytes       *)
(* ("fits"), 254 ("over") or 255, the most a ClientHello may have ("max"). *)
(* An address has a family: IPv4, IPv4-mapped IPv6, or native IPv6.  A     *)
(* CIDR is the set of hosts it covers.                                     *)
(***************************************************************************)
EXTENDS Integers, Sequences, FiniteSets, Functions

CONSTANTS
  DefaultIgnored,   \* the hosts of DefaultIgnoredIPv4Nets, one set per CIDR
  MaxIgnored        \* MaxIgnoredIPv4Nets

NoLabels == << >>
Name(labels) == [labels |-> labels, upper |-> FALSE, dot |-> FALSE, size |-> "fits"]
NoName == Name(NoLabels)

Names ==
  [labels : Seq(STRING), upper : BOOLEAN, dot : BOOLEAN, size : {"fits", "over", "max"}]

ToLower(name) == [name EXCEPT !.upper = FALSE]

\* SanitizeField(name, 253): a longer name loses its tail, and with it its last
\* label.
Sanitize(name) ==
  IF name.size = "fits" THEN name
  ELSE [name EXCEPT !.size = "fits", !.labels[Len(name.labels)] = "cut"]

\* net.IP.To4() is not nil: IPv4 and IPv4-mapped addresses.
IsIPv4(addr) == addr.fam \in {"v4", "mapped"}

-----------------------------------------------------------------------------
(* Parse: the tokens of allowed-hosts and allowed-ips.                     *)

\* A host token: [wild, name, valid], valid when its characters are those of a
\* host name.  A wildcard without suffix, or with another asterisk, is skipped.
SkippedHost(t) == t.wild /\ (t.name.labels = NoLabels \/ "*" \in Range(t.name.labels))

RejectedHost(t) == ~ SkippedHost(t) /\ (t.name.size # "fits" \/ ~ t.valid)

\* An address token: [form, fam, hosts], form "ip", "cidr" or "bad".
Hosts4(tokens, form) ==
  {t.hosts : t \in {x \in tokens : x.form = form /\ x.fam \in {"v4", "mapped"}}}

Hosts6(tokens, form) ==
  {t.hosts : t \in {x \in tokens : x.form = form /\ x.fam = "v6"}}

Rejected == [enabled |-> FALSE, error |-> TRUE]

\* Parse lowers every name; the list is on when anything at all is listed.
Parse(hosts, ips) ==
  LET exact == {ToLower(t.name) : t \in {x \in hosts : ~ x.wild}}
      wild == {ToLower(t.name) : t \in {x \in hosts : x.wild /\ ~ SkippedHost(x)}}
  IN  IF (\E t \in hosts : RejectedHost(t)) \/ (\E t \in ips : t.form = "bad")
        THEN Rejected
        ELSE [error |-> FALSE, exactHosts |-> exact, wildSuffixes |-> wild,
              ips |-> Hosts4(ips, "ip"), nets |-> Hosts4(ips, "cidr"),
              ipv6s |-> Hosts6(ips, "ip"), ipv6nets |-> Hosts6(ips, "cidr"),
              ignored |-> {},
              enabled |-> exact \cup wild # {} \/ ips # {}]

\* ParseIgnoredIPNets takes IPv4 CIDRs only.
IgnoredRejected(ignored) == \E t \in ignored : t.form # "cidr" \/ t.fam = "v6"

\* MergeDefaultIgnoredNets and mergeDedupedNets: a union, by CIDR.
MergeIgnored(ignored, defaults) ==
  (IF defaults THEN DefaultIgnored ELSE {}) \cup {t.hosts : t \in ignored}

\* BuildPolicyEx
BuildPolicyEx(hosts, ips, ignored, defaults) ==
  LET p == Parse(hosts, ips)
      merged == MergeIgnored(ignored, defaults)
  IN  IF p.error \/ IgnoredRejected(ignored) \/ Cardinality(merged) > MaxIgnored
        THEN Rejected
        ELSE [p EXCEPT !.ignored = merged]

-----------------------------------------------------------------------------
(* Classify.                                                               *)

NetsContain(nets, addr) == IsIPv4(addr) /\ \E net \in nets : addr.host \in net

\* strings.HasSuffix, on whole labels.
HasSuffix(labels, suffix) ==
  /\ Len(labels) >= Len(suffix)
  /\ SubSeq(labels, Len(labels) - Len(suffix) + 1, Len(labels)) = suffix

\* Variation: a wildcard covers names with any number of further labels.
WildcardDeep(name, suffix) ==
  Len(name.labels) > Len(suffix.labels) /\ HasSuffix(name.labels, suffix.labels)

\* hostMatchesWildcard: exactly one label in front of the suffix.
HostMatchesWildcard(name, suffix) ==
  /\ Len(name.labels) = Len(suffix.labels) + 1
  /\ HasSuffix(name.labels, suffix.labels)
  /\ name.dot = suffix.dot

\* Classify: addresses on the allow list first, then the ignored ranges, which
\* count whether or not there is an allow list, then the name.
Classify(p, name, addr) ==
  LET fqdn == ToLower(name) IN
  CASE p.enabled /\ NetsContain(p.ips \cup p.nets, addr) -> "allowed"
    [] ~ (p.enabled /\ NetsContain(p.ips \cup p.nets, addr))
       /\ NetsContain(p.ignored, addr) -> "ignored"
    [] OTHER ->
         IF ~ p.enabled THEN "monitor"
         ELSE IF fqdn.labels = NoLabels THEN "unknown"
         ELSE IF fqdn \in p.exactHosts \/ \E s \in p.wildSuffixes : HostMatchesWildcard(fqdn, s)
           THEN "allowed" ELSE "not_listed"

Classes == {"monitor", "allowed", "not_listed", "unknown", "ignored"}
=============================================================================
