---------------------------- MODULE MCDnsCaches ----------------------------
(* Two listed names, of which "a.io" comes first in lexicographic order, and *)
(* an unlisted name of the same length as the other; times are in units of  *)
(* the minimum TTL.                                                         *)
EXTENDS DnsCaches

NameLength == [n \in {"a.io", "bb.io", "cc.io"} |-> IF n = "a.io" THEN 4 ELSE 5]
NameRank == [n \in {"a.io", "bb.io"} |-> IF n = "a.io" THEN 1 ELSE 2]

\* Two replies about a listed and an unlisted name, past the largest expiry; the
\* resolver knows one of the two addresses.
Sniffing ==
  {[records |-> [n \in Listed |-> IF n = "a.io" THEN {1} ELSE {}], names |-> {"a.io", "cc.io"},
    time |-> 3, packets |-> 2, rotations |-> 0, faults |-> 1]}

\* No replies, but the records of both names change: once between a tick and its
\* reseed, once after it.
Rotating ==
  {[records |-> [n \in Listed |-> IF n = "a.io" THEN {1} ELSE as], names |-> {},
    time |-> 1, packets |-> 0, rotations |-> 2, faults |-> 1] : as \in SUBSET Addrs}

BothWorlds == Sniffing \cup Rotating
=============================================================================
