-------------------------------- MODULE Lpm --------------------------------
(***************************************************************************)
(* Longest-prefix-match tries of Width-bit addresses.  Every entry the     *)
(* agent programs carries the value 1, so a lookup succeeds exactly when   *)
(* some key covers the address; which one is longest does not matter.      *)
(***************************************************************************)
EXTENDS Naturals

CONSTANT Width    \* bits of an address (32 in the code)

ASSUME WidthAssumption == Width \in Nat

Addr == 0..(2^Width - 1)

\* The network of an address under a mask of len ones (net.IP.Mask).
Mask(addr, len) == addr - (addr % 2^(Width - len))

\* The key programmed for a CIDR: its length and its masked network.
Key(addr, len) == [len |-> len, net |-> Mask(addr, len)]

Keys == {Key(a, len) : a \in Addr, len \in 0..Width}

Covers(key, addr) == Mask(addr, key.len) = key.net

\* bpf_map_lookup_elem with prefixlen Width.
Hit(trie, addr) == \E key \in trie : Covers(key, addr)
=============================================================================
