--------------------------- MODULE MCMapIntegrity ---------------------------
(* Two-bit addresses, seven keys: one allowed address, an allowed half      *)
(* given with a host bit set, an ignored address inside it, and one address *)
(* that no rule admits.  Stale wider keys can cover all of them.            *)
EXTENDS MapIntegrity

OneHost == {3}
LowerHalf == {[addr |-> 1, len |-> 1]}
OneIgnored == {[addr |-> 1, len |-> 2]}
=============================================================================
