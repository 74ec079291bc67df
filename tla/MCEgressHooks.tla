--------------------------- MODULE MCEgressHooks ---------------------------
(* One remote address of each family; with the special ones and the mapped  *)
(* forms this is every kind of destination the hooks tell apart.            *)
EXTENDS EgressHooks
=============================================================================
