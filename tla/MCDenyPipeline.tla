--------------------------- MODULE MCDenyPipeline ---------------------------
(* Instances of DenyPipeline for TLC.                                      *)
EXTENDS DenyPipeline, TLC

KeySymmetry == Permutations(Keys)
=============================================================================
