----------------------------- MODULE MCKbQueue -----------------------------
(* KbQueue on small sets.  Documents, job identifiers and places are         *)
(* interchangeable in it, so their permutations are symmetries.              *)
EXTENDS KbQueue, TLC

Symmetry == Permutations(Docs) \union Permutations(JobIds) \union Permutations(Slots)
=============================================================================
