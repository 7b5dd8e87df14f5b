----------------------------- MODULE MCAccounts -----------------------------
(* Accounts on small sets of interchangeable sessions, requests and backup codes. *)
EXTENDS Accounts, TLC

Symmetry == Permutations(Sessions) \union Permutations(OwnerRequests)
=============================================================================
