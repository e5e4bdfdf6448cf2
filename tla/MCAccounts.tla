----------------------------- MODULE MCAccounts -----------------------------
(* Instances of Accounts for TLC.  Requests, and codes, are interchangeable. *)
EXTENDS Accounts, TLC

Interchangeable == Permutations(Req) \cup Permutations(Code)
=============================================================================
