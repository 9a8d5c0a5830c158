----------------------------- MODULE MCAccounts -----------------------------
(***************************************************************************)
(* Small instances of Accounts: requests of which no two differ.           *)
(***************************************************************************)
EXTENDS Accounts, TLC

Interchangeable == Permutations(Req)
=============================================================================
