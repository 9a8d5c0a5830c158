------------------------------ MODULE MCIntake ------------------------------
(***************************************************************************)
(* Small instances of TenderIntake: requests of which no two differ.       *)
(***************************************************************************)
EXTENDS TenderIntake, TLC

Interchangeable == Permutations(Req)
=============================================================================
