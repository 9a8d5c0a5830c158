----------------------------- MODULE MCReminder -----------------------------
(***************************************************************************)
(* Small instances of ClosingReminder: copies of the API and tenders of    *)
(* which no two differ.                                                    *)
(***************************************************************************)
EXTENDS ClosingReminder, TLC

Interchangeable == Permutations(Tenders) \cup Permutations(Instances)
=============================================================================
