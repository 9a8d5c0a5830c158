----------------------------- MODULE MCChecklist -----------------------------
(***************************************************************************)
(* Small instances of ChecklistTemplates: items and requests of which no   *)
(* two differ.                                                             *)
(***************************************************************************)
EXTENDS ChecklistTemplates, TLC

Interchangeable == Permutations(Items) \cup Permutations(Slots)
=============================================================================
