---------------------------- MODULE MCAttachments ----------------------------
(***************************************************************************)
(* Small instances of Attachments: requests of which no two differ.        *)
(***************************************************************************)
EXTENDS Attachments, TLC

\* Every instance has a directory of its own.
OwnDisks == [x \in Instances |-> x]

Interchangeable == Permutations(Slots)
=============================================================================
