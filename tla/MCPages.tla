------------------------------ MODULE MCPages ------------------------------
(***************************************************************************)
(* Small instances of TenderPages: somebody of every role that acts.       *)
(***************************************************************************)
EXTENDS TenderPages

CONSTANTS qa1, qa2, writer, manager

StaffOf == [u \in Users |->
  CASE u = writer -> "WRITER" [] u = manager -> "MANAGER" [] OTHER -> "QA"]
=============================================================================
