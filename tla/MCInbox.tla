------------------------------ MODULE MCInbox ------------------------------
(***************************************************************************)
(* Small instances of Inbox.                                               *)
(***************************************************************************)
EXTENDS Inbox

CONSTANTS ali, mona
=============================================================================
