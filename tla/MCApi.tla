------------------------------- MODULE MCApi -------------------------------
(***************************************************************************)
(* Small instances of ApiInstances: the login limit below the global one.  *)
(***************************************************************************)
EXTENDS ApiInstances

LimitOf == [l \in Limiter |-> IF l = "login" THEN 1 ELSE 2]
=============================================================================
