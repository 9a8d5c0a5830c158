------------------------------ MODULE MCTender ------------------------------
(***************************************************************************)
(* Small instances of TenderHandlers: one account per role that acts, a    *)
(* second one where a rule is about telling two users apart.               *)
(***************************************************************************)
EXTENDS TenderInvariant, TLC

CONSTANTS qa1, qa2, w1, w2, m1, m2

\* Whom the accounts belong to; a run names those it has in Users.
RoleOf ==
  qa1 :> "QA" @@ qa2 :> "QA" @@ w1 :> "WRITER" @@ w2 :> "WRITER"
    @@ m1 :> "MANAGER" @@ m2 :> "MANAGER"

MCStaff == [u \in Users |-> RoleOf[u]]

\* All operations; and the ones left when requests race, without those that
\* write neither the status, the responsible user nor the approval.
AllOperations == Operation
RacingOperations == Operation \ {"EDIT", "REVIEW_APPROVE"}

HandlerSymmetry == Permutations(Handlers)
=============================================================================
