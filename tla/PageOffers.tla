----------------------------- MODULE PageOffers -----------------------------
(***************************************************************************)
(* What the web client offers a user and what the API accepts from him,    *)
(* side by side: the conditions of ActionsBar.tsx, ReviewTab.tsx and       *)
(* TenderDetailsPage.tsx against the guards of the routes.  A row is       *)
(* [status, owner, approved], as the client gets it and as the API has it. *)
(***************************************************************************)
EXTENDS TenderWorkflow

\* What the page of a tender can send.
BarOps ==
  {"ASSIGN_WRITER", "SUBMIT_FOR_APPROVAL", "MANAGER_APPROVE", "MANAGER_RETURN",
   "MANAGER_STOP", "MARK_SUBMITTED", "RESULT_WON", "RESULT_LOST"}
ReviewOps == {"REVIEW_START", "SAVE_CHECKLIST", "REVIEW_APPROVE", "REVIEW_REJECT"}
PageOps == BarOps \cup ReviewOps \cup {"EDIT"}

ActionsBarShows(op, u, role, row) ==
  \/ op = "ASSIGN_WRITER" /\ row.status = "UNDER_REVIEW" /\ role = "QA"
  \/ op = "SUBMIT_FOR_APPROVAL" /\ row.status = "PROPOSAL_PREPARATION" /\ role = "WRITER" /\ row.owner = u
  \/ /\ row.status = "PENDING_APPROVAL" /\ role = "MANAGER"
     /\ \/ op = "MANAGER_APPROVE" /\ ~row.approved
        \/ op = "MARK_SUBMITTED" /\ row.approved
        \/ op \in {"MANAGER_RETURN", "MANAGER_STOP"}
  \/ op \in {"RESULT_WON", "RESULT_LOST"} /\ row.status = "SUBMITTED" /\ role = "MANAGER"

\* Whether the approval's button is enabled is a matter of the ticks.
ReviewTabShows(op, role, row) ==
  /\ role = "QA"
  /\ \/ op = "REVIEW_START" /\ row.status = "NEW"
     \/ op \in {"SAVE_CHECKLIST", "REVIEW_APPROVE", "REVIEW_REJECT"} /\ row.status = "UNDER_REVIEW"

\* Fault: the lock of a decided tender is left to the API.
canEditByRole(role, row) == role \in {"QA", "MANAGER", "ADMIN"}

canEdit(role, row) == role \in {"QA", "MANAGER", "ADMIN"} /\ isTenderEditable(row.status)

Shows(op, u, role, row) ==
  \/ ActionsBarShows(op, u, role, row)
  \/ ReviewTabShows(op, role, row)
  \/ op = "EDIT" /\ canEdit(role, row)

\* requireRole(...) of the route that serves the operation.
RouteRoles(op) ==
  CASE op \in ReviewOps \cup {"ASSIGN_WRITER"} -> {"QA"}
    [] op = "SUBMIT_FOR_APPROVAL" -> {"WRITER"}
    [] op = "EDIT" -> {"QA", "MANAGER", "ADMIN"}
    [] OTHER -> {"MANAGER"}

\* The checks of the handler on the row and on the checklist.
Admits(op, u, role, row, ready) ==
  /\ role \in RouteRoles(op)
  /\ op \in WorkflowAction =>
       \E r \in TRANSITIONS : r.action = op /\ r.from = row.status /\ role \in r.roles
  /\ op = "SUBMIT_FOR_APPROVAL" => row.owner = u
  /\ op = "MARK_SUBMITTED" => row.approved
  /\ op = "REVIEW_APPROVE" => row.status = "UNDER_REVIEW"
  /\ op = "MANAGER_APPROVE" => row.status = "PENDING_APPROVAL"
  /\ op = "EDIT" => isTenderEditable(row.status)
  /\ op \in {"REVIEW_APPROVE", "ASSIGN_WRITER"} => ready

\* The filter of MyTasksPage.tsx.
MyTasks(u, role, row) ==
  IF role = "MANAGER" THEN row.status = "PENDING_APPROVAL" ELSE row.owner = u

\* Fault: the card counts what is not approved yet.
CardsCountUnapproved(u, role, row) ==
  \/ role = "QA" /\ \/ row.status = "NEW"
                    \/ row.status = "UNDER_REVIEW" /\ row.owner = u
  \/ role = "WRITER" /\ row.status = "PROPOSAL_PREPARATION" /\ row.owner = u
  \/ role = "MANAGER" /\ ((row.status = "PENDING_APPROVAL" /\ ~row.approved) \/ row.status = "SUBMITTED")

\* Is the row counted on one of the cards GET /dashboard makes for the user?
Cards(u, role, row) ==
  \/ role = "QA" /\ \/ row.status = "NEW"
                    \/ row.status = "UNDER_REVIEW" /\ row.owner = u
  \/ role = "WRITER" /\ row.status = "PROPOSAL_PREPARATION" /\ row.owner = u
  \/ role = "MANAGER" /\ row.status \in {"PENDING_APPROVAL", "SUBMITTED"}
=============================================================================
