--------------------------- MODULE TenderWorkflow ---------------------------
(***************************************************************************)
(* The pure core of the tender life cycle: the statuses, the roles and the *)
(* transition table of apps/api/src/services/tenderWorkflow.ts, with the   *)
(* edit lock of packages/shared/src/schemas/tender.ts.  Every other module *)
(* of the life cycle takes its moves from here.                            *)
(***************************************************************************)

TENDER_STATUSES ==
  {"NEW", "UNDER_REVIEW", "REJECTED", "PROPOSAL_PREPARATION",
   "PENDING_APPROVAL", "SUBMITTED", "WON", "LOST"}

\* Stands for "no tender row" and for the null fromStatus of the first row.
Absent == "ABSENT"

\* What Tender.status can hold, the missing row included.
StatusOrAbsent == TENDER_STATUSES \cup {Absent}

Role == {"QA", "WRITER", "MANAGER", "OWNER", "ADMIN"}

Rule(action, from, to, roles) ==
  [action |-> action, from |-> from, to |-> to, roles |-> roles]

TRANSITIONS ==
  { Rule("REVIEW_START", "NEW", "UNDER_REVIEW", {"QA"}),
    Rule("REVIEW_REJECT", "UNDER_REVIEW", "REJECTED", {"QA"}),
    Rule("ASSIGN_WRITER", "UNDER_REVIEW", "PROPOSAL_PREPARATION", {"QA"}),
    Rule("SUBMIT_FOR_APPROVAL", "PROPOSAL_PREPARATION", "PENDING_APPROVAL", {"WRITER"}),
    Rule("MANAGER_RETURN", "PENDING_APPROVAL", "PROPOSAL_PREPARATION", {"MANAGER"}),
    Rule("MANAGER_STOP", "PENDING_APPROVAL", "REJECTED", {"MANAGER"}),
    Rule("MARK_SUBMITTED", "PENDING_APPROVAL", "SUBMITTED", {"MANAGER"}),
    Rule("RESULT_WON", "SUBMITTED", "WON", {"MANAGER"}),
    Rule("RESULT_LOST", "SUBMITTED", "LOST", {"MANAGER"}) }

WorkflowAction ==
  {"REVIEW_START", "REVIEW_REJECT", "ASSIGN_WRITER", "SUBMIT_FOR_APPROVAL",
   "MANAGER_RETURN", "MANAGER_STOP", "MARK_SUBMITTED", "RESULT_WON", "RESULT_LOST"}

\* Fault: the rule is looked up by its action alone.
resolveByAction(action, from, role, to) ==
  \E r \in TRANSITIONS : r.action = action /\ role \in r.roles /\ r.to = to

\* resolveTransition(action, from, role) returns `to`; it throws (422 or 403)
\* when no `to` is related.
resolveTransition(action, from, role, to) ==
  \E r \in TRANSITIONS : /\ r.action = action
                         /\ r.from = from
                         /\ role \in r.roles
                         /\ r.to = to

canTransition(action, from) ==
  \E r \in TRANSITIONS : r.action = action /\ r.from = from

\* The moves the table allows, whatever the action and the role.
InTable(from, to) == \E r \in TRANSITIONS : r.from = from /\ r.to = to

LOCKED_TENDER_STATUSES == {"SUBMITTED", "WON", "LOST", "REJECTED"}

isTenderEditable(status) == status \notin LOCKED_TENDER_STATUSES
=============================================================================
