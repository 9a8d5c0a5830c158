--------------------------- MODULE TenderLifecycle ---------------------------
(***************************************************************************)
(* What the API promises of one tender, seen as a row that moves in single *)
(* atomic steps: the mandatory status model of tenderWorkflow.ts:4-14 and  *)
(* the business rules BR-001 (complete checklist before preparation),      *)
(* BR-003 (one responsible user), BR-004 (no submission without the        *)
(* manager's approval) and BR-011 (a returned proposal goes back to the    *)
(* writer who sent it).  TenderHandlers implements this specification when *)
(* requests on the tender do not overlap.                                  *)
(***************************************************************************)
EXTENDS TenderWorkflow

CONSTANTS Users, NoUser

VARIABLES
  status,     \* Tender.status
  owner,      \* Tender.currentAssigneeId
  approved,   \* is Tender.managerApprovedAt set
  author,     \* who last sent the proposal for approval
  ready       \* is the review checklist complete

lifeVars == <<status, owner, approved, author, ready>>

LifeInit ==
  /\ status = Absent
  /\ owner = NoUser
  /\ approved = FALSE
  /\ author = NoUser
  /\ ready \in BOOLEAN

\* A status change is a move of the table, in one atomic step.
Move(action) ==
  \E r \in TRANSITIONS : /\ r.action = action
                         /\ status = r.from
                         /\ status' = r.to

Create(u) ==
  /\ status = Absent
  /\ status' = "NEW"
  /\ owner' = u
  /\ UNCHANGED <<approved, author, ready>>

FillChecklist ==
  /\ ready' \in BOOLEAN
  /\ UNCHANGED <<status, owner, approved, author>>

StartReview(u) ==
  /\ Move("REVIEW_START")
  /\ owner' = u
  /\ UNCHANGED <<approved, author, ready>>

Reject ==
  /\ Move("REVIEW_REJECT")
  /\ owner' = NoUser
  /\ UNCHANGED <<approved, author, ready>>

Assign(w) ==
  /\ ready
  /\ Move("ASSIGN_WRITER")
  /\ owner' = w
  /\ UNCHANGED <<approved, author, ready>>

Submit ==
  /\ Move("SUBMIT_FOR_APPROVAL")
  /\ author' = owner
  /\ owner' = NoUser
  /\ approved' = FALSE
  /\ UNCHANGED ready

Approve(m) ==
  /\ status = "PENDING_APPROVAL"
  /\ approved' = TRUE
  /\ owner' = m
  /\ UNCHANGED <<status, author, ready>>

Return ==
  /\ Move("MANAGER_RETURN")
  /\ owner' = author
  /\ approved' = FALSE
  /\ UNCHANGED <<author, ready>>

Stop ==
  /\ Move("MANAGER_STOP")
  /\ owner' = NoUser
  /\ approved' = FALSE
  /\ UNCHANGED <<author, ready>>

MarkSubmitted(m) ==
  /\ approved
  /\ Move("MARK_SUBMITTED")
  /\ owner' = m
  /\ UNCHANGED <<approved, author, ready>>

RecordResult ==
  /\ Move("RESULT_WON") \/ Move("RESULT_LOST")
  /\ UNCHANGED <<owner, approved, author, ready>>

LifeNext ==
  \/ \E u \in Users : \/ Create(u) \/ StartReview(u) \/ Assign(u)
                      \/ Approve(u) \/ MarkSubmitted(u)
  \/ FillChecklist \/ Reject \/ Submit \/ Return \/ Stop \/ RecordResult

LifeSpec == LifeInit /\ [][LifeNext]_lifeVars
=============================================================================
