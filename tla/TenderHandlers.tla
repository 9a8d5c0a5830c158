--------------------------- MODULE TenderHandlers ---------------------------
(***************************************************************************)
(* The HTTP handlers that act on one tender (apps/api/src/routes/tenders,  *)
(* services/tenderAssignment.ts, services/tenderDecision.ts), as they run: *)
(* several requests at a time, over any number of API instances.  A        *)
(* handler authenticates, reads the tender and checks it, perhaps reads    *)
(* more, then commits ONE transaction that writes the row unconditionally, *)
(* and then, outside the transaction, creates notifications one by one.    *)
(* Every `await` between two of these is a point where other requests run. *)
(*                                                                         *)
(* The data of a tender is one abstract value.  managerApprovedAt is kept  *)
(* as the round the manager had on screen: the number of history rows      *)
(* when the handler read the tender (0 stands for null).                   *)
(***************************************************************************)
EXTENDS TenderWorkflow, Naturals, Sequences, FiniteSets

CONSTANTS
  Users,        \* all accounts
  NoUser,       \* null in a user column
  Staff,        \* the accounts' roles at the start, a function on Users
  Managed,      \* the accounts an administrator changes meanwhile
  NewRoles,     \* the roles an administrator may give them
  Items,        \* the items of the active checklist template
  Data,         \* values of the tender's editable fields
  Handlers,     \* slots: the requests that can be in flight together
  Offered,      \* the operations the clients request
  MaxHistory,   \* bound on the status history
  MaxCrashes    \* bound on the handlers that die half-way

CommitOnly == {"SAVE_CHECKLIST", "REVIEW_APPROVE", "MANAGER_APPROVE", "EDIT"}
Operation == WorkflowAction \cup CommitOnly \cup {"CREATE"}

ASSUME UsersAssumption ==
  /\ NoUser \notin Users
  /\ Staff \in [Users -> Role]
  /\ Managed \subseteq Users
  /\ NewRoles \subseteq Role
ASSUME BoundsAssumption ==
  /\ Offered \subseteq Operation
  /\ MaxHistory \in Nat
  /\ MaxCrashes \in Nat

VARIABLES
  tender,    \* the Tender row
  history,   \* its TenderStatusHistory rows, oldest first
  audit,     \* its AuditLog rows for the two approvals, the only ones with no history row
  checked,   \* the items with a TenderChecklistAnswer that is checked
  account,   \* User.role and User.isActive
  inbox,     \* the Notification rows about the tender
  slot,      \* the request each handler serves
  crashes    \* how many handlers have died so far

vars == <<tender, history, audit, checked, account, inbox, slot, crashes>>
-----------------------------------------------------------------------------
(* Types *)

UserOrNull == Users \cup {NoUser}

Tender == [status : StatusOrAbsent, assignee : UserOrNull, approvedAt : Nat,
           rejectionReason : BOOLEAN, data : Data]

HistoryRow == [from : StatusOrAbsent, to : TENDER_STATUSES, by : Users]

NotificationType ==
  {"TENDER_CREATED", "ASSIGNED", "SUBMITTED_FOR_APPROVAL", "RETURNED", "APPROVED", "RESULT"}

\* `row` is the newest history row when the notifying handler committed.
Notification == [type : NotificationType, user : Users, row : Nat]

AuditRow == [action : {"REVIEW_APPROVED", "MANAGER_APPROVED"}, round : Nat]

Step == {"idle", "auth", "checklist", "writer", "lastSubmit", "commit", "recipients", "deliver"}

\* The local variables of a handler: req.user as requireAuth read it, the
\* status and the round it read, the status it resolved, the writer it is
\* about, and, once committed, the users it still has to notify.
Request == [pc : Step, op : Operation \cup {"NONE"}, user : UserOrNull,
            role : Role \cup {"NONE"}, from : StatusOrAbsent, to : StatusOrAbsent,
            round : Nat, target : UserOrNull, todo : SUBSET Users, row : Nat]

Idle == [pc |-> "idle", op |-> "NONE", user |-> NoUser, role |-> "NONE",
         from |-> Absent, to |-> Absent, round |-> 0, target |-> NoUser,
         todo |-> {}, row |-> 0]

TypeOK ==
  /\ tender \in Tender
  /\ history \in Seq(HistoryRow)
  /\ audit \subseteq AuditRow
  /\ checked \subseteq Items
  /\ account \in [Users -> [role : Role, active : BOOLEAN]]
  /\ inbox \subseteq Notification
  /\ slot \in [Handlers -> Request]
  /\ crashes \in Nat

Init ==
  /\ \E d \in Data :
       tender = [status |-> Absent, assignee |-> NoUser, approvedAt |-> 0,
                 rejectionReason |-> FALSE, data |-> d]
  /\ history = <<>>
  /\ audit = {}
  /\ checked = {}
  /\ account = [u \in Users |-> [role |-> Staff[u], active |-> TRUE]]
  /\ inbox = {}
  /\ slot = [h \in Handlers |-> Idle]
  /\ crashes = 0
-----------------------------------------------------------------------------
(* Reads *)

\* requireRole(...) of the route that serves the operation.
RouteRoles(op) ==
  CASE op \in {"CREATE", "REVIEW_START", "REVIEW_REJECT", "REVIEW_APPROVE",
               "SAVE_CHECKLIST", "ASSIGN_WRITER"} -> {"QA"}
    [] op = "SUBMIT_FOR_APPROVAL" -> {"WRITER"}
    [] op = "EDIT" -> {"QA", "MANAGER", "ADMIN"}
    [] OTHER -> {"MANAGER"}

isChecklistComplete == Items # {} /\ Items \subseteq checked

ActiveWith(role) == {u \in Users : account[u].active /\ account[u].role = role}

isActiveWriter(u) == u \in ActiveWith("WRITER")

\* findLastStatusEvent: who wrote the newest row to PENDING_APPROVAL.
LastSubmitter ==
  LET sent == {i \in 1..Len(history) : history[i].to = "PENDING_APPROVAL"}
  IN  IF sent = {} THEN NoUser
      ELSE history[CHOOSE i \in sent : \A j \in sent : j <= i].by

\* Fault: mark-submitted without the BR-004 check.
AdmitsUnapproved(r) ==
  /\ r.op = "SUBMIT_FOR_APPROVAL" => tender.assignee = r.user
  /\ r.op = "REVIEW_APPROVE" => tender.status = "UNDER_REVIEW"
  /\ r.op = "MANAGER_APPROVE" => tender.status = "PENDING_APPROVAL"
  /\ r.op = "EDIT" => isTenderEditable(tender.status)

\* Fault: PATCH without the ACT-02 check.
AdmitsLockedEdit(r) ==
  /\ r.op = "SUBMIT_FOR_APPROVAL" => tender.assignee = r.user
  /\ r.op = "MARK_SUBMITTED" => tender.approvedAt # 0
  /\ r.op = "REVIEW_APPROVE" => tender.status = "UNDER_REVIEW"
  /\ r.op = "MANAGER_APPROVE" => tender.status = "PENDING_APPROVAL"

\* What the handler checks on the tender it read, short of resolveTransition.
Admits(r) ==
  /\ r.op = "SUBMIT_FOR_APPROVAL" => tender.assignee = r.user
  /\ r.op = "MARK_SUBMITTED" => tender.approvedAt # 0
  /\ r.op = "REVIEW_APPROVE" => tender.status = "UNDER_REVIEW"
  /\ r.op = "MANAGER_APPROVE" => tender.status = "PENDING_APPROVAL"
  /\ r.op = "EDIT" => isTenderEditable(tender.status)

\* The status the handler will write: resolveTransition's, or none but the present one.
Resolves(r, to) ==
  IF r.op \in WorkflowAction
  THEN resolveTransition(r.op, tender.status, r.role, to)
  ELSE to = tender.status

\* Fault: the return does not look up the last submission.
AfterReadNoLookup(op) ==
  IF op \in {"ASSIGN_WRITER", "REVIEW_APPROVE"} THEN "checklist" ELSE "commit"

\* What comes after the first read.
AfterRead(op) ==
  CASE op \in {"ASSIGN_WRITER", "REVIEW_APPROVE"} -> "checklist"
    [] op = "MANAGER_RETURN" -> "lastSubmit"
    [] OTHER -> "commit"
-----------------------------------------------------------------------------
(* A request up to its transaction *)

InFlight == {h \in Handlers : slot[h].pc # "idle"}

\* A client sends a request and requireAuth and requireRole let it pass:
\* the role is the one in the database now.  The bound keeps room in the
\* history for everything in flight.
Begin(h, op, u, w) ==
  /\ slot[h].pc = "idle"
  /\ account[u].active
  /\ account[u].role \in RouteRoles(op)
  /\ op = "CREATE" <=> tender.status = Absent
  /\ op = "CREATE" => \A g \in Handlers : slot[g].op # "CREATE"
  /\ op = "ASSIGN_WRITER" <=> w # NoUser
  /\ op \in CommitOnly \/ Len(history) + Cardinality(InFlight) < MaxHistory
  /\ slot' = [slot EXCEPT ![h] =
       [Idle EXCEPT !.pc = IF op = "CREATE" THEN "commit" ELSE "auth",
                    !.op = op, !.user = u, !.role = account[u].role, !.target = w]]
  /\ UNCHANGED <<tender, history, audit, checked, account, inbox, crashes>>

\* findByIdOrThrow and the checks on what it returned.
Read(h) ==
  /\ slot[h].pc = "auth"
  /\ Admits(slot[h])
  /\ \E to \in TENDER_STATUSES :
       /\ Resolves(slot[h], to)
       /\ slot' = [slot EXCEPT ![h].pc = AfterRead(slot[h].op),
                               ![h].from = tender.status,
                               ![h].to = to,
                               ![h].round = Len(history)]
  /\ UNCHANGED <<tender, history, audit, checked, account, inbox, crashes>>

\* BR-001, in review approval and in assignment.
CheckChecklist(h) ==
  /\ slot[h].pc = "checklist"
  /\ isChecklistComplete
  /\ slot' = [slot EXCEPT ![h].pc = IF slot[h].op = "ASSIGN_WRITER" THEN "writer" ELSE "commit"]
  /\ UNCHANGED <<tender, history, audit, checked, account, inbox, crashes>>

\* BR-003, in assignment.
CheckWriter(h) ==
  /\ slot[h].pc = "writer"
  /\ isActiveWriter(slot[h].target)
  /\ slot' = [slot EXCEPT ![h].pc = "commit"]
  /\ UNCHANGED <<tender, history, audit, checked, account, inbox, crashes>>

\* returnToWriter reads the last submission before its transaction.
FindLastSubmit(h) ==
  /\ slot[h].pc = "lastSubmit"
  /\ slot' = [slot EXCEPT ![h].pc = "commit", ![h].target = LastSubmitter]
  /\ UNCHANGED <<tender, history, audit, checked, account, inbox, crashes>>

\* Any check that fails answers 4xx and changes nothing.
Refuse(h) ==
  /\ \/ /\ slot[h].pc = "auth"
        /\ ~ (Admits(slot[h]) /\ \E to \in TENDER_STATUSES : Resolves(slot[h], to))
     \/ slot[h].pc = "checklist" /\ ~ isChecklistComplete
     \/ slot[h].pc = "writer" /\ ~ isActiveWriter(slot[h].target)
  /\ slot' = [slot EXCEPT ![h] = Idle]
  /\ UNCHANGED <<tender, history, audit, checked, account, inbox, crashes>>
-----------------------------------------------------------------------------
(* The transactions, one per operation *)

Committing(h, op) == slot[h].pc = "commit" /\ slot[h].op = op

\* Fault: the two statuses of the history row swapped.
recordSwapped(h, row) ==
  /\ tender' = [row EXCEPT !.status = slot[h].to]
  /\ history' = Append(history, [from |-> slot[h].to, to |-> slot[h].from, by |-> slot[h].user])
  /\ UNCHANGED <<audit, checked, account, inbox, crashes>>

\* recordStatusChange: update by id alone, with no condition on the status the
\* row has by now, and the history row says the status the handler had read.
recordStatusChange(h, row) ==
  /\ tender' = [row EXCEPT !.status = slot[h].to]
  /\ history' = Append(history, [from |-> slot[h].from, to |-> slot[h].to, by |-> slot[h].user])
  /\ UNCHANGED <<audit, checked, account, inbox, crashes>>

Respond(h) == slot' = [slot EXCEPT ![h] = Idle]

\* The handler goes on to notify `todo`, or answers when there is nobody.
Notify(h, todo, row) ==
  slot' = [slot EXCEPT ![h] = IF todo = {} THEN Idle
                              ELSE [@ EXCEPT !.pc = "deliver", !.todo = todo, !.row = row]]

\* The handler goes on to look up whom to notify.
LookUpRecipients(h, row) ==
  slot' = [slot EXCEPT ![h].pc = "recipients", ![h].row = row]

CreateTender(h) ==
  /\ Committing(h, "CREATE")
  /\ tender' = [tender EXCEPT !.status = "NEW", !.assignee = slot[h].user]
  /\ history' = Append(history, [from |-> Absent, to |-> "NEW", by |-> slot[h].user])
  /\ LookUpRecipients(h, Len(history) + 1)
  /\ UNCHANGED <<audit, checked, account, inbox, crashes>>

StartReview(h) ==
  /\ Committing(h, "REVIEW_START")
  /\ recordStatusChange(h, [tender EXCEPT !.assignee = slot[h].user])
  /\ Respond(h)

SaveChecklist(h) ==
  /\ Committing(h, "SAVE_CHECKLIST")
  /\ \E answered \in SUBSET Items : \E ticked \in SUBSET answered :
       checked' = (checked \ answered) \cup ticked
  /\ Respond(h)
  /\ UNCHANGED <<tender, history, audit, account, inbox, crashes>>

ApproveReview(h) ==
  /\ Committing(h, "REVIEW_APPROVE")
  /\ audit' = audit \cup {[action |-> "REVIEW_APPROVED", round |-> slot[h].round]}
  /\ Respond(h)
  /\ UNCHANGED <<tender, history, checked, account, inbox, crashes>>

RejectInReview(h) ==
  /\ Committing(h, "REVIEW_REJECT")
  /\ recordStatusChange(h, [tender EXCEPT !.assignee = NoUser, !.rejectionReason = TRUE])
  /\ Respond(h)

AssignWriter(h) ==
  /\ Committing(h, "ASSIGN_WRITER")
  /\ recordStatusChange(h, [tender EXCEPT !.assignee = slot[h].target])
  /\ Notify(h, {slot[h].target}, Len(history) + 1)

\* Fault: the writer stays responsible while the proposal is pending.
SubmitKeepsAssignee(h) ==
  /\ Committing(h, "SUBMIT_FOR_APPROVAL")
  /\ recordStatusChange(h, [tender EXCEPT !.approvedAt = 0])
  /\ LookUpRecipients(h, Len(history) + 1)

\* Fault: the managers are told, and the transaction rolls back.
SubmitAnnouncesOnly(h) ==
  /\ Committing(h, "SUBMIT_FOR_APPROVAL")
  /\ LookUpRecipients(h, Len(history) + 1)
  /\ UNCHANGED <<tender, history, audit, checked, account, inbox, crashes>>

SubmitForApproval(h) ==
  /\ Committing(h, "SUBMIT_FOR_APPROVAL")
  /\ recordStatusChange(h, [tender EXCEPT !.assignee = NoUser, !.approvedAt = 0])
  /\ LookUpRecipients(h, Len(history) + 1)

\* approve() consults no table and re-reads nothing: the status stays.
ManagerApprove(h) ==
  /\ Committing(h, "MANAGER_APPROVE")
  /\ tender' = [tender EXCEPT !.approvedAt = slot[h].round, !.assignee = slot[h].user]
  /\ audit' = audit \cup {[action |-> "MANAGER_APPROVED", round |-> slot[h].round]}
  /\ LookUpRecipients(h, Len(history))
  /\ UNCHANGED <<history, checked, account, inbox, crashes>>

\* Fault: the approval outlives the return.
ReturnKeepsApproval(h) ==
  /\ Committing(h, "MANAGER_RETURN")
  /\ recordStatusChange(h, [tender EXCEPT !.assignee = slot[h].target])
  /\ Notify(h, {slot[h].target} \ {NoUser}, Len(history) + 1)

ReturnToWriter(h) ==
  /\ Committing(h, "MANAGER_RETURN")
  /\ recordStatusChange(h, [tender EXCEPT !.assignee = slot[h].target, !.approvedAt = 0])
  /\ Notify(h, {slot[h].target} \ {NoUser}, Len(history) + 1)

\* Fault: the reason goes to the history note alone.
StopWithoutReason(h) ==
  /\ Committing(h, "MANAGER_STOP")
  /\ recordStatusChange(h, [tender EXCEPT !.assignee = NoUser, !.approvedAt = 0])
  /\ Respond(h)

ManagerStop(h) ==
  /\ Committing(h, "MANAGER_STOP")
  /\ recordStatusChange(h, [tender EXCEPT !.assignee = NoUser, !.approvedAt = 0,
                                          !.rejectionReason = TRUE])
  /\ Respond(h)

MarkSubmitted(h) ==
  /\ Committing(h, "MARK_SUBMITTED")
  /\ recordStatusChange(h, [tender EXCEPT !.assignee = slot[h].user])
  /\ Respond(h)

RecordResult(h) ==
  /\ Committing(h, "RESULT_WON") \/ Committing(h, "RESULT_LOST")
  /\ recordStatusChange(h, tender)
  /\ Notify(h, {history[1].by}, Len(history) + 1)

\* PATCH /tenders/:id writes the editable fields, whatever the status is by now.
EditTender(h) ==
  /\ Committing(h, "EDIT")
  /\ \E d \in Data : tender' = [tender EXCEPT !.data = d]
  /\ Respond(h)
  /\ UNCHANGED <<history, audit, checked, account, inbox, crashes>>
-----------------------------------------------------------------------------
(* After the commit, and around it *)

\* Whom the handler finds to notify: the active users of a role, or the writer
\* of the newest submission.
Recipients(r) ==
  CASE r.op = "CREATE" -> ActiveWith("QA") \ {r.user}
    [] r.op = "SUBMIT_FOR_APPROVAL" -> ActiveWith("MANAGER")
    [] OTHER -> {LastSubmitter} \ {NoUser}

FindRecipients(h) ==
  /\ slot[h].pc = "recipients"
  /\ Notify(h, Recipients(slot[h]), slot[h].row)
  /\ UNCHANGED <<tender, history, audit, checked, account, inbox, crashes>>

\* Fault: the operation's name taken for the notification's type.
TypeIsOperation(op) == op

TypeOf(op) ==
  CASE op = "CREATE" -> "TENDER_CREATED"
    [] op = "ASSIGN_WRITER" -> "ASSIGNED"
    [] op = "SUBMIT_FOR_APPROVAL" -> "SUBMITTED_FOR_APPROVAL"
    [] op = "MANAGER_RETURN" -> "RETURNED"
    [] op = "MANAGER_APPROVE" -> "APPROVED"
    [] OTHER -> "RESULT"

\* Fault: notifyRole keeps to its first user.
DeliverOnce(h) ==
  /\ slot[h].pc = "deliver"
  /\ \E u \in slot[h].todo :
       inbox' = inbox \cup {[type |-> TypeOf(slot[h].op), user |-> u, row |-> slot[h].row]}
  /\ Respond(h)
  /\ UNCHANGED <<tender, history, audit, checked, account, crashes>>

\* Fault: a delivered user stays on the list.
DeliverForever(h) ==
  /\ slot[h].pc = "deliver"
  /\ \E u \in slot[h].todo :
       inbox' = inbox \cup {[type |-> TypeOf(slot[h].op), user |-> u, row |-> slot[h].row]}
  /\ UNCHANGED <<tender, history, audit, checked, account, slot, crashes>>

\* One Notification row per step: notifyRole awaits each insert.
Deliver(h) ==
  /\ slot[h].pc = "deliver"
  /\ \E u \in slot[h].todo :
       /\ inbox' = inbox \cup {[type |-> TypeOf(slot[h].op), user |-> u, row |-> slot[h].row]}
       /\ Notify(h, slot[h].todo \ {u}, slot[h].row)
  /\ UNCHANGED <<tender, history, audit, checked, account, crashes>>

\* The process dies, or a query fails, between two awaits: what is committed
\* stays, an open transaction is rolled back, the rest of the handler is lost.
Crash(h) ==
  /\ slot[h].pc # "idle"
  /\ crashes < MaxCrashes
  /\ crashes' = crashes + 1
  /\ slot' = [slot EXCEPT ![h] = Idle]
  /\ UNCHANGED <<tender, history, audit, checked, account, inbox>>

\* PATCH /admin/users/:id, with no look at the tenders the user is assigned.
PatchUser(u, role, active) ==
  /\ account' = [account EXCEPT ![u] = [role |-> role, active |-> active]]
  /\ UNCHANGED <<tender, history, audit, checked, inbox, slot, crashes>>
-----------------------------------------------------------------------------
Commit(h) ==
  \/ CreateTender(h) \/ StartReview(h) \/ SaveChecklist(h) \/ ApproveReview(h)
  \/ RejectInReview(h) \/ AssignWriter(h) \/ SubmitForApproval(h)
  \/ ManagerApprove(h) \/ ReturnToWriter(h) \/ ManagerStop(h)
  \/ MarkSubmitted(h) \/ RecordResult(h) \/ EditTender(h)

\* What the event loop does for a request once it is in.
Proceed(h) ==
  \/ Read(h) \/ CheckChecklist(h) \/ CheckWriter(h) \/ FindLastSubmit(h) \/ Refuse(h)
  \/ Commit(h) \/ FindRecipients(h) \/ Deliver(h)

Next ==
  \/ \E h \in Handlers :
       \/ \E op \in Offered, u \in Users, w \in UserOrNull : Begin(h, op, u, w)
       \/ Proceed(h)
       \/ Crash(h)
  \/ \E u \in Managed, role \in NewRoles, active \in BOOLEAN : PatchUser(u, role, active)

Spec == Init /\ [][Next]_vars

\* A request that is in is served to its end; clients, administrators and
\* crashes owe nothing.
Fairness == \A h \in Handlers : WF_vars(Proceed(h))

FairSpec == Spec /\ Fairness
=============================================================================
