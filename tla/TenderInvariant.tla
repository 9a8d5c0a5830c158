-------------------------- MODULE TenderInvariant --------------------------
(***************************************************************************)
(* The inductive invariant behind the properties that hold under any       *)
(* interleaving.  What they say of the database alone is not inductive: a  *)
(* transaction writes what its handler read earlier, so that the invariant *)
(* must say what every local variable of every request in flight still     *)
(* means now that others may have committed.                               *)
(***************************************************************************)
EXTENDS TenderProperties

\* Some row to PENDING_APPROVAL is the newest one: what findLastStatusEvent finds.
NewestSubmission ==
  \A i \in Rows : history[i].to = "PENDING_APPROVAL" =>
    \E k \in Rows : /\ history[k].to = "PENDING_APPROVAL"
                    /\ \A j \in Rows : history[j].to = "PENDING_APPROVAL" => j <= k

\* An approval in the audit log is of a submission that was made, and the one
\* on the row is in the log.
ApprovalsAreReal ==
  /\ \A a \in audit : a.action = "MANAGER_APPROVED" =>
       a.round \in Rows /\ history[a.round].to = "PENDING_APPROVAL"
  /\ tender.approvedAt # 0 =>
       \E a \in audit : a.action = "MANAGER_APPROVED"

\* A request in flight has a user, and is for a tender that exists, except
\* the one that is about to create it.
Served(r) ==
  /\ r.op = "CREATE" => r.pc \in {"commit", "recipients", "deliver"}
  /\ r.pc # "idle" => /\ r.op \in Operation
                      /\ r.user \in Users
                      /\ (r.op = "CREATE" /\ r.pc = "commit") <=> history = <<>>

CreatedOnce ==
  \A g, h \in Handlers : slot[g].op = "CREATE" /\ slot[h].op = "CREATE" => g = h

\* What a handler read was true of some moment that the history still shows.
ReadWhatWas(r) ==
  r.pc \in {"checklist", "writer", "lastSubmit", "commit"} /\ r.op # "CREATE" =>
    /\ r.round \in Rows
    /\ history[r.round].to = r.from
    /\ r.op \in WorkflowAction => resolveTransition(r.op, r.from, r.role, r.to)
    /\ r.op = "MANAGER_APPROVE" => r.from = "PENDING_APPROVAL"
    /\ r.op = "MARK_SUBMITTED" => \E a \in audit : a.action = "MANAGER_APPROVED"

\* A handler that makes somebody responsible for a proposal knows whom.
KnowsWhom(r) ==
  /\ r.pc \in {"checklist", "writer"} => r.op \in {"ASSIGN_WRITER", "REVIEW_APPROVE"}
  /\ r.pc = "lastSubmit" => r.op = "MANAGER_RETURN"
  /\ r.op = "ASSIGN_WRITER" => r.target \in Users
  /\ r.op = "MANAGER_RETURN" /\ r.pc = "commit" => r.target \in Users

\* What a handler is still to announce is committed.
AnnouncesWhatIs(r) ==
  r.pc \in {"recipients", "deliver"} => Backs(r.row, TypeOf(r.op))

SlotInv(r) == Served(r) /\ ReadWhatWas(r) /\ KnowsWhom(r) /\ AnnouncesWhatIs(r)

RowsInv ==
  /\ StatusIsLastRow
  /\ NothingSkipped
  /\ SubmissionWasApproved
  /\ OpenTenderHasOwner
  /\ RejectionHasReason
  /\ NewestSubmission
  /\ ApprovalsAreReal

\* The invariant every step preserves, by whichever handler: the rows, the
\* notifications and, for each slot, the meaning of its local variables.
IInv ==
  /\ TypeOK
  /\ RowsInv
  /\ NoticesAreBacked
  /\ CreatedOnce
  /\ \A h \in Handlers : SlotInv(slot[h])
-----------------------------------------------------------------------------
(* While decisions are taken in turn *)

\* What a handler has read is still so: nobody has committed in between.
StillTrue(r) ==
  r.pc \in {"checklist", "writer", "lastSubmit", "commit"} /\ r.op # "CREATE" =>
    /\ r.from = tender.status
    /\ r.round = Len(history)
    /\ r.op = "SUBMIT_FOR_APPROVAL" => tender.assignee = r.user
    /\ r.op = "MARK_SUBMITTED" => tender.approvedAt # 0
    /\ r.op = "EDIT" => isTenderEditable(tender.status)
    /\ r.op = "ASSIGN_WRITER" /\ r.pc # "checklist" => isChecklistComplete
    /\ r.op = "MANAGER_RETURN" /\ r.pc = "commit" => r.target = LastSubmitter

InTurnInv ==
  /\ HistoryChains
  /\ ApprovalIsOfThisSubmission
  /\ \A h \in Handlers : StillTrue(slot[h])

\* While no account changes either, a handler's user is still whom requireAuth
\* found and the writer it checked still is one.
StillEntitled(r) ==
  /\ r.pc # "idle" => account[r.user].active /\ account[r.user].role \in RouteRoles(r.op)
  /\ r.op = "ASSIGN_WRITER" /\ r.pc = "commit" => r.target \in ActiveWith("WRITER")

SubmittersWrite ==
  \A i \in Rows : history[i].to = "PENDING_APPROVAL" => history[i].by \in ActiveWith("WRITER")

HeldInv ==
  /\ HeldByTheRightRole
  /\ SubmittersWrite
  /\ \A h \in Handlers : StillEntitled(slot[h])
=============================================================================
