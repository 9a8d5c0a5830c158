-------------------------- MODULE TenderProperties --------------------------
(***************************************************************************)
(* What the handlers of TenderHandlers guarantee.  The first group holds   *)
(* whatever the interleaving of requests, crashes and administration; the  *)
(* second when requests that act on the same tender do not overlap.        *)
(***************************************************************************)
EXTENDS TenderHandlers

Rows == 1..Len(history)
-----------------------------------------------------------------------------
(* Under any interleaving *)

\* The row's status and the newest history row always agree: they are written
\* by the same transaction, even by handlers that overwrite each other
\* (recordStatusChange, createWithInitialStatus).
StatusIsLastRow ==
  tender.status = IF history = <<>> THEN Absent ELSE history[Len(history)].to

\* Each history row after the first is a move of the mandatory table, and the
\* status it moves from is one the tender had before: a handler that commits
\* late still acts on a status that was real when it read it, so that no
\* tender is, say, SUBMITTED without ever having been PENDING_APPROVAL.
NothingSkipped ==
  \A i \in Rows :
    IF i = 1 THEN history[i].from = Absent /\ history[i].to = "NEW"
    ELSE /\ InTable(history[i].from, history[i].to)
         /\ \E j \in 1..(i - 1) : history[j].to = history[i].from

\* BR-004, in the form that survives races: a submission to the announcing
\* entity is preceded by a manager's approval, made by a manager who had a
\* proposal pending approval before him.
SubmissionWasApproved ==
  \A i \in Rows : history[i].to = "SUBMITTED" =>
    \E a \in audit : /\ a.action = "MANAGER_APPROVED"
                     /\ a.round \in 1..(i - 1)
                     /\ history[a.round].to = "PENDING_APPROVAL"

\* BR-003: an open tender that is not waiting for the managers' pool has
\* somebody responsible for it, even after a stale decision overwrote its row.
OpenTenderHasOwner ==
  tender.status \in {"NEW", "UNDER_REVIEW", "PROPOSAL_PREPARATION", "SUBMITTED"}
    => tender.assignee # NoUser

\* BR-002: a rejected tender carries the reason of a rejection.
RejectionHasReason ==
  tender.status = "REJECTED" => tender.rejectionReason

\* Nobody is told of a change that is not in the database: whatever crashes,
\* every notification points at a committed row of the kind it announces.
Backs(row, type) ==
  /\ row \in Rows
  /\ type = "TENDER_CREATED" => history[row].to = "NEW"
  /\ type \in {"ASSIGNED", "RETURNED"} => history[row].to = "PROPOSAL_PREPARATION"
  /\ type = "SUBMITTED_FOR_APPROVAL" => history[row].to = "PENDING_APPROVAL"
  /\ type = "RESULT" => history[row].to \in {"WON", "LOST"}

NoticesAreBacked == \A n \in inbox : Backs(n.row, n.type)
-----------------------------------------------------------------------------
(* When requests on the tender do not overlap: it is enough that their     *)
(* decisions do not, whatever else of them does.                           *)

\* A handler that has read what it goes by and has not committed yet.
Deciding(h) == slot[h].pc \in {"checklist", "writer", "lastSubmit", "commit"}

DecisionsInTurn == \A g, h \in Handlers : Deciding(g) /\ Deciding(h) => g = h

\* No administrator changes an account meanwhile.
AccountsStay == [][UNCHANGED account]_vars

\* The atomic life cycle the tender shows to the outside.
Lifecycle == INSTANCE TenderLifecycle WITH
  status <- tender.status,
  owner <- tender.assignee,
  approved <- tender.approvedAt # 0,
  author <- LastSubmitter,
  ready <- isChecklistComplete

\* The handlers implement the atomic life cycle: each transaction is one of
\* its steps, every other step of a handler changes nothing it shows.
ImplementsLifecycle == Lifecycle!LifeSpec

\* BR-004 in full: the approval on the row is of the very submission that is
\* pending, was submitted or got its result, and no other tender carries one.
ApprovalIsOfThisSubmission ==
  tender.approvedAt \in
    CASE tender.status = "PENDING_APPROVAL" -> {0, Len(history)}
      [] tender.status = "SUBMITTED" -> {Len(history) - 1}
      [] tender.status \in {"WON", "LOST"} -> {Len(history) - 2}
      [] OTHER -> {0}

\* The rows of the history chain: each moves from where the last one led.
HistoryChains ==
  \A i \in Rows : i > 1 => history[i].from = history[i - 1].to

\* The role that can take the tender further holds it, so that it is never
\* stuck with a user the next handler refuses (NOT_ASSIGNEE): QA until a writer
\* is assigned, a writer who prepares it, the pool or an approving manager
\* while it is pending, the manager who submitted it from then on.
HeldByTheRightRole ==
  LET heldBy(role) == tender.assignee \in ActiveWith(role)
  IN  CASE tender.status \in {"NEW", "UNDER_REVIEW"} -> heldBy("QA")
        [] tender.status = "PROPOSAL_PREPARATION" -> heldBy("WRITER")
        [] tender.status = "PENDING_APPROVAL" ->
             IF tender.approvedAt = 0 THEN tender.assignee = NoUser ELSE heldBy("MANAGER")
        [] tender.status \in {"SUBMITTED", "WON", "LOST"} -> heldBy("MANAGER")
        [] OTHER -> tender.assignee = NoUser

\* ACT-02: the fields of a submitted or closed tender do not change any more.
EditsRespectLock ==
  [][tender.data' # tender.data => isTenderEditable(tender.status)]_vars
-----------------------------------------------------------------------------
(* A statement of the repository that overlapping requests break *)

\* tenderWorkflow.ts:7-13, the mandatory status model: the status of a tender
\* only ever moves along the table.
MandatoryStatusModel ==
  [][tender.status' # tender.status =>
       \/ tender.status = Absent /\ tender.status' = "NEW"
       \/ InTable(tender.status, tender.status')]_vars
-----------------------------------------------------------------------------
(* Liveness, under Fairness *)

\* A request that is in gets its answer: no handler waits for another, and the
\* notification loop ends.
EveryRequestEnds ==
  \A h \in Handlers : slot[h].pc # "idle" ~> slot[h].pc = "idle"

\* Every manager is told of every proposal sent for approval (FR-NOT-03), when
\* no handler dies between its transaction and its notifications: there is
\* always a later moment at which each manager has heard of all of them.
HeardOfSubmissions(u) ==
  \A i \in Rows : history[i].to = "PENDING_APPROVAL" =>
    [type |-> "SUBMITTED_FOR_APPROVAL", user |-> u, row |-> i] \in inbox

SubmissionsAreAnnounced ==
  \A u \in Users : []<>(u \in ActiveWith("MANAGER") => HeardOfSubmissions(u))
=============================================================================
