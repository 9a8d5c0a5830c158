---------------------------- MODULE TenderProofs ----------------------------
(***************************************************************************)
(* What TenderHandlers guarantees for any number of users, requests in     *)
(* flight, checklist items and crashes, proved: first under any            *)
(* interleaving, then while the decisions on the tender do not overlap,    *)
(* when the handlers implement the atomic life cycle.                      *)
(***************************************************************************)
EXTENDS TenderInvariant, TLAPS
-----------------------------------------------------------------------------
(* The table *)

\* resolveTransition only answers for an action of the table, with a status
\* of the table.
LEMMA ResolvedStatus ==
  ASSUME NEW action, NEW from, NEW role, NEW to,
         resolveTransition(action, from, role, to)
  PROVE  /\ action \in WorkflowAction
         /\ from \in TENDER_STATUSES
         /\ to \in TENDER_STATUSES
         /\ InTable(from, to)
  BY DEF resolveTransition, TRANSITIONS, Rule, WorkflowAction, TENDER_STATUSES, InTable

\* What each action of the table leads from and to.
LEMMA ResolvedMove ==
  ASSUME NEW action, NEW from, NEW role, NEW to,
         resolveTransition(action, from, role, to)
  PROVE  /\ action = "REVIEW_START" => to = "UNDER_REVIEW"
         /\ action = "REVIEW_REJECT" => to = "REJECTED"
         /\ action = "ASSIGN_WRITER" => to = "PROPOSAL_PREPARATION"
         /\ action = "SUBMIT_FOR_APPROVAL" => to = "PENDING_APPROVAL"
         /\ action = "MANAGER_RETURN" => from = "PENDING_APPROVAL" /\ to = "PROPOSAL_PREPARATION"
         /\ action = "MANAGER_STOP" => to = "REJECTED"
         /\ action = "MARK_SUBMITTED" => to = "SUBMITTED"
         /\ action = "RESULT_WON" => to = "WON"
         /\ action = "RESULT_LOST" => to = "LOST"
         /\ to # "NEW"
  BY DEF resolveTransition, TRANSITIONS, Rule
-----------------------------------------------------------------------------
(* The operators of the handlers *)

\* An empty slot has the type of a request (Init, and every answer).
LEMMA IdleIsRequest == Idle \in Request
  BY DEF Idle, Request, Step, StatusOrAbsent, Absent, UserOrNull

\* Every operation announces a known type of notification.
LEMMA TypeOfType == \A op : TypeOf(op) \in NotificationType
  BY DEF TypeOf, NotificationType

\* findLastStatusEvent finds somebody as soon as there was a submission.
LEMMA LastSubmitterIsUser ==
  ASSUME history \in Seq(HistoryRow), NewestSubmission,
         \E i \in Rows : history[i].to = "PENDING_APPROVAL"
  PROVE  LastSubmitter \in Users
<1> DEFINE sent == {i \in 1..Len(history) : history[i].to = "PENDING_APPROVAL"}
           k == CHOOSE i \in sent : \A j \in sent : j <= i
<1>1. sent # {}
  BY DEF Rows
<1>2. \E i \in sent : \A j \in sent : j <= i
  BY DEF NewestSubmission, Rows
<1>3. k \in sent
  BY <1>2
<1>4. history[k] \in HistoryRow
  BY <1>3
<1>5. history[k].by \in Users
  BY <1>4 DEF HistoryRow
<1> QED
  BY <1>1, <1>5 DEF LastSubmitter

\* findLastStatusEvent finds a user or nobody.
LEMMA LastSubmitterType ==
  ASSUME history \in Seq(HistoryRow), NewestSubmission
  PROVE  LastSubmitter \in UserOrNull
<1>1. CASE \E i \in Rows : history[i].to = "PENDING_APPROVAL"
  BY <1>1, LastSubmitterIsUser DEF UserOrNull
<1>2. CASE ~ \E i \in Rows : history[i].to = "PENDING_APPROVAL"
  BY <1>2 DEF LastSubmitter, Rows, UserOrNull
<1> QED
  BY <1>1, <1>2

\* notify and notifyRole only reach accounts.
LEMMA RecipientsType ==
  ASSUME TypeOK, NewestSubmission, NEW r \in Request
  PROVE  Recipients(r) \subseteq Users
<1>1. LastSubmitter \in UserOrNull
  BY LastSubmitterType DEF TypeOK
<1> QED
  BY <1>1 DEF Recipients, ActiveWith, UserOrNull
-----------------------------------------------------------------------------
(* Steps that leave the rows alone *)

\* An idle slot means nothing.
LEMMA IdleSlotInv == SlotInv(Idle) /\ SlotInv(Idle)'
  BY DEF Idle, SlotInv, Served, ReadWhatWas, KnowsWhom, AnnouncesWhatIs

\* The rows and the log are all the invariant looks at, the slots aside.
LEMMA RowsStay ==
  ASSUME IInv, UNCHANGED <<tender, history, audit>>
  PROVE  RowsInv'
  BY DEF IInv, RowsInv, StatusIsLastRow, NothingSkipped, SubmissionWasApproved,
         OpenTenderHasOwner, RejectionHasReason, NewestSubmission, ApprovalsAreReal, Rows

\* While the rows and the log stay, the meaning of a slot does.
LEMMA SlotInvStays ==
  ASSUME NEW r, SlotInv(r), UNCHANGED <<history, audit>>
  PROVE  SlotInv(r)'
  BY DEF SlotInv, Served, ReadWhatWas, KnowsWhom, AnnouncesWhatIs, Backs, Rows

\* A slot holds a request: the parts of TypeOK the steps need of it.
LEMMA SlotType ==
  ASSUME TypeOK, NEW h \in Handlers, NEW r \in Request, slot' = [slot EXCEPT ![h] = r]
  PROVE  slot' \in [Handlers -> Request]
  BY DEF TypeOK

\* A handler that only moves on: its new slot must mean what it says.
LEMMA MoveOn ==
  ASSUME IInv, NEW h \in Handlers, NEW r \in Request,
         slot' = [slot EXCEPT ![h] = r],
         UNCHANGED <<tender, history, audit, checked, account, inbox>>,
         crashes' \in Nat,
         SlotInv(r),
         r.op = "CREATE" => slot[h].op = "CREATE" \/ \A g \in Handlers : slot[g].op # "CREATE"
  PROVE  IInv'
<1>1. TypeOK'
  BY SlotType DEF IInv, TypeOK
<1>2. RowsInv'
  BY RowsStay
<1>3. NoticesAreBacked'
  BY DEF IInv, NoticesAreBacked, Backs, Rows
<1>4. \A g \in Handlers : slot'[g] = IF g = h THEN r ELSE slot[g]
  BY DEF IInv, TypeOK
<1>5. CreatedOnce'
  BY <1>4 DEF IInv, CreatedOnce
<1>6. ASSUME NEW g \in Handlers PROVE SlotInv(slot[g])'
  <2>1. CASE g = h
    <3>1. SlotInv(r)'
      BY SlotInvStays
    <3> QED
      BY <2>1, <3>1, <1>4 DEF SlotInv, Served, ReadWhatWas, KnowsWhom, AnnouncesWhatIs
  <2>2. CASE g # h
    <3>1. slot'[g] = slot[g]
      BY <2>2, <1>4
    <3> QED
      BY <3>1 DEF IInv, SlotInv, Served, ReadWhatWas, KnowsWhom, AnnouncesWhatIs, Backs, Rows
  <2> QED
    BY <2>1, <2>2
<1> QED
  BY <1>1, <1>2, <1>3, <1>5, <1>6 DEF IInv

\* The empty database satisfies the invariant.
LEMMA InitIInv == Init => IInv
<1> SUFFICES ASSUME Init PROVE IInv
  OBVIOUS
<1>1. TypeOK
  <2>1. tender \in Tender
    BY DEF Init, Tender, StatusOrAbsent, UserOrNull
  <2>2. account \in [Users -> [role : Role, active : BOOLEAN]]
    BY UsersAssumption DEF Init
  <2>3. slot \in [Handlers -> Request]
    BY IdleIsRequest DEF Init
  <2>4. history \in Seq(HistoryRow)
    BY DEF Init
  <2> QED
    BY <2>1, <2>2, <2>3, <2>4 DEF Init, TypeOK
<1>2. Rows = {}
  BY DEF Init, Rows
<1>3. RowsInv
  BY <1>2 DEF Init, RowsInv, StatusIsLastRow, NothingSkipped, SubmissionWasApproved,
       OpenTenderHasOwner, RejectionHasReason, NewestSubmission, ApprovalsAreReal, Absent
<1>4. NoticesAreBacked
  BY DEF Init, NoticesAreBacked
<1>5. CreatedOnce
  BY DEF Init, CreatedOnce, Idle
<1>6. \A h \in Handlers : SlotInv(slot[h])
  BY IdleSlotInv DEF Init
<1> QED
  BY <1>1, <1>3, <1>4, <1>5, <1>6 DEF IInv
-----------------------------------------------------------------------------
(* The requests up to their transaction *)

\* The row exists exactly when it has a history.
LEMMA ExistsIffHistory ==
  ASSUME IInv
  PROVE  tender.status = Absent <=> history = <<>>
<1>1. history = <<>> => tender.status = Absent
  BY DEF IInv, RowsInv, StatusIsLastRow
<1>2. ASSUME history # <<>> PROVE tender.status # Absent
  <2>1. history[Len(history)] \in HistoryRow
    BY <1>2 DEF IInv, TypeOK
  <2>2. tender.status = history[Len(history)].to
    BY <1>2 DEF IInv, RowsInv, StatusIsLastRow
  <2> QED
    BY <2>1, <2>2 DEF HistoryRow, TENDER_STATUSES, Absent
<1> QED
  BY <1>1, <1>2

\* Admitting a request preserves the invariant.
LEMMA BeginStep ==
  ASSUME IInv, NEW h \in Handlers, NEW op \in Offered, NEW u \in Users, NEW w \in UserOrNull,
         Begin(h, op, u, w)
  PROVE  IInv'
<1> DEFINE r == [Idle EXCEPT !.pc = IF op = "CREATE" THEN "commit" ELSE "auth",
                             !.op = op, !.user = u, !.role = account[u].role, !.target = w]
<1>1. op \in Operation
  BY BoundsAssumption
<1>2. r \in Request
  BY <1>1 DEF IInv, TypeOK, Idle, Request, Step, StatusOrAbsent, UserOrNull
<1>3. tender.status = Absent <=> history = <<>>
  BY ExistsIffHistory
<1>4. SlotInv(r)
  BY <1>1, <1>3 DEF Begin, Idle, SlotInv, Served, ReadWhatWas, KnowsWhom, AnnouncesWhatIs, UserOrNull
<1>5. r.op = "CREATE" => \A g \in Handlers : slot[g].op # "CREATE"
  BY DEF Begin, Idle
<1>6. slot' = [slot EXCEPT ![h] = r] /\ UNCHANGED <<tender, history, audit, checked, account, inbox>>
      /\ crashes' \in Nat
  BY DEF Begin, IInv, TypeOK
<1> QED
  BY <1>2, <1>4, <1>5, <1>6, MoveOn

\* The first read and its checks preserve the invariant: what the handler
\* keeps is what the newest history row says.
LEMMA ReadStep ==
  ASSUME IInv, NEW h \in Handlers, Read(h)
  PROVE  IInv'
<1>1. PICK to \in TENDER_STATUSES :
        /\ Resolves(slot[h], to)
        /\ slot' = [slot EXCEPT ![h].pc = AfterRead(slot[h].op), ![h].from = tender.status,
                                ![h].to = to, ![h].round = Len(history)]
  BY DEF Read
<1> DEFINE r == [slot[h] EXCEPT !.pc = AfterRead(slot[h].op), !.from = tender.status,
                                !.to = to, !.round = Len(history)]
<1>2. slot[h] \in Request /\ slot[h].pc = "auth" /\ Admits(slot[h])
  BY DEF Read, IInv, TypeOK
<1>3. AfterRead(slot[h].op) \in {"checklist", "lastSubmit", "commit"}
  BY DEF AfterRead
<1>4. r \in Request
  <2>1. tender.status \in StatusOrAbsent /\ Len(history) \in Nat
    BY DEF IInv, TypeOK, Tender
  <2>2. AfterRead(slot[h].op) \in Step /\ to \in StatusOrAbsent
    BY <1>1, <1>3 DEF Step, StatusOrAbsent
  <2> QED
    BY <1>2, <2>1, <2>2 DEF Request
<1>5. /\ r.op = slot[h].op /\ r.user = slot[h].user /\ r.role = slot[h].role
      /\ r.target = slot[h].target
      /\ r.pc = AfterRead(r.op) /\ r.from = tender.status /\ r.to = to /\ r.round = Len(history)
  BY <1>2 DEF Request
<1>6. slot[h].op # "CREATE" /\ history # <<>> /\ Served(slot[h]) /\ KnowsWhom(slot[h])
  BY <1>2 DEF IInv, SlotInv, Served
<1>7. Len(history) \in Rows /\ history[Len(history)].to = tender.status
  BY <1>6 DEF IInv, TypeOK, RowsInv, StatusIsLastRow, Rows
<1>8. Served(r)
  BY <1>2, <1>3, <1>5, <1>6 DEF Served
<1>9. ReadWhatWas(r)
  <2>1. r.op \in WorkflowAction => resolveTransition(r.op, r.from, r.role, r.to)
    BY <1>1, <1>5 DEF Resolves
  <2>2. r.op = "MANAGER_APPROVE" => r.from = "PENDING_APPROVAL"
    BY <1>2, <1>5 DEF Admits
  <2>3. r.op = "MARK_SUBMITTED" => \E a \in audit : a.action = "MANAGER_APPROVED"
    BY <1>2, <1>5 DEF Admits, IInv, RowsInv, ApprovalsAreReal
  <2> QED
    BY <1>5, <1>7, <2>1, <2>2, <2>3 DEF ReadWhatWas
<1>10. KnowsWhom(r)
  BY <1>2, <1>5, <1>6 DEF KnowsWhom, AfterRead
<1>11. AnnouncesWhatIs(r)
  BY <1>3, <1>5 DEF AnnouncesWhatIs
<1>12. slot' = [slot EXCEPT ![h] = r]
  BY <1>1
<1> QED
  BY <1>4, <1>5, <1>6, <1>8, <1>9, <1>10, <1>11, <1>12, MoveOn DEF SlotInv, Read, IInv, TypeOK

\* The BR-001 check preserves the invariant.
LEMMA CheckChecklistStep ==
  ASSUME IInv, NEW h \in Handlers, CheckChecklist(h)
  PROVE  IInv'
<1> DEFINE r == [slot[h] EXCEPT !.pc = IF slot[h].op = "ASSIGN_WRITER" THEN "writer" ELSE "commit"]
<1>1. slot[h] \in Request /\ slot[h].pc = "checklist" /\ SlotInv(slot[h])
  BY DEF CheckChecklist, IInv, TypeOK
<1>2. r \in Request
  BY <1>1 DEF Request, Step
<1>3. slot[h].op \in {"ASSIGN_WRITER", "REVIEW_APPROVE"}
  BY <1>1 DEF SlotInv, KnowsWhom
<1>4. SlotInv(r)
  BY <1>1, <1>3 DEF Request, SlotInv, Served, ReadWhatWas, KnowsWhom, AnnouncesWhatIs
<1>5. slot' = [slot EXCEPT ![h] = r] /\ r.op # "CREATE"
  BY <1>1, <1>3 DEF CheckChecklist, Request
<1> QED
  BY <1>2, <1>4, <1>5, MoveOn DEF CheckChecklist, IInv, TypeOK

\* The BR-003 check preserves the invariant.
LEMMA CheckWriterStep ==
  ASSUME IInv, NEW h \in Handlers, CheckWriter(h)
  PROVE  IInv'
<1> DEFINE r == [slot[h] EXCEPT !.pc = "commit"]
<1>1. slot[h] \in Request /\ slot[h].pc = "writer" /\ SlotInv(slot[h])
  BY DEF CheckWriter, IInv, TypeOK
<1>2. r \in Request
  BY <1>1 DEF Request, Step
<1>3. slot[h].op \in {"ASSIGN_WRITER", "REVIEW_APPROVE"}
  BY <1>1 DEF SlotInv, KnowsWhom
<1>4. SlotInv(r)
  BY <1>1, <1>3 DEF Request, SlotInv, Served, ReadWhatWas, KnowsWhom, AnnouncesWhatIs
<1>5. slot' = [slot EXCEPT ![h] = r] /\ r.op # "CREATE"
  BY <1>1, <1>3 DEF CheckWriter, Request
<1> QED
  BY <1>2, <1>4, <1>5, MoveOn DEF CheckWriter, IInv, TypeOK

\* The look-up of the last submission preserves the invariant: there is one,
\* whatever the other handlers have committed since the proposal was read.
LEMMA FindLastSubmitStep ==
  ASSUME IInv, NEW h \in Handlers, FindLastSubmit(h)
  PROVE  IInv'
<1> DEFINE r == [slot[h] EXCEPT !.pc = "commit", !.target = LastSubmitter]
<1>1. slot[h] \in Request /\ slot[h].pc = "lastSubmit" /\ SlotInv(slot[h])
  BY DEF FindLastSubmit, IInv, TypeOK
<1>2. slot[h].op = "MANAGER_RETURN"
  BY <1>1 DEF SlotInv, KnowsWhom
<1>3. LastSubmitter \in Users
  <2>1. slot[h].round \in Rows /\ history[slot[h].round].to = "PENDING_APPROVAL"
    BY <1>1, <1>2, ResolvedMove DEF SlotInv, ReadWhatWas, WorkflowAction
  <2> QED
    BY <2>1, LastSubmitterIsUser DEF IInv, TypeOK, RowsInv
<1>4. r \in Request
  BY <1>1, <1>3 DEF Request, Step, UserOrNull
<1>5. SlotInv(r)
  BY <1>1, <1>2, <1>3 DEF Request, SlotInv, Served, ReadWhatWas, KnowsWhom, AnnouncesWhatIs
<1>6. slot' = [slot EXCEPT ![h] = r] /\ r.op # "CREATE"
  BY <1>1, <1>2 DEF FindLastSubmit, Request
<1> QED
  BY <1>4, <1>5, <1>6, MoveOn DEF FindLastSubmit, IInv, TypeOK

\* Refusals, crashes and plain answers empty the slot.
LEMMA EmptyStep ==
  ASSUME IInv, NEW h \in Handlers, slot' = [slot EXCEPT ![h] = Idle],
         UNCHANGED <<tender, history, audit, checked, account, inbox>>, crashes' \in Nat
  PROVE  IInv'
<1>1. Idle.op # "CREATE"
  BY DEF Idle
<1> QED
  BY <1>1, IdleIsRequest, IdleSlotInv, MoveOn
-----------------------------------------------------------------------------
(* A new history row *)

\* What appending a row does to the rows before it.
LEMMA AppendFacts ==
  ASSUME history \in Seq(HistoryRow), NEW e \in HistoryRow, history' = Append(history, e)
  PROVE  /\ history' \in Seq(HistoryRow)
         /\ Len(history) \in Nat
         /\ Len(history') = Len(history) + 1
         /\ Rows' = Rows \cup {Len(history) + 1}
         /\ \A i \in Rows : history'[i] = history[i] /\ i <= Len(history) /\ i \in Nat \ {0}
         /\ history'[Len(history) + 1] = e
         /\ history' # <<>>
<1>1. /\ history' \in Seq(HistoryRow)
      /\ Len(history) \in Nat
      /\ Len(history') = Len(history) + 1
  OBVIOUS
<1>2. Rows' = Rows \cup {Len(history) + 1}
  BY <1>1 DEF Rows
<1>3. \A i \in Rows : history'[i] = history[i] /\ i <= Len(history) /\ i \in Nat \ {0}
  BY DEF Rows
<1>4. history'[Len(history) + 1] = e
  OBVIOUS
<1>5. history' # <<>>
  BY <1>1
<1> QED
  BY <1>1, <1>2, <1>3, <1>4, <1>5

\* What a row backed once, it backs for ever.
LEMMA BacksGrows ==
  ASSUME history \in Seq(HistoryRow), NEW e \in HistoryRow, history' = Append(history, e)
  PROVE  \A row, type : Backs(row, type) => Backs(row, type)'
  BY AppendFacts DEF Backs

\* The meaning of a slot survives the transactions of other handlers.
LEMMA SlotInvGrows ==
  ASSUME history \in Seq(HistoryRow), NEW e \in HistoryRow, history' = Append(history, e),
         UNCHANGED audit, NEW r, SlotInv(r), r.pc = "idle" \/ history # <<>>
  PROVE  SlotInv(r)'
<1>1. Served(r)'
  BY AppendFacts DEF SlotInv, Served
<1>2. ReadWhatWas(r)'
  BY AppendFacts DEF SlotInv, ReadWhatWas
<1>3. KnowsWhom(r)'
  BY DEF SlotInv, KnowsWhom
<1>4. AnnouncesWhatIs(r)'
  BY BacksGrows DEF SlotInv, AnnouncesWhatIs
<1> QED
  BY <1>1, <1>2, <1>3, <1>4 DEF SlotInv

\* A transaction that appends a row, whichever it is.
LEMMA AppendStep ==
  ASSUME IInv, NEW h \in Handlers, NEW e \in HistoryRow, NEW r \in Request,
         history' = Append(history, e),
         slot' = [slot EXCEPT ![h] = r],
         UNCHANGED <<audit, checked, account, inbox, crashes>>,
         slot[h].pc # "idle", r.op = "CREATE" => slot[h].op = "CREATE",
         SlotInv(r)',
         tender' \in Tender,
         tender'.status = e.to,
         e.to \in {"NEW", "UNDER_REVIEW", "PROPOSAL_PREPARATION", "SUBMITTED"}
           => tender'.assignee # NoUser,
         e.to = "REJECTED" => tender'.rejectionReason,
         tender'.approvedAt # 0 => tender.approvedAt # 0,
         e.to = "SUBMITTED" => \E a \in audit : a.action = "MANAGER_APPROVED",
         IF history = <<>> THEN e.from = Absent /\ e.to = "NEW"
         ELSE InTable(e.from, e.to) /\ \E j \in Rows : history[j].to = e.from
  PROVE  IInv'
<1> DEFINE n == Len(history) + 1
<1>0. history \in Seq(HistoryRow)
  BY DEF IInv, TypeOK
<1>1. TypeOK'
  BY SlotType, AppendFacts, <1>0 DEF IInv, TypeOK
<1>2. StatusIsLastRow'
  BY AppendFacts, <1>0 DEF StatusIsLastRow
<1>3. NothingSkipped'
  <2> SUFFICES ASSUME NEW i \in Rows'
               PROVE  IF i = 1 THEN history'[i].from = Absent /\ history'[i].to = "NEW"
                      ELSE /\ InTable(history'[i].from, history'[i].to)
                           /\ \E j \in 1..(i - 1) : history'[j].to = history'[i].from
    BY DEF NothingSkipped
  <2>1. CASE i \in Rows
    <3>1. \A j \in 1..(i - 1) : j \in Rows
      BY <2>1, <1>0 DEF Rows
    <3>2. IF i = 1 THEN history[i].from = Absent /\ history[i].to = "NEW"
          ELSE /\ InTable(history[i].from, history[i].to)
               /\ \E j \in 1..(i - 1) : history[j].to = history[i].from
      BY <2>1 DEF IInv, RowsInv, NothingSkipped
    <3> QED
      BY <2>1, <3>1, <3>2, AppendFacts, <1>0
  <2>2. CASE i = n
    <3>1. history'[i] = e
      BY <2>2, AppendFacts, <1>0
    <3>2. CASE history = <<>>
      BY <2>2, <3>1, <3>2
    <3>3. CASE history # <<>>
      <4>1. i # 1 /\ 1..(i - 1) = Rows
        BY <1>0, <2>2, <3>3 DEF Rows
      <4> QED
        BY <3>1, <3>3, <4>1, AppendFacts, <1>0
    <3> QED
      BY <3>2, <3>3
  <2> QED
    BY <2>1, <2>2, AppendFacts, <1>0
<1>4. SubmissionWasApproved'
  <2> SUFFICES ASSUME NEW i \in Rows', history'[i].to = "SUBMITTED"
               PROVE  \E a \in audit : /\ a.action = "MANAGER_APPROVED"
                                       /\ a.round \in 1..(i - 1)
                                       /\ history'[a.round].to = "PENDING_APPROVAL"
    BY DEF SubmissionWasApproved
  <2>1. CASE i \in Rows
    <3>1. PICK a \in audit : /\ a.action = "MANAGER_APPROVED"
                             /\ a.round \in 1..(i - 1)
                             /\ history[a.round].to = "PENDING_APPROVAL"
      BY <2>1, AppendFacts, <1>0 DEF IInv, RowsInv, SubmissionWasApproved
    <3>2. a.round \in Rows
      BY <1>0, <2>1, <3>1 DEF Rows
    <3> QED
      BY <3>1, <3>2, AppendFacts, <1>0
  <2>2. CASE i = n
    <3>1. e.to = "SUBMITTED"
      BY <2>2, AppendFacts, <1>0
    <3>2. PICK a \in audit : a.action = "MANAGER_APPROVED"
      BY <3>1
    <3>3. a.round \in Rows /\ history[a.round].to = "PENDING_APPROVAL"
      BY <3>2 DEF IInv, RowsInv, ApprovalsAreReal
    <3>4. a.round \in 1..(i - 1)
      BY <1>0, <2>2, <3>3 DEF Rows
    <3> QED
      BY <3>2, <3>3, <3>4, AppendFacts, <1>0
  <2> QED
    BY <2>1, <2>2, AppendFacts, <1>0
<1>5. OpenTenderHasOwner' /\ RejectionHasReason'
  BY DEF OpenTenderHasOwner, RejectionHasReason
<1>6. NewestSubmission'
  <2>1. CASE e.to = "PENDING_APPROVAL"
    <3>1. n \in Rows' /\ history'[n].to = "PENDING_APPROVAL" /\ \A j \in Rows' : j <= n
      BY <2>1, AppendFacts, <1>0
    <3> QED
      BY <3>1 DEF NewestSubmission
  <2>2. CASE e.to # "PENDING_APPROVAL"
    <3>1. \A i \in Rows' : history'[i].to = "PENDING_APPROVAL"
             <=> i \in Rows /\ history[i].to = "PENDING_APPROVAL"
      BY <2>2, AppendFacts, <1>0
    <3> QED
      BY <3>1, AppendFacts, <1>0 DEF IInv, RowsInv, NewestSubmission
  <2> QED
    BY <2>1, <2>2
<1>7. ApprovalsAreReal'
  BY AppendFacts, <1>0 DEF IInv, RowsInv, ApprovalsAreReal
<1>8. NoticesAreBacked'
  BY BacksGrows, <1>0 DEF IInv, NoticesAreBacked
<1>9. \A g \in Handlers : slot'[g] = IF g = h THEN r ELSE slot[g]
  BY DEF IInv, TypeOK
<1>10. CreatedOnce'
  BY <1>9 DEF IInv, CreatedOnce
<1>11. ASSUME NEW g \in Handlers PROVE SlotInv(slot[g])'
  <2>1. CASE g = h
    BY <2>1, <1>9 DEF SlotInv, Served, ReadWhatWas, KnowsWhom, AnnouncesWhatIs
  <2>2. CASE g # h
    <3>1. slot[g].pc = "idle" \/ history # <<>>
      BY <2>2 DEF IInv, SlotInv, Served, CreatedOnce
    <3>2. PICK s : s = slot[g]
      OBVIOUS
    <3>3. SlotInv(s)'
      BY <3>1, <3>2, SlotInvGrows, <1>0 DEF IInv
    <3>4. slot'[g] = s
      BY <2>2, <3>2, <1>9
    <3> QED
      BY <3>3, <3>4 DEF SlotInv, Served, ReadWhatWas, KnowsWhom, AnnouncesWhatIs
  <2> QED
    BY <2>1, <2>2
<1> QED
  BY <1>1, <1>2, <1>3, <1>4, <1>5, <1>6, <1>7, <1>8, <1>10, <1>11 DEF IInv, RowsInv
-----------------------------------------------------------------------------
(* What a handler does with its slot after its transaction *)

\* A slot after a commit that notifies a known set of users.
LEMMA NotifySlot ==
  ASSUME TypeOK, NEW h \in Handlers, NEW todo \in SUBSET Users, NEW row \in Nat,
         Notify(h, todo, row)
  PROVE  \E r \in Request :
           /\ slot' = [slot EXCEPT ![h] = r]
           /\ \/ r = Idle
              \/ /\ r.pc = "deliver" /\ r.row = row
                 /\ r.op = slot[h].op /\ r.user = slot[h].user /\ r.target = slot[h].target
<1>1. CASE todo = {}
  BY <1>1, IdleIsRequest DEF Notify
<1>2. CASE todo # {}
  <2> DEFINE r == [slot[h] EXCEPT !.pc = "deliver", !.todo = todo, !.row = row]
  <2>1. slot[h] \in Request
    BY DEF TypeOK
  <2>2. r \in Request /\ r.pc = "deliver" /\ r.row = row
        /\ r.op = slot[h].op /\ r.user = slot[h].user /\ r.target = slot[h].target
    BY <2>1 DEF Request, Step
  <2>3. slot' = [slot EXCEPT ![h] = r]
    BY <1>2 DEF Notify
  <2> QED
    BY <2>2, <2>3
<1> QED
  BY <1>1, <1>2

\* A slot after a commit that has yet to look up whom to notify.
LEMMA LookUpSlot ==
  ASSUME TypeOK, NEW h \in Handlers, NEW row \in Nat, LookUpRecipients(h, row)
  PROVE  \E r \in Request :
           /\ slot' = [slot EXCEPT ![h] = r]
           /\ r.pc = "recipients" /\ r.row = row
           /\ r.op = slot[h].op /\ r.user = slot[h].user /\ r.target = slot[h].target
<1> DEFINE r == [slot[h] EXCEPT !.pc = "recipients", !.row = row]
<1>1. slot[h] \in Request
  BY DEF TypeOK
<1>2. r \in Request /\ r.pc = "recipients" /\ r.row = row
      /\ r.op = slot[h].op /\ r.user = slot[h].user /\ r.target = slot[h].target
  BY <1>1 DEF Request, Step
<1>3. slot' = [slot EXCEPT ![h] = r]
  BY DEF LookUpRecipients
<1> QED
  BY <1>2, <1>3

\* A slot that has committed and has something to announce.
LEMMA AnnouncingSlot ==
  ASSUME NEW r, r.pc \in {"recipients", "deliver"}, r.op \in Operation, r.user \in Users,
         r.op = "ASSIGN_WRITER" => r.target \in Users,
         history' # <<>>, Backs(r.row, TypeOf(r.op))'
  PROVE  SlotInv(r)'
  BY DEF SlotInv, Served, ReadWhatWas, KnowsWhom, AnnouncesWhatIs

\* Looking up the recipients preserves the invariant.
LEMMA FindRecipientsStep ==
  ASSUME IInv, NEW h \in Handlers, FindRecipients(h)
  PROVE  IInv'
<1>1. slot[h] \in Request /\ slot[h].pc = "recipients" /\ SlotInv(slot[h])
  BY DEF FindRecipients, IInv, TypeOK
<1>2. Recipients(slot[h]) \in SUBSET Users /\ slot[h].row \in Nat
  BY <1>1, RecipientsType DEF IInv, RowsInv, Request
<1>3. PICK r \in Request :
        /\ slot' = [slot EXCEPT ![h] = r]
        /\ \/ r = Idle
           \/ /\ r.pc = "deliver" /\ r.row = slot[h].row
              /\ r.op = slot[h].op /\ r.user = slot[h].user /\ r.target = slot[h].target
  BY <1>2, NotifySlot DEF FindRecipients, IInv
<1>4. SlotInv(r)
  BY <1>1, <1>3, IdleSlotInv DEF SlotInv, Served, ReadWhatWas, KnowsWhom, AnnouncesWhatIs
<1>5. r.op = "CREATE" => slot[h].op = "CREATE"
  BY <1>3 DEF Idle
<1> QED
  BY <1>3, <1>4, <1>5, MoveOn DEF FindRecipients, IInv, TypeOK

\* Inserting a notification preserves the invariant.
LEMMA DeliverStep ==
  ASSUME IInv, NEW h \in Handlers, Deliver(h)
  PROVE  IInv'
<1>1. slot[h] \in Request /\ slot[h].pc = "deliver" /\ SlotInv(slot[h])
  BY DEF Deliver, IInv, TypeOK
<1>2. PICK u \in slot[h].todo :
        /\ inbox' = inbox \cup {[type |-> TypeOf(slot[h].op), user |-> u, row |-> slot[h].row]}
        /\ Notify(h, slot[h].todo \ {u}, slot[h].row)
  BY DEF Deliver
<1>3. slot[h].todo \ {u} \in SUBSET Users /\ u \in Users /\ slot[h].row \in Nat
  BY <1>1 DEF Request
<1>4. PICK r \in Request :
        /\ slot' = [slot EXCEPT ![h] = r]
        /\ \/ r = Idle
           \/ /\ r.pc = "deliver" /\ r.row = slot[h].row
              /\ r.op = slot[h].op /\ r.user = slot[h].user /\ r.target = slot[h].target
  BY <1>2, <1>3, NotifySlot DEF IInv
<1>5. SlotInv(r)'
  <2>1. SlotInv(r)
    BY <1>1, <1>4, IdleSlotInv DEF SlotInv, Served, ReadWhatWas, KnowsWhom, AnnouncesWhatIs
  <2> QED
    BY <2>1, SlotInvStays DEF Deliver
<1>6. TypeOK'
  <2>1. inbox' \subseteq Notification
    BY <1>2, <1>3, TypeOfType DEF IInv, TypeOK, Notification
  <2> QED
    BY <1>4, <2>1, SlotType DEF Deliver, IInv, TypeOK
<1>7. RowsInv'
  BY RowsStay DEF Deliver
<1>8. NoticesAreBacked'
  <2>1. Backs(slot[h].row, TypeOf(slot[h].op))
    BY <1>1 DEF SlotInv, AnnouncesWhatIs
  <2>2. \A n \in inbox' : Backs(n.row, n.type)
    BY <1>2, <2>1 DEF IInv, NoticesAreBacked
  <2> QED
    BY <2>2 DEF Deliver, NoticesAreBacked, Backs, Rows
<1>9. \A g \in Handlers : slot'[g] = IF g = h THEN r ELSE slot[g]
  BY <1>4 DEF IInv, TypeOK
<1>10. CreatedOnce'
  BY <1>4, <1>9 DEF IInv, CreatedOnce, Idle
<1>11. ASSUME NEW g \in Handlers PROVE SlotInv(slot[g])'
  <2>1. CASE g = h
    BY <1>5, <1>9, <2>1 DEF SlotInv, Served, ReadWhatWas, KnowsWhom, AnnouncesWhatIs
  <2>2. CASE g # h
    <3>1. slot'[g] = slot[g]
      BY <1>9, <2>2
    <3> QED
      BY <3>1 DEF Deliver, IInv, SlotInv, Served, ReadWhatWas, KnowsWhom, AnnouncesWhatIs, Backs, Rows
  <2> QED
    BY <2>1, <2>2
<1> QED
  BY <1>6, <1>7, <1>8, <1>10, <1>11 DEF IInv
-----------------------------------------------------------------------------
(* The transactions *)

\* The row a workflow action is about to write.
LEMMA RowToWrite ==
  ASSUME IInv, NEW h \in Handlers, slot[h].pc = "commit", slot[h].op \in WorkflowAction
  PROVE  /\ slot[h].user \in Users
         /\ slot[h].to \in TENDER_STATUSES
         /\ [from |-> slot[h].from, to |-> slot[h].to, by |-> slot[h].user] \in HistoryRow
         /\ history # <<>>
         /\ resolveTransition(slot[h].op, slot[h].from, slot[h].role, slot[h].to)
         /\ InTable(slot[h].from, slot[h].to)
         /\ \E j \in Rows : history[j].to = slot[h].from
         /\ slot[h].to = "SUBMITTED" => \E a \in audit : a.action = "MANAGER_APPROVED"
<1>1. SlotInv(slot[h]) /\ slot[h].op # "CREATE"
  BY DEF IInv, WorkflowAction
<1>2. resolveTransition(slot[h].op, slot[h].from, slot[h].role, slot[h].to)
  BY <1>1 DEF SlotInv, ReadWhatWas
<1>3. slot[h].from \in TENDER_STATUSES /\ slot[h].to \in TENDER_STATUSES
      /\ InTable(slot[h].from, slot[h].to)
  BY <1>2, ResolvedStatus
<1>4. slot[h].user \in Users /\ history # <<>>
  BY <1>1 DEF SlotInv, Served
<1>5. [from |-> slot[h].from, to |-> slot[h].to, by |-> slot[h].user] \in HistoryRow
  BY <1>3, <1>4 DEF HistoryRow, StatusOrAbsent
<1>6. \E j \in Rows : history[j].to = slot[h].from
  BY <1>1 DEF SlotInv, ReadWhatWas
<1>7. slot[h].to = "SUBMITTED" => slot[h].op = "MARK_SUBMITTED"
  BY <1>2, ResolvedMove DEF WorkflowAction
<1>8. slot[h].to = "SUBMITTED" => \E a \in audit : a.action = "MANAGER_APPROVED"
  BY <1>1, <1>7 DEF SlotInv, ReadWhatWas
<1> QED
  BY <1>2, <1>3, <1>4, <1>5, <1>6, <1>8

\* recordStatusChange, with what the operation writes beside the status.
LEMMA RecordStep ==
  ASSUME IInv, NEW h \in Handlers, slot[h].pc = "commit", slot[h].op \in WorkflowAction,
         NEW row \in Tender, recordStatusChange(h, row),
         NEW r \in Request, slot' = [slot EXCEPT ![h] = r], r.op # "CREATE", SlotInv(r)',
         slot[h].to \in {"UNDER_REVIEW", "PROPOSAL_PREPARATION", "SUBMITTED"}
           => row.assignee # NoUser,
         slot[h].to = "REJECTED" => row.rejectionReason,
         row.approvedAt # 0 => tender.approvedAt # 0
  PROVE  IInv'
<1> DEFINE e == [from |-> slot[h].from, to |-> slot[h].to, by |-> slot[h].user]
<1>1. /\ e \in HistoryRow
      /\ e.from = slot[h].from /\ e.to = slot[h].to
      /\ history # <<>>
      /\ InTable(e.from, e.to)
      /\ \E j \in Rows : history[j].to = e.from
      /\ e.to = "SUBMITTED" => \E a \in audit : a.action = "MANAGER_APPROVED"
      /\ e.to \in TENDER_STATUSES
  BY RowToWrite
<1>2. e.to # "NEW"
  <2>1. resolveTransition(slot[h].op, slot[h].from, slot[h].role, slot[h].to)
    BY RowToWrite
  <2> QED
    BY <1>1, <2>1, ResolvedMove
<1>3. tender' = [row EXCEPT !.status = e.to] /\ history' = Append(history, e)
  BY DEF recordStatusChange
<1>4. /\ tender' \in Tender
      /\ tender'.status = e.to
      /\ tender'.assignee = row.assignee
      /\ tender'.rejectionReason = row.rejectionReason
      /\ tender'.approvedAt = row.approvedAt
  BY <1>1, <1>3 DEF Tender, StatusOrAbsent
<1>5. UNCHANGED <<audit, checked, account, inbox, crashes>>
  BY DEF recordStatusChange
<1> HIDE DEF e
<1> QED
  BY <1>1, <1>2, <1>3, <1>4, <1>5, AppendStep

\* The announcement of the row that was just written is backed by it.
LEMMA NewRowAnnounced ==
  ASSUME IInv, NEW h \in Handlers, slot[h].pc = "commit", slot[h].op \in WorkflowAction,
         NEW row, recordStatusChange(h, row),
         NEW r \in Request, r.pc \in {"recipients", "deliver"}, r.row = Len(history) + 1,
         r.op = slot[h].op, r.user = slot[h].user, r.target = slot[h].target,
         r.op \in {"ASSIGN_WRITER", "SUBMIT_FOR_APPROVAL", "MANAGER_RETURN",
                   "RESULT_WON", "RESULT_LOST"}
  PROVE  SlotInv(r)'
<1> DEFINE e == [from |-> slot[h].from, to |-> slot[h].to, by |-> slot[h].user]
<1>1. e \in HistoryRow /\ e.to = slot[h].to /\ r.user \in Users
      /\ resolveTransition(r.op, slot[h].from, slot[h].role, e.to)
  BY RowToWrite
<1>2. history' = Append(history, e)
  BY DEF recordStatusChange
<1> HIDE DEF e
<1>3. r.row \in Rows' /\ history'[r.row] = e /\ history' # <<>>
  BY <1>1, <1>2, AppendFacts DEF IInv, TypeOK
<1>4. Backs(r.row, TypeOf(r.op))'
  BY <1>1, <1>3, ResolvedMove DEF Backs, TypeOf
<1>5. r.op = "ASSIGN_WRITER" => r.target \in Users
  BY DEF IInv, SlotInv, KnowsWhom
<1> QED
  BY <1>1, <1>3, <1>4, <1>5, AnnouncingSlot DEF Operation, WorkflowAction

\* POST /:id/review/start preserves the invariant.
LEMMA StartReviewStep ==
  ASSUME IInv, NEW h \in Handlers, StartReview(h)
  PROVE  IInv'
<1> DEFINE row == [tender EXCEPT !.assignee = slot[h].user]
<1>1. slot[h].pc = "commit" /\ slot[h].op \in WorkflowAction /\ recordStatusChange(h, row)
      /\ slot' = [slot EXCEPT ![h] = Idle]
  BY DEF StartReview, Committing, Respond, WorkflowAction
<1>2. slot[h].user \in Users /\ slot[h].to = "UNDER_REVIEW"
  BY <1>1, RowToWrite, ResolvedMove DEF StartReview, Committing
<1>3. row \in Tender /\ row.assignee # NoUser /\ row.approvedAt = tender.approvedAt
  BY <1>2, UsersAssumption DEF IInv, TypeOK, Tender, UserOrNull
<1>4. Idle.op # "CREATE"
  BY DEF Idle
<1> HIDE DEF row
<1> QED
  BY <1>1, <1>2, <1>3, <1>4, IdleIsRequest, IdleSlotInv, RecordStep

\* A rejecting POST /:id/review/decision preserves the invariant.
LEMMA RejectInReviewStep ==
  ASSUME IInv, NEW h \in Handlers, RejectInReview(h)
  PROVE  IInv'
<1> DEFINE row == [tender EXCEPT !.assignee = NoUser, !.rejectionReason = TRUE]
<1>1. slot[h].pc = "commit" /\ slot[h].op \in WorkflowAction /\ recordStatusChange(h, row)
      /\ slot' = [slot EXCEPT ![h] = Idle]
  BY DEF RejectInReview, Committing, Respond, WorkflowAction
<1>2. slot[h].to = "REJECTED"
  BY <1>1, RowToWrite, ResolvedMove DEF RejectInReview, Committing
<1>3. row \in Tender /\ row.rejectionReason /\ row.approvedAt = tender.approvedAt
  BY DEF IInv, TypeOK, Tender, UserOrNull
<1>4. Idle.op # "CREATE"
  BY DEF Idle
<1> HIDE DEF row
<1> QED
  BY <1>1, <1>2, <1>3, <1>4, IdleIsRequest, IdleSlotInv, RecordStep

\* A stopping POST /:id/manager-decision preserves the invariant.
LEMMA ManagerStopStep ==
  ASSUME IInv, NEW h \in Handlers, ManagerStop(h)
  PROVE  IInv'
<1> DEFINE row == [tender EXCEPT !.assignee = NoUser, !.approvedAt = 0, !.rejectionReason = TRUE]
<1>1. slot[h].pc = "commit" /\ slot[h].op \in WorkflowAction /\ recordStatusChange(h, row)
      /\ slot' = [slot EXCEPT ![h] = Idle]
  BY DEF ManagerStop, Committing, Respond, WorkflowAction
<1>2. slot[h].to = "REJECTED"
  BY <1>1, RowToWrite, ResolvedMove DEF ManagerStop, Committing
<1>3. row \in Tender /\ row.rejectionReason /\ row.approvedAt = 0
  BY DEF IInv, TypeOK, Tender, UserOrNull
<1>4. Idle.op # "CREATE"
  BY DEF Idle
<1> HIDE DEF row
<1> QED
  BY <1>1, <1>2, <1>3, <1>4, IdleIsRequest, IdleSlotInv, RecordStep

\* POST /:id/mark-submitted preserves the invariant: the approval its handler saw
\* is in the log, even when the row has lost it since.
LEMMA MarkSubmittedStep ==
  ASSUME IInv, NEW h \in Handlers, MarkSubmitted(h)
  PROVE  IInv'
<1> DEFINE row == [tender EXCEPT !.assignee = slot[h].user]
<1>1. slot[h].pc = "commit" /\ slot[h].op \in WorkflowAction /\ recordStatusChange(h, row)
      /\ slot' = [slot EXCEPT ![h] = Idle]
  BY DEF MarkSubmitted, Committing, Respond, WorkflowAction
<1>2. slot[h].user \in Users /\ slot[h].to = "SUBMITTED"
  BY <1>1, RowToWrite, ResolvedMove DEF MarkSubmitted, Committing
<1>3. row \in Tender /\ row.assignee # NoUser /\ row.approvedAt = tender.approvedAt
  BY <1>2, UsersAssumption DEF IInv, TypeOK, Tender, UserOrNull
<1>4. Idle.op # "CREATE"
  BY DEF Idle
<1> HIDE DEF row
<1> QED
  BY <1>1, <1>2, <1>3, <1>4, IdleIsRequest, IdleSlotInv, RecordStep

\* POST /:id/assign preserves the invariant.
LEMMA AssignWriterStep ==
  ASSUME IInv, NEW h \in Handlers, AssignWriter(h)
  PROVE  IInv'
<1> DEFINE row == [tender EXCEPT !.assignee = slot[h].target]
           n == Len(history) + 1
<1>1. /\ slot[h].pc = "commit" /\ slot[h].op = "ASSIGN_WRITER" /\ slot[h].op \in WorkflowAction
      /\ recordStatusChange(h, row)
      /\ Notify(h, {slot[h].target}, n)
  BY DEF AssignWriter, Committing, WorkflowAction
<1>2. slot[h].target \in Users
  BY <1>1 DEF IInv, SlotInv, KnowsWhom
<1>3. slot[h].to = "PROPOSAL_PREPARATION"
  BY <1>1, RowToWrite, ResolvedMove
<1>4. row \in Tender /\ row.assignee # NoUser /\ row.approvedAt = tender.approvedAt
  BY <1>2, UsersAssumption DEF IInv, TypeOK, Tender, UserOrNull
<1>5. {slot[h].target} \in SUBSET Users /\ n \in Nat
  BY <1>2 DEF IInv, TypeOK
<1> HIDE DEF row
<1>6. PICK r \in Request :
        /\ slot' = [slot EXCEPT ![h] = r]
        /\ \/ r = Idle
           \/ /\ r.pc = "deliver" /\ r.row = n
              /\ r.op = slot[h].op /\ r.user = slot[h].user /\ r.target = slot[h].target
  BY <1>1, <1>5, NotifySlot DEF IInv
<1>7. SlotInv(r)'
  <2>1. CASE r = Idle
    BY <2>1, IdleSlotInv
  <2>2. CASE r # Idle
    BY <1>1, <1>6, <2>2, NewRowAnnounced
  <2> QED
    BY <2>1, <2>2
<1>8. r.op # "CREATE"
  BY <1>1, <1>6 DEF Idle
<1> QED
  BY <1>1, <1>3, <1>4, <1>6, <1>7, <1>8, RecordStep

\* A returning POST /:id/manager-decision preserves the invariant.
LEMMA ReturnToWriterStep ==
  ASSUME IInv, NEW h \in Handlers, ReturnToWriter(h)
  PROVE  IInv'
<1> DEFINE row == [tender EXCEPT !.assignee = slot[h].target, !.approvedAt = 0]
           todo == {slot[h].target} \ {NoUser}
           n == Len(history) + 1
<1>1. /\ slot[h].pc = "commit" /\ slot[h].op = "MANAGER_RETURN" /\ slot[h].op \in WorkflowAction
      /\ recordStatusChange(h, row)
      /\ Notify(h, todo, n)
  BY DEF ReturnToWriter, Committing, WorkflowAction
<1>2. slot[h].target \in Users
  BY <1>1 DEF IInv, SlotInv, KnowsWhom
<1>3. slot[h].to = "PROPOSAL_PREPARATION"
  BY <1>1, RowToWrite, ResolvedMove
<1>4. row \in Tender /\ row.assignee # NoUser /\ row.approvedAt = 0
  BY <1>2, UsersAssumption DEF IInv, TypeOK, Tender, UserOrNull
<1>5. todo \in SUBSET Users /\ n \in Nat
  BY <1>2 DEF IInv, TypeOK
<1> HIDE DEF row, todo
<1>6. PICK r \in Request :
        /\ slot' = [slot EXCEPT ![h] = r]
        /\ \/ r = Idle
           \/ /\ r.pc = "deliver" /\ r.row = n
              /\ r.op = slot[h].op /\ r.user = slot[h].user /\ r.target = slot[h].target
  <2>1. TypeOK /\ Notify(h, todo, n) /\ todo \in SUBSET Users /\ n \in Nat
    BY <1>1, <1>5 DEF IInv
  <2> HIDE DEF n
  <2> QED
    BY <2>1, NotifySlot
<1>7. SlotInv(r)'
  <2>1. CASE r = Idle
    BY <2>1, IdleSlotInv
  <2>2. CASE r # Idle
    BY <1>1, <1>6, <2>2, NewRowAnnounced
  <2> QED
    BY <2>1, <2>2
<1>8. r.op # "CREATE"
  BY <1>1, <1>6 DEF Idle
<1> QED
  BY <1>1, <1>3, <1>4, <1>6, <1>7, <1>8, RecordStep

\* POST /:id/result preserves the invariant.
LEMMA RecordResultStep ==
  ASSUME IInv, NEW h \in Handlers, RecordResult(h)
  PROVE  IInv'
<1> DEFINE n == Len(history) + 1
<1>1. /\ slot[h].pc = "commit" /\ slot[h].op \in {"RESULT_WON", "RESULT_LOST"}
      /\ slot[h].op \in WorkflowAction
      /\ recordStatusChange(h, tender)
      /\ Notify(h, {history[1].by}, n)
  BY DEF RecordResult, Committing, WorkflowAction
<1>2. slot[h].to \in {"WON", "LOST"}
  <2>1. resolveTransition(slot[h].op, slot[h].from, slot[h].role, slot[h].to)
    BY <1>1, RowToWrite
  <2> QED
    BY <1>1, <2>1, ResolvedMove
<1>3. {history[1].by} \in SUBSET Users /\ n \in Nat
  <2>1. history # <<>>
    BY <1>1, RowToWrite
  <2>2. history[1] \in HistoryRow
    BY <2>1 DEF IInv, TypeOK
  <2> QED
    BY <2>2 DEF HistoryRow, IInv, TypeOK
<1>4. PICK r \in Request :
        /\ slot' = [slot EXCEPT ![h] = r]
        /\ \/ r = Idle
           \/ /\ r.pc = "deliver" /\ r.row = n
              /\ r.op = slot[h].op /\ r.user = slot[h].user /\ r.target = slot[h].target
  BY <1>1, <1>3, NotifySlot DEF IInv
<1>5. SlotInv(r)'
  <2>1. CASE r = Idle
    BY <2>1, IdleSlotInv
  <2>2. CASE r # Idle
    BY <1>1, <1>4, <2>2, NewRowAnnounced
  <2> QED
    BY <2>1, <2>2
<1>6. r.op # "CREATE"
  BY <1>1, <1>4 DEF Idle
<1> QED
  BY <1>1, <1>2, <1>4, <1>5, <1>6, RecordStep DEF IInv, TypeOK

\* POST /:id/submit-for-approval preserves the invariant.
LEMMA SubmitForApprovalStep ==
  ASSUME IInv, NEW h \in Handlers, SubmitForApproval(h)
  PROVE  IInv'
<1> DEFINE row == [tender EXCEPT !.assignee = NoUser, !.approvedAt = 0]
           n == Len(history) + 1
<1>1. /\ slot[h].pc = "commit" /\ slot[h].op = "SUBMIT_FOR_APPROVAL" /\ slot[h].op \in WorkflowAction
      /\ recordStatusChange(h, row)
      /\ LookUpRecipients(h, n)
  BY DEF SubmitForApproval, Committing, WorkflowAction
<1>2. slot[h].to = "PENDING_APPROVAL"
  BY <1>1, RowToWrite, ResolvedMove
<1>3. row \in Tender /\ row.approvedAt = 0
  BY DEF IInv, TypeOK, Tender, UserOrNull
<1>4. n \in Nat
  BY DEF IInv, TypeOK
<1> HIDE DEF row
<1>5. PICK r \in Request :
        /\ slot' = [slot EXCEPT ![h] = r]
        /\ r.pc = "recipients" /\ r.row = n
        /\ r.op = slot[h].op /\ r.user = slot[h].user /\ r.target = slot[h].target
  BY <1>1, <1>4, LookUpSlot DEF IInv
<1>6. SlotInv(r)'
  BY <1>1, <1>5, NewRowAnnounced
<1>7. r.op # "CREATE"
  BY <1>1, <1>5
<1> QED
  BY <1>1, <1>2, <1>3, <1>5, <1>6, <1>7, RecordStep

\* POST /tenders preserves the invariant: it writes the first row.
LEMMA CreateTenderStep ==
  ASSUME IInv, NEW h \in Handlers, CreateTender(h)
  PROVE  IInv'
<1> DEFINE e == [from |-> Absent, to |-> "NEW", by |-> slot[h].user]
           n == Len(history) + 1
<1>1. /\ slot[h].pc = "commit" /\ slot[h].op = "CREATE"
      /\ tender' = [tender EXCEPT !.status = "NEW", !.assignee = slot[h].user]
      /\ history' = Append(history, e)
      /\ LookUpRecipients(h, n)
      /\ UNCHANGED <<audit, checked, account, inbox, crashes>>
  BY DEF CreateTender, Committing
<1>2. slot[h].user \in Users /\ history = <<>>
  BY <1>1 DEF IInv, SlotInv, Served
<1>3. e \in HistoryRow /\ e.from = Absent /\ e.to = "NEW"
  BY <1>2 DEF HistoryRow, StatusOrAbsent, TENDER_STATUSES
<1>4. /\ tender' \in Tender
      /\ tender'.status = "NEW"
      /\ tender'.assignee # NoUser
      /\ tender'.approvedAt = tender.approvedAt
  BY <1>1, <1>2, UsersAssumption
     DEF IInv, TypeOK, Tender, UserOrNull, StatusOrAbsent, TENDER_STATUSES
<1>5. n \in Nat
  BY DEF IInv, TypeOK
<1> HIDE DEF e
<1>6. PICK r \in Request :
        /\ slot' = [slot EXCEPT ![h] = r]
        /\ r.pc = "recipients" /\ r.row = n
        /\ r.op = slot[h].op /\ r.user = slot[h].user /\ r.target = slot[h].target
  BY <1>1, <1>5, LookUpSlot DEF IInv
<1>7. SlotInv(r)'
  <2>1. r.row \in Rows' /\ history'[r.row] = e /\ history' # <<>>
    BY <1>1, <1>3, <1>6, AppendFacts DEF IInv, TypeOK
  <2>2. Backs(r.row, TypeOf(r.op))'
    BY <1>1, <1>3, <1>6, <2>1 DEF Backs, TypeOf
  <2> QED
    BY <1>1, <1>2, <1>6, <2>1, <2>2, AnnouncingSlot DEF Operation
<1> QED
  BY <1>1, <1>2, <1>3, <1>4, <1>6, <1>7, AppendStep

\* A transaction without a history row: SAVE_CHECKLIST, the two approvals, EDIT.
LEMMA NoRowStep ==
  ASSUME IInv, NEW h \in Handlers, NEW r \in Request,
         slot' = [slot EXCEPT ![h] = r], r.op # "CREATE", SlotInv(r)',
         UNCHANGED <<history, account, inbox, crashes>>,
         checked' \subseteq Items, audit' \subseteq AuditRow, audit \subseteq audit',
         tender' \in Tender,
         tender'.status = tender.status,
         tender'.rejectionReason = tender.rejectionReason,
         tender.assignee # NoUser => tender'.assignee # NoUser,
         tender'.approvedAt # 0 => \E a \in audit' : a.action = "MANAGER_APPROVED",
         \A a \in audit' : a.action = "MANAGER_APPROVED" =>
           a.round \in Rows /\ history[a.round].to = "PENDING_APPROVAL"
  PROVE  IInv'
<1>1. TypeOK'
  BY SlotType DEF IInv, TypeOK
<1>2. RowsInv'
  <2>1. StatusIsLastRow' /\ NothingSkipped' /\ NewestSubmission'
    BY DEF IInv, RowsInv, StatusIsLastRow, NothingSkipped, NewestSubmission, Rows
  <2>2. SubmissionWasApproved' /\ ApprovalsAreReal'
    BY DEF IInv, RowsInv, SubmissionWasApproved, ApprovalsAreReal, Rows
  <2>3. OpenTenderHasOwner' /\ RejectionHasReason'
    BY DEF IInv, RowsInv, OpenTenderHasOwner, RejectionHasReason
  <2> QED
    BY <2>1, <2>2, <2>3 DEF RowsInv
<1>3. NoticesAreBacked'
  BY DEF IInv, NoticesAreBacked, Backs, Rows
<1>4. \A g \in Handlers : slot'[g] = IF g = h THEN r ELSE slot[g]
  BY DEF IInv, TypeOK
<1>5. CreatedOnce'
  BY <1>4 DEF IInv, CreatedOnce
<1>6. ASSUME NEW g \in Handlers PROVE SlotInv(slot[g])'
  <2>1. CASE g = h
    BY <2>1, <1>4 DEF SlotInv, Served, ReadWhatWas, KnowsWhom, AnnouncesWhatIs
  <2>2. CASE g # h
    <3>1. slot'[g] = slot[g]
      BY <2>2, <1>4
    <3> QED
      BY <3>1 DEF IInv, SlotInv, Served, ReadWhatWas, KnowsWhom, AnnouncesWhatIs, Backs, Rows
  <2> QED
    BY <2>1, <2>2
<1> QED
  BY <1>1, <1>2, <1>3, <1>5, <1>6 DEF IInv

\* PUT /:id/checklist preserves the invariant.
LEMMA SaveChecklistStep ==
  ASSUME IInv, NEW h \in Handlers, SaveChecklist(h)
  PROVE  IInv'
<1>1. checked' \subseteq Items
  BY DEF SaveChecklist, IInv, TypeOK
<1>2. Idle.op # "CREATE" /\ slot' = [slot EXCEPT ![h] = Idle]
      /\ UNCHANGED <<tender, history, audit, account, inbox, crashes>>
  BY DEF Idle, SaveChecklist, Respond
<1>3. tender.approvedAt # 0 => \E a \in audit' : a.action = "MANAGER_APPROVED"
  BY <1>2 DEF IInv, RowsInv, ApprovalsAreReal
<1>4. \A a \in audit' : a.action = "MANAGER_APPROVED" =>
        a.round \in Rows /\ history[a.round].to = "PENDING_APPROVAL"
  BY <1>2 DEF IInv, RowsInv, ApprovalsAreReal
<1> QED
  BY <1>1, <1>2, <1>3, <1>4, IdleIsRequest, IdleSlotInv, NoRowStep DEF IInv, TypeOK

\* PATCH /:id preserves the invariant, however late it lands.
LEMMA EditTenderStep ==
  ASSUME IInv, NEW h \in Handlers, EditTender(h)
  PROVE  IInv'
<1>1. PICK d \in Data : tender' = [tender EXCEPT !.data = d]
  BY DEF EditTender
<1>2. /\ tender' \in Tender
      /\ tender'.status = tender.status /\ tender'.assignee = tender.assignee
      /\ tender'.rejectionReason = tender.rejectionReason
      /\ tender'.approvedAt = tender.approvedAt
  BY <1>1 DEF IInv, TypeOK, Tender
<1>3. Idle.op # "CREATE" /\ slot' = [slot EXCEPT ![h] = Idle]
      /\ UNCHANGED <<history, audit, checked, account, inbox, crashes>>
  BY DEF Idle, EditTender, Respond
<1>4. tender'.approvedAt # 0 => \E a \in audit' : a.action = "MANAGER_APPROVED"
  BY <1>2, <1>3 DEF IInv, RowsInv, ApprovalsAreReal
<1>5. \A a \in audit' : a.action = "MANAGER_APPROVED" =>
        a.round \in Rows /\ history[a.round].to = "PENDING_APPROVAL"
  BY <1>3 DEF IInv, RowsInv, ApprovalsAreReal
<1> QED
  BY <1>2, <1>3, <1>4, <1>5, IdleIsRequest, IdleSlotInv, NoRowStep DEF IInv, TypeOK

\* An approving POST /:id/review/decision preserves the invariant.
LEMMA ApproveReviewStep ==
  ASSUME IInv, NEW h \in Handlers, ApproveReview(h)
  PROVE  IInv'
<1> DEFINE a0 == [action |-> "REVIEW_APPROVED", round |-> slot[h].round]
<1>1. audit' = audit \cup {a0} /\ a0 \in AuditRow /\ a0.action = "REVIEW_APPROVED"
  BY DEF ApproveReview, AuditRow, IInv, TypeOK, Request
<1>2. Idle.op # "CREATE" /\ slot' = [slot EXCEPT ![h] = Idle]
      /\ UNCHANGED <<tender, history, checked, account, inbox, crashes>>
  BY DEF Idle, ApproveReview, Respond
<1> HIDE DEF a0
<1>3. tender.approvedAt # 0 => \E a \in audit' : a.action = "MANAGER_APPROVED"
  BY <1>1 DEF IInv, RowsInv, ApprovalsAreReal
<1>4. \A a \in audit' : a.action = "MANAGER_APPROVED" =>
        a.round \in Rows /\ history[a.round].to = "PENDING_APPROVAL"
  BY <1>1 DEF IInv, RowsInv, ApprovalsAreReal
<1>5. audit \subseteq audit' /\ audit' \subseteq AuditRow
  BY <1>1 DEF IInv, TypeOK
<1> QED
  BY <1>2, <1>3, <1>4, <1>5, IdleIsRequest, IdleSlotInv, NoRowStep DEF IInv, TypeOK

\* An approving POST /:id/manager-decision preserves the invariant: the round
\* it approves was pending when its handler read it.
LEMMA ManagerApproveStep ==
  ASSUME IInv, NEW h \in Handlers, ManagerApprove(h)
  PROVE  IInv'
<1> DEFINE a0 == [action |-> "MANAGER_APPROVED", round |-> slot[h].round]
<1>1. /\ slot[h].pc = "commit" /\ slot[h].op = "MANAGER_APPROVE"
      /\ tender' = [tender EXCEPT !.approvedAt = slot[h].round, !.assignee = slot[h].user]
      /\ audit' = audit \cup {a0}
      /\ LookUpRecipients(h, Len(history))
      /\ UNCHANGED <<history, checked, account, inbox, crashes>>
  BY DEF ManagerApprove, Committing
<1>2. SlotInv(slot[h]) /\ slot[h] \in Request
  BY DEF IInv, TypeOK
<1>3. slot[h].round \in Rows /\ history[slot[h].round].to = "PENDING_APPROVAL"
  BY <1>1, <1>2 DEF SlotInv, ReadWhatWas
<1>4. slot[h].user \in Users /\ history # <<>>
  BY <1>1, <1>2 DEF SlotInv, Served
<1>5. a0 \in AuditRow /\ a0.action = "MANAGER_APPROVED" /\ a0.round = slot[h].round
  BY <1>2 DEF AuditRow, Request
<1> HIDE DEF a0
<1>6. audit \subseteq audit' /\ audit' \subseteq AuditRow /\ a0 \in audit'
  BY <1>1, <1>5 DEF IInv, TypeOK
<1>7. \A a \in audit' : a.action = "MANAGER_APPROVED" =>
        a.round \in Rows /\ history[a.round].to = "PENDING_APPROVAL"
  BY <1>1, <1>3, <1>5 DEF IInv, RowsInv, ApprovalsAreReal
<1>8. /\ tender' \in Tender
      /\ tender'.status = tender.status
      /\ tender'.rejectionReason = tender.rejectionReason
      /\ tender'.assignee # NoUser
  BY <1>1, <1>2, <1>4, UsersAssumption DEF IInv, TypeOK, Tender, UserOrNull, Request
<1>9. Len(history) \in Nat /\ Len(history) \in Rows
  BY <1>4 DEF IInv, TypeOK, Rows
<1>10. PICK r \in Request :
        /\ slot' = [slot EXCEPT ![h] = r]
        /\ r.pc = "recipients" /\ r.row = Len(history)
        /\ r.op = slot[h].op /\ r.user = slot[h].user /\ r.target = slot[h].target
  BY <1>1, <1>9, LookUpSlot DEF IInv
<1>11. SlotInv(r)'
  <2>1. history' # <<>> /\ r.row \in Rows'
    BY <1>1, <1>4, <1>9, <1>10 DEF Rows
  <2>2. Backs(r.row, TypeOf(r.op))'
    BY <1>1, <1>10, <2>1 DEF Backs, TypeOf
  <2> QED
    BY <1>1, <1>4, <1>10, <2>1, <2>2, AnnouncingSlot DEF Operation, CommitOnly
<1>12. r.op # "CREATE"
  BY <1>1, <1>10
<1> QED
  BY <1>1, <1>5, <1>6, <1>7, <1>8, <1>10, <1>11, <1>12, NoRowStep DEF IInv, TypeOK

\* PATCH /admin/users/:id preserves the invariant.
LEMMA PatchUserStep ==
  ASSUME IInv, NEW u \in Managed, NEW role \in NewRoles, NEW active \in BOOLEAN,
         PatchUser(u, role, active)
  PROVE  IInv'
<1>1. TypeOK'
  BY UsersAssumption DEF PatchUser, IInv, TypeOK
<1>2. RowsInv'
  BY RowsStay DEF PatchUser
<1>3. NoticesAreBacked' /\ CreatedOnce' /\ \A h \in Handlers : SlotInv(slot[h])'
  BY DEF PatchUser, IInv, NoticesAreBacked, CreatedOnce, SlotInv, Served, ReadWhatWas,
         KnowsWhom, AnnouncesWhatIs, Backs, Rows
<1> QED
  BY <1>1, <1>2, <1>3 DEF IInv
-----------------------------------------------------------------------------
(* The theorems *)

\* Every step preserves the invariant.
LEMMA StepIInv == IInv /\ [Next]_vars => IInv'
<1> SUFFICES ASSUME IInv, [Next]_vars PROVE IInv'
  OBVIOUS
<1>1. ASSUME NEW h \in Handlers, NEW op \in Offered, NEW u \in Users, NEW w \in UserOrNull,
             Begin(h, op, u, w)
      PROVE  IInv'
  BY <1>1, BeginStep
<1>2. ASSUME NEW h \in Handlers, Refuse(h) PROVE IInv'
  BY <1>2, EmptyStep DEF Refuse, IInv, TypeOK
<1>3. ASSUME NEW h \in Handlers, Commit(h) PROVE IInv'
  BY <1>3, CreateTenderStep, StartReviewStep, SaveChecklistStep, ApproveReviewStep,
     RejectInReviewStep, AssignWriterStep, SubmitForApprovalStep, ManagerApproveStep,
     ReturnToWriterStep, ManagerStopStep, MarkSubmittedStep, RecordResultStep,
     EditTenderStep DEF Commit
<1>4. ASSUME NEW h \in Handlers, Proceed(h) PROVE IInv'
  BY <1>2, <1>3, <1>4, ReadStep, CheckChecklistStep, CheckWriterStep, FindLastSubmitStep,
     FindRecipientsStep, DeliverStep DEF Proceed
<1>5. ASSUME NEW h \in Handlers, Crash(h) PROVE IInv'
  <2>1. crashes' \in Nat
    BY <1>5 DEF Crash, IInv, TypeOK
  <2>2. slot' = [slot EXCEPT ![h] = Idle]
        /\ UNCHANGED <<tender, history, audit, checked, account, inbox>>
    BY <1>5 DEF Crash
  <2> QED
    BY <2>1, <2>2, EmptyStep
<1>6. ASSUME NEW u \in Managed, NEW role \in NewRoles, NEW active \in BOOLEAN,
             PatchUser(u, role, active)
      PROVE  IInv'
  BY <1>6, PatchUserStep
<1>7. CASE UNCHANGED vars
  <2>1. RowsInv'
    BY <1>7, RowsStay DEF vars
  <2> QED
    BY <1>7, <2>1 DEF vars, IInv, TypeOK, NoticesAreBacked, CreatedOnce, SlotInv, Served,
       ReadWhatWas, KnowsWhom, AnnouncesWhatIs, Backs, Rows
<1> QED
  BY <1>1, <1>4, <1>5, <1>6, <1>7 DEF Next

\* The inductive invariant holds in every state of every execution.
THEOREM Invariance == Spec => []IInv
<1> QED
  BY InitIInv, StepIInv, PTL DEF Spec

\* The rows, the log, the notifications and the local variables of the handlers
\* keep their types: in particular every history row names the user who moved.
THEOREM TypeCorrectness == Spec => []TypeOK
<1>1. IInv => TypeOK
  BY DEF IInv
<1> QED
  BY <1>1, Invariance, PTL

\* However requests interleave, the status of the row and the newest history row agree.
THEOREM RowAgreesWithHistory == Spec => []StatusIsLastRow
<1>1. IInv => StatusIsLastRow
  BY DEF IInv, RowsInv
<1> QED
  BY <1>1, Invariance, PTL

\* However requests interleave, every history row is a move of the table from a
\* status the tender had before.
THEOREM NoStatusSkipped == Spec => []NothingSkipped
<1>1. IInv => NothingSkipped
  BY DEF IInv, RowsInv
<1> QED
  BY <1>1, Invariance, PTL

\* However requests interleave, no tender is submitted that no manager approved
\* after it was sent for approval (BR-004).
THEOREM NoSubmissionUnapproved == Spec => []SubmissionWasApproved
<1>1. IInv => SubmissionWasApproved
  BY DEF IInv, RowsInv
<1> QED
  BY <1>1, Invariance, PTL

\* However requests interleave, an open tender outside the pool is somebody's (BR-003).
THEOREM NoOrphanTender == Spec => []OpenTenderHasOwner
<1>1. IInv => OpenTenderHasOwner
  BY DEF IInv, RowsInv
<1> QED
  BY <1>1, Invariance, PTL

\* However requests interleave, a rejected tender has its reason (BR-002).
THEOREM NoRejectionWithoutReason == Spec => []RejectionHasReason
<1>1. IInv => RejectionHasReason
  BY DEF IInv, RowsInv
<1> QED
  BY <1>1, Invariance, PTL

\* Whatever crashes, nobody is notified of a change that was not committed.
THEOREM NoUnbackedNotice == Spec => []NoticesAreBacked
<1>1. IInv => NoticesAreBacked
  BY DEF IInv
<1> QED
  BY <1>1, Invariance, PTL
-----------------------------------------------------------------------------
(* Decisions in turn: what findLastStatusEvent finds *)

\* The set of the rows findLastStatusEvent chooses from, and its choice.
LEMMA LastSubmitterChosen ==
  ASSUME NEW sent, sent = {i \in Rows : history[i].to = "PENDING_APPROVAL"}
  PROVE  LastSubmitter = IF sent = {} THEN NoUser
                         ELSE history[CHOOSE i \in sent : \A j \in sent : j <= i].by
  BY DEF LastSubmitter, Rows

\* While no row is written it finds the same.
LEMMA SubmitterStays ==
  ASSUME UNCHANGED history
  PROVE  LastSubmitter' = LastSubmitter
  BY DEF LastSubmitter

\* A row to another status does not change whom it finds.
LEMMA SubmitterOfOtherRow ==
  ASSUME history \in Seq(HistoryRow), NewestSubmission,
         NEW e \in HistoryRow, history' = Append(history, e), e.to # "PENDING_APPROVAL"
  PROVE  LastSubmitter' = LastSubmitter
<1> DEFINE sent == {i \in Rows : history[i].to = "PENDING_APPROVAL"}
           k == CHOOSE i \in sent : \A j \in sent : j <= i
<1>1. sent' = sent
  BY AppendFacts
<1>2. LastSubmitter = IF sent = {} THEN NoUser ELSE history[k].by
  BY LastSubmitterChosen
<1>3. LastSubmitter' = IF sent' = {} THEN NoUser ELSE history'[k'].by
  BY DEF LastSubmitter, Rows
<1>4. k' = k
  BY <1>1
<1>5. sent # {} => k \in Rows
  BY DEF NewestSubmission
<1> HIDE DEF k, sent
<1> QED
  BY <1>1, <1>2, <1>3, <1>4, <1>5, AppendFacts

\* A new submission is what it finds from then on.
LEMMA SubmitterOfSubmission ==
  ASSUME history \in Seq(HistoryRow),
         NEW e \in HistoryRow, history' = Append(history, e), e.to = "PENDING_APPROVAL"
  PROVE  LastSubmitter' = e.by
<1> DEFINE sent == {i \in Rows : history[i].to = "PENDING_APPROVAL"}
           n == Len(history) + 1
           k == CHOOSE i \in sent : \A j \in sent : j <= i
<1>1. n \in sent' /\ \A j \in sent' : j <= n
  BY AppendFacts
<1>2. \A i \in sent' : i \in Nat
  BY AppendFacts DEF Rows
<1>3. k' \in sent' /\ \A j \in sent' : j <= k'
  BY <1>1
<1>4. LastSubmitter' = IF sent' = {} THEN NoUser ELSE history'[k'].by
  BY DEF LastSubmitter, Rows
<1>5. history'[n] = e
  BY AppendFacts
<1> HIDE DEF k, sent, n
<1>6. k' = n
  BY <1>1, <1>2, <1>3
<1> QED
  BY <1>1, <1>4, <1>5, <1>6

-----------------------------------------------------------------------------
(* Decisions in turn: what a transaction does *)

\* A handler runs its transaction when its checks are done.
LEMMA CommitsAtCommit ==
  ASSUME NEW h, Commit(h)
  PROVE  slot[h].pc = "commit"
BY DEF Commit, Committing, CreateTender, StartReview, SaveChecklist, ApproveReview,
       RejectInReview, AssignWriter, SubmitForApproval, ManagerApprove, ReturnToWriter,
       ManagerStop, MarkSubmitted, RecordResult, EditTender

\* A transaction of a workflow action, while what its handler read is still so:
\* a move of the table from the present status, with its history row.
LEMMA WorkflowCommit ==
  ASSUME IInv, InTurnInv, NEW h \in Handlers, Commit(h), slot[h].op \in WorkflowAction
  PROVE  /\ slot[h].user \in Users
         /\ \E e \in HistoryRow : /\ history' = Append(history, e)
                                  /\ e.from = tender.status
                                  /\ e.to = tender'.status
                                  /\ e.by = slot[h].user
         /\ history # <<>>
         /\ resolveTransition(slot[h].op, tender.status, slot[h].role, tender'.status)
         /\ UNCHANGED <<audit, checked, account>>
         /\ tender'.data = tender.data
         /\ CASE slot[h].op = "REVIEW_START" -> 
                   tender'.assignee = slot[h].user /\ tender'.approvedAt = tender.approvedAt
              [] slot[h].op = "REVIEW_REJECT" ->
                   tender'.assignee = NoUser /\ tender'.approvedAt = tender.approvedAt
              [] slot[h].op = "ASSIGN_WRITER" ->
                   /\ isChecklistComplete
                   /\ slot[h].target \in Users
                   /\ tender'.assignee = slot[h].target /\ tender'.approvedAt = tender.approvedAt
              [] slot[h].op = "SUBMIT_FOR_APPROVAL" ->
                   /\ tender.assignee = slot[h].user
                   /\ tender'.assignee = NoUser /\ tender'.approvedAt = 0
              [] slot[h].op = "MANAGER_RETURN" ->
                   /\ LastSubmitter \in Users
                   /\ tender'.assignee = LastSubmitter /\ tender'.approvedAt = 0
              [] slot[h].op = "MANAGER_STOP" ->
                   tender'.assignee = NoUser /\ tender'.approvedAt = 0
              [] slot[h].op = "MARK_SUBMITTED" ->
                   /\ tender.approvedAt # 0
                   /\ tender'.assignee = slot[h].user /\ tender'.approvedAt = tender.approvedAt
              [] OTHER ->
                   tender'.assignee = tender.assignee /\ tender'.approvedAt = tender.approvedAt
<1> DEFINE op == slot[h].op
           e == [from |-> slot[h].from, to |-> slot[h].to, by |-> slot[h].user]
<1>1. slot[h].pc = "commit" /\ op # "CREATE" /\ op \notin CommitOnly
  BY DEF Commit, Committing, CreateTender, StartReview, SaveChecklist, ApproveReview,
         RejectInReview, AssignWriter, SubmitForApproval, ManagerApprove, ReturnToWriter,
         ManagerStop, MarkSubmitted, RecordResult, EditTender, WorkflowAction, CommitOnly
<1>2. /\ slot[h].user \in Users
      /\ e \in HistoryRow
      /\ history # <<>>
      /\ resolveTransition(op, slot[h].from, slot[h].role, slot[h].to)
      /\ slot[h].to \in TENDER_STATUSES
  BY <1>1, RowToWrite
<1>3. StillTrue(slot[h]) /\ SlotInv(slot[h])
  BY DEF InTurnInv, IInv
<1>4. slot[h].from = tender.status
  BY <1>1, <1>3 DEF StillTrue
<1>5. tender \in Tender
  BY DEF IInv, TypeOK
<1>6. ASSUME NEW row \in Tender, recordStatusChange(h, row)
      PROVE  /\ tender'.status = slot[h].to
             /\ tender'.assignee = row.assignee
             /\ tender'.approvedAt = row.approvedAt
             /\ tender'.data = row.data
             /\ history' = Append(history, e)
             /\ UNCHANGED <<audit, checked, account>>
  BY <1>2, <1>6 DEF recordStatusChange, Tender, StatusOrAbsent
<1>7. NoUser \in UserOrNull /\ slot[h].user \in UserOrNull /\ 0 \in Nat
  BY <1>2 DEF UserOrNull
<1>8. /\ tender'.status = slot[h].to
      /\ history' = Append(history, e)
      /\ UNCHANGED <<audit, checked, account>>
      /\ tender'.data = tender.data
      /\ op = "REVIEW_START" => 
           tender'.assignee = slot[h].user /\ tender'.approvedAt = tender.approvedAt
      /\ op = "REVIEW_REJECT" =>
           tender'.assignee = NoUser /\ tender'.approvedAt = tender.approvedAt
      /\ op = "ASSIGN_WRITER" =>
           tender'.assignee = slot[h].target /\ tender'.approvedAt = tender.approvedAt
      /\ op = "SUBMIT_FOR_APPROVAL" => tender'.assignee = NoUser /\ tender'.approvedAt = 0
      /\ op = "MANAGER_RETURN" => tender'.assignee = slot[h].target /\ tender'.approvedAt = 0
      /\ op = "MANAGER_STOP" => tender'.assignee = NoUser /\ tender'.approvedAt = 0
      /\ op = "MARK_SUBMITTED" =>
           tender'.assignee = slot[h].user /\ tender'.approvedAt = tender.approvedAt
      /\ op \in {"RESULT_WON", "RESULT_LOST"} =>
           tender'.assignee = tender.assignee /\ tender'.approvedAt = tender.approvedAt
  <2> HIDE DEF e
  <2>1. CASE StartReview(h)
    <3> DEFINE row == [tender EXCEPT !.assignee = slot[h].user]
    <3>1. row \in Tender /\ row.assignee = slot[h].user /\ row.approvedAt = tender.approvedAt
          /\ row.data = tender.data
      BY <1>5, <1>7 DEF Tender
    <3>2. recordStatusChange(h, row) /\ op = "REVIEW_START"
      BY <2>1 DEF StartReview, Committing
    <3> HIDE DEF row
    <3> QED
      BY <1>6, <3>1, <3>2
  <2>2. CASE RejectInReview(h)
    <3> DEFINE row == [tender EXCEPT !.assignee = NoUser, !.rejectionReason = TRUE]
    <3>1. row \in Tender /\ row.assignee = NoUser /\ row.approvedAt = tender.approvedAt
          /\ row.data = tender.data
      BY <1>5, <1>7 DEF Tender
    <3>2. recordStatusChange(h, row) /\ op = "REVIEW_REJECT"
      BY <2>2 DEF RejectInReview, Committing
    <3> HIDE DEF row
    <3> QED
      BY <1>6, <3>1, <3>2
  <2>3. CASE AssignWriter(h)
    <3> DEFINE row == [tender EXCEPT !.assignee = slot[h].target]
    <3>1. recordStatusChange(h, row) /\ op = "ASSIGN_WRITER"
      BY <2>3 DEF AssignWriter, Committing
    <3>2. slot[h].target \in UserOrNull
      BY <1>3, <3>1 DEF SlotInv, KnowsWhom, UserOrNull
    <3>3. row \in Tender /\ row.assignee = slot[h].target /\ row.approvedAt = tender.approvedAt
          /\ row.data = tender.data
      BY <1>5, <3>2 DEF Tender
    <3> HIDE DEF row
    <3> QED
      BY <1>6, <3>1, <3>3
  <2>4. CASE SubmitForApproval(h)
    <3> DEFINE row == [tender EXCEPT !.assignee = NoUser, !.approvedAt = 0]
    <3>1. row \in Tender /\ row.assignee = NoUser /\ row.approvedAt = 0 /\ row.data = tender.data
      BY <1>5, <1>7 DEF Tender
    <3>2. recordStatusChange(h, row) /\ op = "SUBMIT_FOR_APPROVAL"
      BY <2>4 DEF SubmitForApproval, Committing
    <3> HIDE DEF row
    <3> QED
      BY <1>6, <3>1, <3>2
  <2>5. CASE ReturnToWriter(h)
    <3> DEFINE row == [tender EXCEPT !.assignee = slot[h].target, !.approvedAt = 0]
    <3>1. recordStatusChange(h, row) /\ op = "MANAGER_RETURN"
      BY <2>5 DEF ReturnToWriter, Committing
    <3>2. slot[h].target \in UserOrNull
      BY <1>1, <1>3, <3>1 DEF SlotInv, KnowsWhom, UserOrNull
    <3>3. row \in Tender /\ row.assignee = slot[h].target /\ row.approvedAt = 0
          /\ row.data = tender.data
      BY <1>5, <1>7, <3>2 DEF Tender
    <3> HIDE DEF row
    <3> QED
      BY <1>6, <3>1, <3>3
  <2>6. CASE ManagerStop(h)
    <3> DEFINE row == [tender EXCEPT !.assignee = NoUser, !.approvedAt = 0, !.rejectionReason = TRUE]
    <3>1. row \in Tender /\ row.assignee = NoUser /\ row.approvedAt = 0 /\ row.data = tender.data
      BY <1>5, <1>7 DEF Tender
    <3>2. recordStatusChange(h, row) /\ op = "MANAGER_STOP"
      BY <2>6 DEF ManagerStop, Committing
    <3> HIDE DEF row
    <3> QED
      BY <1>6, <3>1, <3>2
  <2>7. CASE MarkSubmitted(h)
    <3> DEFINE row == [tender EXCEPT !.assignee = slot[h].user]
    <3>1. row \in Tender /\ row.assignee = slot[h].user /\ row.approvedAt = tender.approvedAt
          /\ row.data = tender.data
      BY <1>5, <1>7 DEF Tender
    <3>2. recordStatusChange(h, row) /\ op = "MARK_SUBMITTED"
      BY <2>7 DEF MarkSubmitted, Committing
    <3> HIDE DEF row
    <3> QED
      BY <1>6, <3>1, <3>2
  <2>8. CASE RecordResult(h)
    <3>1. recordStatusChange(h, tender) /\ op \in {"RESULT_WON", "RESULT_LOST"}
      BY <2>8 DEF RecordResult, Committing
    <3> QED
      BY <1>5, <1>6, <3>1
  <2> QED
    BY <1>1, <2>1, <2>2, <2>3, <2>4, <2>5, <2>6, <2>7, <2>8
       DEF Commit, Committing, CreateTender, SaveChecklist, ApproveReview, ManagerApprove,
           EditTender, CommitOnly
<1>9. /\ op = "ASSIGN_WRITER" => isChecklistComplete /\ slot[h].target \in Users
      /\ op = "SUBMIT_FOR_APPROVAL" => tender.assignee = slot[h].user
      /\ op = "MANAGER_RETURN" => slot[h].target = LastSubmitter /\ slot[h].target \in Users
      /\ op = "MARK_SUBMITTED" => tender.approvedAt # 0
  BY <1>1, <1>3 DEF StillTrue, SlotInv, KnowsWhom
<1>10. e.from = tender.status /\ e.to = tender'.status /\ e.by = slot[h].user
  BY <1>4, <1>8
<1> HIDE DEF e
<1> QED
  BY <1>2, <1>4, <1>8, <1>9, <1>10 DEF WorkflowAction

\* The other transactions, under the same condition.
LEMMA OtherCommit ==
  ASSUME IInv, InTurnInv, NEW h \in Handlers, Commit(h), slot[h].op \notin WorkflowAction
  PROVE  \/ /\ slot[h].op = "CREATE" /\ slot[h].user \in Users
            /\ history = <<>> /\ tender.status = Absent
            /\ \E e \in HistoryRow : history' = Append(history, e) /\ e.to = "NEW"
            /\ tender'.status = "NEW" /\ tender'.assignee = slot[h].user
            /\ tender'.approvedAt = tender.approvedAt /\ tender'.data = tender.data
            /\ UNCHANGED <<checked, account>>
         \/ /\ slot[h].op = "MANAGER_APPROVE" /\ slot[h].user \in Users
            /\ tender.status = "PENDING_APPROVAL" /\ tender'.status = tender.status
            /\ tender'.assignee = slot[h].user
            /\ tender'.approvedAt = Len(history) /\ tender'.approvedAt # 0
            /\ tender'.data = tender.data
            /\ UNCHANGED <<history, checked, account>>
         \/ /\ slot[h].op = "EDIT" /\ isTenderEditable(tender.status)
            /\ tender'.status = tender.status /\ tender'.assignee = tender.assignee
            /\ tender'.approvedAt = tender.approvedAt
            /\ UNCHANGED <<history, checked, account>>
         \/ slot[h].op = "SAVE_CHECKLIST" /\ UNCHANGED <<tender, history, account>>
         \/ slot[h].op = "REVIEW_APPROVE" /\ UNCHANGED <<tender, history, checked, account>>
<1>0. tender \in Tender /\ slot[h] \in Request /\ StillTrue(slot[h]) /\ SlotInv(slot[h])
      /\ history \in Seq(HistoryRow)
  BY DEF IInv, TypeOK, InTurnInv
<1>1. CASE CreateTender(h)
  <2> DEFINE e == [from |-> Absent, to |-> "NEW", by |-> slot[h].user]
  <2>1. slot[h].user \in Users /\ history = <<>> /\ slot[h].op = "CREATE"
    BY <1>0, <1>1 DEF CreateTender, Committing, SlotInv, Served
  <2>2. tender.status = Absent
    BY <2>1, ExistsIffHistory
  <2>3. e \in HistoryRow /\ e.to = "NEW"
    BY <2>1 DEF HistoryRow, StatusOrAbsent, TENDER_STATUSES
  <2>4. history' = Append(history, e) /\ UNCHANGED <<checked, account>>
        /\ tender' = [tender EXCEPT !.status = "NEW", !.assignee = slot[h].user]
    BY <1>1 DEF CreateTender
  <2>5. tender'.status = "NEW" /\ tender'.assignee = slot[h].user
        /\ tender'.approvedAt = tender.approvedAt /\ tender'.data = tender.data
    BY <1>0, <2>4 DEF Tender
  <2> HIDE DEF e
  <2> QED
    BY <2>1, <2>2, <2>3, <2>4, <2>5
<1>2. CASE ManagerApprove(h)
  <2>1. /\ slot[h].pc = "commit" /\ slot[h].op = "MANAGER_APPROVE"
        /\ tender' = [tender EXCEPT !.approvedAt = slot[h].round, !.assignee = slot[h].user]
        /\ UNCHANGED <<history, checked, account>>
    BY <1>2 DEF ManagerApprove, Committing
  <2>2. slot[h].from = tender.status /\ slot[h].round = Len(history)
    BY <1>0, <2>1 DEF StillTrue
  <2>3. slot[h].from = "PENDING_APPROVAL" /\ slot[h].round \in Rows /\ slot[h].user \in Users
    BY <1>0, <2>1 DEF SlotInv, ReadWhatWas, Served
  <2>4. slot[h].round # 0
    BY <1>0, <2>3 DEF Rows
  <2>5. tender'.status = tender.status /\ tender'.assignee = slot[h].user
        /\ tender'.approvedAt = slot[h].round /\ tender'.data = tender.data
    BY <1>0, <2>1 DEF Tender
  <2> QED
    BY <2>1, <2>2, <2>3, <2>4, <2>5
<1>3. CASE EditTender(h)
  <2>1. isTenderEditable(tender.status)
    BY <1>0, <1>3 DEF EditTender, Committing, StillTrue
  <2> QED
    BY <1>0, <1>3, <2>1 DEF EditTender, Committing, Tender
<1>4. CASE SaveChecklist(h)
  BY <1>4 DEF SaveChecklist, Committing
<1>5. CASE ApproveReview(h)
  BY <1>5 DEF ApproveReview, Committing
<1> QED
  BY <1>1, <1>2, <1>3, <1>4, <1>5
     DEF Commit, Committing, StartReview, RejectInReview, AssignWriter, SubmitForApproval,
         ReturnToWriter, ManagerStop, MarkSubmitted, RecordResult, WorkflowAction

-----------------------------------------------------------------------------
(* Decisions in turn: the invariant *)

\* What each action of the table leads from.
LEMMA ResolvedFrom ==
  ASSUME NEW action, NEW from, NEW role, NEW to,
         resolveTransition(action, from, role, to)
  PROVE  /\ action = "REVIEW_START" => from = "NEW"
         /\ action \in {"REVIEW_REJECT", "ASSIGN_WRITER"} => from = "UNDER_REVIEW"
         /\ action = "SUBMIT_FOR_APPROVAL" => from = "PROPOSAL_PREPARATION"
         /\ action \in {"MANAGER_RETURN", "MANAGER_STOP", "MARK_SUBMITTED"} => from = "PENDING_APPROVAL"
         /\ action \in {"RESULT_WON", "RESULT_LOST"} => from = "SUBMITTED"
  BY DEF resolveTransition, TRANSITIONS, Rule

\* After its transaction a handler has nothing more to decide.
LEMMA CommitSlot ==
  ASSUME IInv, NEW h \in Handlers, Commit(h)
  PROVE  \E r \in Request :
           /\ slot' = [slot EXCEPT ![h] = r]
           /\ r.pc \in {"idle", "recipients", "deliver"}
           /\ r.pc # "idle" => r.user = slot[h].user /\ r.op = slot[h].op
<1> DEFINE Done(r) == /\ slot' = [slot EXCEPT ![h] = r]
                      /\ r.pc \in {"idle", "recipients", "deliver"}
                      /\ r.pc # "idle" => r.user = slot[h].user /\ r.op = slot[h].op
<1>0. TypeOK /\ Len(history) \in Nat /\ Len(history) + 1 \in Nat /\ SlotInv(slot[h])
  BY DEF IInv, TypeOK
<1>1. ASSUME Respond(h) PROVE \E r \in Request : Done(r)
  <2>1. Done(Idle)
    BY <1>1 DEF Respond, Idle
  <2> QED
    BY <2>1, IdleIsRequest
<1>2. ASSUME NEW row \in Nat, LookUpRecipients(h, row) PROVE \E r \in Request : Done(r)
  BY <1>0, <1>2, LookUpSlot
<1>3. ASSUME NEW row \in Nat, NEW todo \in SUBSET Users, Notify(h, todo, row)
      PROVE  \E r \in Request : Done(r)
  <2>1. PICK r \in Request :
          /\ slot' = [slot EXCEPT ![h] = r]
          /\ \/ r = Idle
             \/ r.pc = "deliver" /\ r.op = slot[h].op /\ r.user = slot[h].user
    BY <1>0, <1>3, NotifySlot
  <2>2. Done(r)
    BY <2>1 DEF Idle
  <2> QED
    BY <2>2
<1>4. CASE CreateTender(h) \/ SubmitForApproval(h) \/ ManagerApprove(h)
  BY <1>0, <1>2, <1>4 DEF CreateTender, SubmitForApproval, ManagerApprove
<1>5. CASE StartReview(h) \/ SaveChecklist(h) \/ ApproveReview(h) \/ RejectInReview(h)
             \/ ManagerStop(h) \/ MarkSubmitted(h) \/ EditTender(h)
  BY <1>1, <1>5 DEF StartReview, SaveChecklist, ApproveReview, RejectInReview, ManagerStop,
                    MarkSubmitted, EditTender
<1>6. CASE AssignWriter(h)
  <2>1. {slot[h].target} \in SUBSET Users /\ Notify(h, {slot[h].target}, Len(history) + 1)
    BY <1>0, <1>6 DEF AssignWriter, Committing, SlotInv, KnowsWhom
  <2> QED
    BY <1>0, <1>3, <2>1
<1>7. CASE ReturnToWriter(h)
  <2>1. {slot[h].target} \ {NoUser} \in SUBSET Users
        /\ Notify(h, {slot[h].target} \ {NoUser}, Len(history) + 1)
    BY <1>0, <1>7 DEF ReturnToWriter, Committing, SlotInv, KnowsWhom
  <2> QED
    BY <1>0, <1>3, <2>1
<1>8. CASE RecordResult(h)
  <2>1. slot[h].pc = "commit" /\ slot[h].op \in WorkflowAction
        /\ Notify(h, {history[1].by}, Len(history) + 1)
    BY <1>8 DEF RecordResult, Committing, WorkflowAction
  <2>2. history # <<>>
    BY <2>1, RowToWrite
  <2>3. history[1] \in HistoryRow
    BY <1>0, <2>2 DEF TypeOK
  <2>4. {history[1].by} \in SUBSET Users
    BY <2>3 DEF HistoryRow
  <2> QED
    BY <1>0, <1>3, <2>1, <2>4
<1> QED
  BY <1>4, <1>5, <1>6, <1>7, <1>8 DEF Commit

\* While the rows stay, what was read stays true.
LEMMA StillTrueStays ==
  ASSUME NEW r, StillTrue(r), UNCHANGED <<tender, history, checked>>
  PROVE  StillTrue(r)'
<1>1. LastSubmitter' = LastSubmitter
  BY SubmitterStays
<1>2. isChecklistComplete' <=> isChecklistComplete
  BY DEF isChecklistComplete
<1> QED
  BY <1>1, <1>2 DEF StillTrue, isTenderEditable

\* A handler that only moves on: what it goes by must be true now.
LEMMA InTurnMoveOn ==
  ASSUME TypeOK, InTurnInv, NEW h \in Handlers, NEW r \in Request,
         slot' = [slot EXCEPT ![h] = r], UNCHANGED <<tender, history, checked>>, StillTrue(r)
  PROVE  InTurnInv'
<1>1. HistoryChains' /\ ApprovalIsOfThisSubmission'
  BY DEF InTurnInv, HistoryChains, ApprovalIsOfThisSubmission, Rows
<1>2. ASSUME NEW g \in Handlers PROVE StillTrue(slot[g])'
  <2>1. PICK s : s = (IF g = h THEN r ELSE slot[g])
    OBVIOUS
  <2>2. StillTrue(s)'
    BY <2>1, StillTrueStays DEF InTurnInv
  <2>3. slot'[g] = s
    BY <2>1 DEF TypeOK
  <2> QED
    BY <2>2, <2>3 DEF StillTrue
<1> QED
  BY <1>1, <1>2 DEF InTurnInv

\* A transaction leaves nobody behind who has read what it changes.
LEMMA NobodyIsBehind ==
  ASSUME IInv, DecisionsInTurn, NEW h \in Handlers, Commit(h)
  PROVE  \A g \in Handlers : StillTrue(slot[g])'
<1>1. PICK r \in Request : /\ slot' = [slot EXCEPT ![h] = r]
                           /\ r.pc \in {"idle", "recipients", "deliver"}
  BY CommitSlot
<1>2. slot[h].pc = "commit"
  BY CommitsAtCommit
<1>3. ASSUME NEW g \in Handlers
      PROVE  slot'[g].pc \notin {"checklist", "writer", "lastSubmit", "commit"}
  <2>1. slot'[g] = IF g = h THEN r ELSE slot[g]
    BY <1>1 DEF IInv, TypeOK
  <2> QED
    BY <1>1, <1>2, <2>1 DEF DecisionsInTurn, Deciding
<1> QED
  BY <1>3 DEF StillTrue

\* A new row keeps the chain when it moves from the present status.
LEMMA ChainGrows ==
  ASSUME IInv, HistoryChains, NEW e \in HistoryRow, history' = Append(history, e),
         history = <<>> \/ e.from = tender.status
  PROVE  HistoryChains'
<1>1. history \in Seq(HistoryRow)
  BY DEF IInv, TypeOK
<1>2. ASSUME NEW i \in Rows', i > 1 PROVE history'[i].from = history'[i - 1].to
  <2>1. CASE i \in Rows
    <3>1. i - 1 \in Rows
      BY <1>1, <1>2, <2>1 DEF Rows
    <3> QED
      BY <1>1, <1>2, <2>1, <3>1, AppendFacts DEF HistoryChains
  <2>2. CASE i = Len(history) + 1
    <3>1. i - 1 = Len(history) /\ i - 1 \in Rows /\ history # <<>>
      BY <1>1, <1>2, <2>2 DEF Rows
    <3>2. history[i - 1].to = tender.status
      BY <3>1 DEF IInv, RowsInv, StatusIsLastRow
    <3> QED
      BY <1>1, <2>2, <3>1, <3>2, AppendFacts
  <2> QED
    BY <1>1, <1>2, <2>1, <2>2, AppendFacts
<1> QED
  BY <1>2 DEF HistoryChains

\* The transactions of a workflow action keep history and approval together.
LEMMA WorkflowKeepsApproval ==
  ASSUME IInv, InTurnInv, NEW h \in Handlers, Commit(h), slot[h].op \in WorkflowAction
  PROVE  HistoryChains' /\ ApprovalIsOfThisSubmission'
<1>1. PICK e \in HistoryRow : history' = Append(history, e) /\ e.from = tender.status
  BY WorkflowCommit
<1>2. HistoryChains'
  BY <1>1, ChainGrows DEF InTurnInv
<1>3. Len(history) \in Nat /\ Len(history') = Len(history) + 1
  BY <1>1, AppendFacts DEF IInv, TypeOK
<1>4. resolveTransition(slot[h].op, tender.status, slot[h].role, tender'.status)
  BY WorkflowCommit
<1>5. tender'.approvedAt = IF slot[h].op \in {"SUBMIT_FOR_APPROVAL", "MANAGER_RETURN", "MANAGER_STOP"}
                           THEN 0 ELSE tender.approvedAt
  BY WorkflowCommit
<1>6. slot[h].op = "MARK_SUBMITTED" => tender.approvedAt # 0
  BY WorkflowCommit
<1>7. ApprovalIsOfThisSubmission'
  BY <1>3, <1>4, <1>5, <1>6, ResolvedFrom, ResolvedMove
     DEF InTurnInv, ApprovalIsOfThisSubmission, WorkflowAction
<1> QED
  BY <1>2, <1>7

\* So do the other ones.
LEMMA OthersKeepApproval ==
  ASSUME IInv, InTurnInv, NEW h \in Handlers, Commit(h), slot[h].op \notin WorkflowAction
  PROVE  HistoryChains' /\ ApprovalIsOfThisSubmission'
<1>1. CASE slot[h].op = "CREATE"
  <2>1. history = <<>> /\ tender.status = Absent /\ tender'.status = "NEW"
        /\ tender'.approvedAt = tender.approvedAt
    BY <1>1, OtherCommit
  <2>2. PICK e \in HistoryRow : history' = Append(history, e)
    BY <1>1, OtherCommit
  <2>3. HistoryChains'
    BY <2>1, <2>2, ChainGrows DEF InTurnInv
  <2>4. ApprovalIsOfThisSubmission'
    BY <2>1 DEF InTurnInv, ApprovalIsOfThisSubmission, Absent
  <2> QED
    BY <2>3, <2>4
<1>2. CASE slot[h].op # "CREATE"
  <2>1. UNCHANGED history /\ tender'.status = tender.status
        /\ \/ tender'.approvedAt = tender.approvedAt
           \/ tender.status = "PENDING_APPROVAL" /\ tender'.approvedAt = Len(history)
    BY <1>2, OtherCommit
  <2> QED
    BY <2>1 DEF InTurnInv, HistoryChains, ApprovalIsOfThisSubmission, Rows
<1> QED
  BY <1>1, <1>2

\* While decisions are taken in turn, every step preserves the invariant.
LEMMA InTurnStep == IInv /\ InTurnInv /\ DecisionsInTurn /\ [Next]_vars => InTurnInv'
<1> SUFFICES ASSUME IInv, InTurnInv, DecisionsInTurn, [Next]_vars PROVE InTurnInv'
  OBVIOUS
<1>0. TypeOK
  BY DEF IInv
<1>1. ASSUME NEW h \in Handlers, NEW op \in Offered, NEW u \in Users, NEW w \in UserOrNull,
             Begin(h, op, u, w)
      PROVE  InTurnInv'
  <2> DEFINE r == [Idle EXCEPT !.pc = IF op = "CREATE" THEN "commit" ELSE "auth",
                               !.op = op, !.user = u, !.role = account[u].role, !.target = w]
  <2>1. r \in Request
    BY <1>0, BoundsAssumption DEF TypeOK, Idle, Request, Step, StatusOrAbsent, UserOrNull
  <2>2. StillTrue(r)
    BY DEF StillTrue, Idle
  <2>3. slot' = [slot EXCEPT ![h] = r] /\ UNCHANGED <<tender, history, checked>>
    BY <1>1 DEF Begin
  <2> QED
    BY <1>0, <2>1, <2>2, <2>3, InTurnMoveOn
<1>2. ASSUME NEW h \in Handlers, Read(h) PROVE InTurnInv'
  <2>1. PICK to \in TENDER_STATUSES :
          slot' = [slot EXCEPT ![h].pc = AfterRead(slot[h].op), ![h].from = tender.status,
                               ![h].to = to, ![h].round = Len(history)]
    BY <1>2 DEF Read
  <2> DEFINE r == [slot[h] EXCEPT !.pc = AfterRead(slot[h].op), !.from = tender.status,
                                  !.to = to, !.round = Len(history)]
  <2>2. slot[h] \in Request /\ Admits(slot[h]) /\ slot' = [slot EXCEPT ![h] = r]
        /\ UNCHANGED <<tender, history, checked>>
    BY <1>0, <1>2, <2>1 DEF Read, TypeOK
  <2>3. /\ AfterRead(slot[h].op) \in Step
        /\ slot[h].op = "ASSIGN_WRITER" => AfterRead(slot[h].op) = "checklist"
        /\ slot[h].op = "MANAGER_RETURN" => AfterRead(slot[h].op) = "lastSubmit"
    BY DEF AfterRead, Step
  <2>4. tender.status \in StatusOrAbsent /\ Len(history) \in Nat /\ to \in StatusOrAbsent
    BY <1>0, <2>1 DEF TypeOK, Tender, StatusOrAbsent
  <2>5. r \in Request /\ StillTrue(r)
    BY <2>2, <2>3, <2>4 DEF Request, StillTrue, Admits
  <2> QED
    BY <1>0, <2>2, <2>5, InTurnMoveOn
<1>3. ASSUME NEW h \in Handlers, CheckChecklist(h) PROVE InTurnInv'
  <2> DEFINE r == [slot[h] EXCEPT !.pc = IF slot[h].op = "ASSIGN_WRITER" THEN "writer" ELSE "commit"]
  <2>1. slot[h] \in Request /\ StillTrue(slot[h]) /\ slot[h].pc = "checklist"
        /\ slot[h].op \in {"ASSIGN_WRITER", "REVIEW_APPROVE"}
    BY <1>0, <1>3 DEF CheckChecklist, TypeOK, InTurnInv, IInv, SlotInv, KnowsWhom
  <2>2. r \in Request /\ StillTrue(r)
    BY <1>3, <2>1 DEF CheckChecklist, Request, Step, StillTrue
  <2>3. slot' = [slot EXCEPT ![h] = r] /\ UNCHANGED <<tender, history, checked>>
    BY <1>3 DEF CheckChecklist
  <2> QED
    BY <1>0, <2>2, <2>3, InTurnMoveOn
<1>4. ASSUME NEW h \in Handlers, CheckWriter(h) PROVE InTurnInv'
  <2> DEFINE r == [slot[h] EXCEPT !.pc = "commit"]
  <2>1. slot[h] \in Request /\ StillTrue(slot[h]) /\ slot[h].pc = "writer"
        /\ slot[h].op \in {"ASSIGN_WRITER", "REVIEW_APPROVE"}
    BY <1>0, <1>4 DEF CheckWriter, TypeOK, InTurnInv, IInv, SlotInv, KnowsWhom
  <2>2. r \in Request /\ StillTrue(r)
    BY <2>1 DEF Request, Step, StillTrue
  <2>3. slot' = [slot EXCEPT ![h] = r] /\ UNCHANGED <<tender, history, checked>>
    BY <1>4 DEF CheckWriter
  <2> QED
    BY <1>0, <2>2, <2>3, InTurnMoveOn
<1>5. ASSUME NEW h \in Handlers, FindLastSubmit(h) PROVE InTurnInv'
  <2> DEFINE r == [slot[h] EXCEPT !.pc = "commit", !.target = LastSubmitter]
  <2>1. slot[h] \in Request /\ StillTrue(slot[h]) /\ slot[h].pc = "lastSubmit"
        /\ slot[h].op = "MANAGER_RETURN"
    BY <1>0, <1>5 DEF FindLastSubmit, TypeOK, InTurnInv, IInv, SlotInv, KnowsWhom
  <2>2. LastSubmitter \in UserOrNull
    BY <1>0, LastSubmitterType DEF TypeOK, IInv, RowsInv
  <2>3. r \in Request /\ StillTrue(r)
    BY <2>1, <2>2 DEF Request, Step, StillTrue
  <2>4. slot' = [slot EXCEPT ![h] = r] /\ UNCHANGED <<tender, history, checked>>
    BY <1>5 DEF FindLastSubmit
  <2> QED
    BY <1>0, <2>3, <2>4, InTurnMoveOn
<1>6. ASSUME NEW h \in Handlers, Refuse(h) \/ Crash(h) PROVE InTurnInv'
  <2>1. StillTrue(Idle)
    BY DEF StillTrue, Idle
  <2>2. slot' = [slot EXCEPT ![h] = Idle] /\ UNCHANGED <<tender, history, checked>>
    BY <1>6 DEF Refuse, Crash
  <2> QED
    BY <1>0, <2>1, <2>2, IdleIsRequest, InTurnMoveOn
<1>7. ASSUME NEW h \in Handlers, Commit(h) PROVE InTurnInv'
  <2>1. HistoryChains' /\ ApprovalIsOfThisSubmission'
    BY <1>7, WorkflowKeepsApproval, OthersKeepApproval
  <2> QED
    BY <1>7, <2>1, NobodyIsBehind DEF InTurnInv
<1>8. ASSUME NEW h \in Handlers, FindRecipients(h) \/ Deliver(h) PROVE InTurnInv'
  <2>1. PICK todo \in SUBSET Users : Notify(h, todo, slot[h].row)
    <3>1. CASE FindRecipients(h)
      <4>1. slot[h] \in Request
        BY <1>0 DEF TypeOK
      <4> QED
        BY <1>0, <3>1, <4>1, RecipientsType DEF FindRecipients, IInv, RowsInv
    <3>2. CASE Deliver(h)
      <4>1. slot[h].todo \in SUBSET Users
        BY <1>0 DEF TypeOK, Request
      <4> QED
        BY <3>2, <4>1 DEF Deliver
    <3> QED
      BY <1>8, <3>1, <3>2
  <2>2. slot[h].row \in Nat
    BY <1>0 DEF TypeOK, Request
  <2>3. PICK r \in Request : slot' = [slot EXCEPT ![h] = r] /\ r.pc \in {"idle", "deliver"}
    BY <1>0, <2>1, <2>2, NotifySlot DEF Idle
  <2>4. StillTrue(r)
    BY <2>3 DEF StillTrue
  <2>5. UNCHANGED <<tender, history, checked>>
    BY <1>8 DEF FindRecipients, Deliver
  <2> QED
    BY <1>0, <2>3, <2>4, <2>5, InTurnMoveOn
<1>9. ASSUME UNCHANGED <<tender, history, checked, slot>> PROVE InTurnInv'
  <2>1. HistoryChains' /\ ApprovalIsOfThisSubmission'
    BY <1>9 DEF InTurnInv, HistoryChains, ApprovalIsOfThisSubmission, Rows
  <2>2. ASSUME NEW h \in Handlers PROVE StillTrue(slot[h])'
    <3>1. PICK s : s = slot[h]
      OBVIOUS
    <3>2. StillTrue(s)'
      BY <1>9, <3>1, StillTrueStays DEF InTurnInv
    <3> QED
      BY <1>9, <3>1, <3>2 DEF StillTrue
  <2> QED
    BY <2>1, <2>2 DEF InTurnInv
<1>10. ASSUME NEW h \in Handlers, Proceed(h) PROVE InTurnInv'
  BY <1>2, <1>3, <1>4, <1>5, <1>6, <1>7, <1>8, <1>10 DEF Proceed
<1>11. ASSUME NEW u \in Managed, NEW role \in NewRoles, NEW active \in BOOLEAN,
              PatchUser(u, role, active)
       PROVE  InTurnInv'
  BY <1>9, <1>11 DEF PatchUser
<1>12. CASE UNCHANGED vars
  BY <1>9, <1>12 DEF vars
<1> QED
  BY <1>1, <1>6, <1>10, <1>11, <1>12 DEF Next

\* The empty database satisfies it.
LEMMA InTurnInit == Init => InTurnInv
  BY DEF Init, InTurnInv, HistoryChains, ApprovalIsOfThisSubmission, StillTrue, Idle, Rows, Absent

-----------------------------------------------------------------------------
(* Decisions in turn, while the accounts stay: who holds the tender *)

\* Whom findLastStatusEvent finds wrote a row to PENDING_APPROVAL.
LEMMA SubmitterSent ==
  ASSUME NewestSubmission, LastSubmitter # NoUser
  PROVE  \E i \in Rows : history[i].to = "PENDING_APPROVAL" /\ history[i].by = LastSubmitter
<1> DEFINE sent == {i \in Rows : history[i].to = "PENDING_APPROVAL"}
           k == CHOOSE i \in sent : \A j \in sent : j <= i
<1>1. LastSubmitter = IF sent = {} THEN NoUser ELSE history[k].by
  BY LastSubmitterChosen
<1>2. sent # {} => k \in sent
  BY DEF NewestSubmission
<1>3. sent # {}
  BY <1>1
<1>4. k \in Rows /\ history[k].to = "PENDING_APPROVAL" /\ history[k].by = LastSubmitter
  BY <1>1, <1>2, <1>3
<1> HIDE DEF k
<1> QED
  BY <1>4

\* A handler that only moves on: it must be entitled to where it goes.
LEMMA HeldMoveOn ==
  ASSUME TypeOK, HeldInv, NEW h \in Handlers, NEW r \in Request,
         slot' = [slot EXCEPT ![h] = r], UNCHANGED <<tender, history, account>>,
         StillEntitled(r)
  PROVE  HeldInv'
<1>1. HeldByTheRightRole' /\ SubmittersWrite'
  BY DEF HeldInv, HeldByTheRightRole, SubmittersWrite, ActiveWith, Rows
<1>2. ASSUME NEW g \in Handlers PROVE StillEntitled(slot[g])'
  <2>1. PICK s : s = (IF g = h THEN r ELSE slot[g])
    OBVIOUS
  <2>2. StillEntitled(s)'
    BY <2>1 DEF HeldInv, StillEntitled, ActiveWith
  <2>3. slot'[g] = s
    BY <2>1 DEF TypeOK
  <2> QED
    BY <2>2, <2>3 DEF StillEntitled
<1> QED
  BY <1>1, <1>2 DEF HeldInv

\* Whoever commits a transaction has the role its route requires, and is active.
LEMMA CommitterIsEntitled ==
  ASSUME IInv, HeldInv, NEW h \in Handlers, Commit(h)
  PROVE  /\ slot[h].user \in Users
         /\ slot[h].op \in {"CREATE", "REVIEW_START"} => slot[h].user \in ActiveWith("QA")
         /\ slot[h].op = "SUBMIT_FOR_APPROVAL" => slot[h].user \in ActiveWith("WRITER")
         /\ slot[h].op \in {"MANAGER_APPROVE", "MARK_SUBMITTED"} =>
              slot[h].user \in ActiveWith("MANAGER")
         /\ slot[h].op = "ASSIGN_WRITER" => slot[h].target \in ActiveWith("WRITER")
<1>1. slot[h].pc = "commit"
  BY CommitsAtCommit
<1>2. slot[h].user \in Users /\ StillEntitled(slot[h])
  BY <1>1 DEF IInv, SlotInv, Served, HeldInv
<1>3. /\ slot[h].op \in {"CREATE", "REVIEW_START"} => RouteRoles(slot[h].op) = {"QA"}
      /\ slot[h].op = "SUBMIT_FOR_APPROVAL" => RouteRoles(slot[h].op) = {"WRITER"}
      /\ slot[h].op \in {"MANAGER_APPROVE", "MARK_SUBMITTED"} =>
           RouteRoles(slot[h].op) = {"MANAGER"}
  BY DEF RouteRoles
<1> QED
  BY <1>1, <1>2, <1>3 DEF StillEntitled, ActiveWith

\* After the transaction of a workflow action the right role holds the tender.
LEMMA WorkflowIsHeld ==
  ASSUME IInv, InTurnInv, HeldInv, NEW h \in Handlers, Commit(h), slot[h].op \in WorkflowAction
  PROVE  HeldByTheRightRole' /\ SubmittersWrite'
<1> DEFINE op == slot[h].op
<1>1. /\ resolveTransition(op, tender.status, slot[h].role, tender'.status)
      /\ UNCHANGED account
  BY WorkflowCommit
<1>2. ActiveWith("QA")' = ActiveWith("QA") /\ ActiveWith("WRITER")' = ActiveWith("WRITER")
      /\ ActiveWith("MANAGER")' = ActiveWith("MANAGER")
  BY <1>1 DEF ActiveWith
<1>3. SubmittersWrite'
  <2>1. PICK e \in HistoryRow : history' = Append(history, e) /\ e.to = tender'.status
                                /\ e.by = slot[h].user
    BY WorkflowCommit
  <2>2. e.to = "PENDING_APPROVAL" => e.by \in ActiveWith("WRITER")
    BY <1>1, <2>1, ResolvedMove, CommitterIsEntitled DEF WorkflowAction
  <2> QED
    BY <1>2, <2>1, <2>2, AppendFacts DEF IInv, TypeOK, HeldInv, SubmittersWrite
<1> SUFFICES HeldByTheRightRole'
  BY <1>3
<1>4. CASE op = "REVIEW_START"
  BY <1>1, <1>2, <1>4, WorkflowCommit, ResolvedMove, CommitterIsEntitled DEF HeldByTheRightRole
<1>5. CASE op = "REVIEW_REJECT"
  BY <1>1, <1>5, WorkflowCommit, ResolvedMove DEF HeldByTheRightRole
<1>6. CASE op = "ASSIGN_WRITER"
  BY <1>1, <1>2, <1>6, WorkflowCommit, ResolvedMove, CommitterIsEntitled DEF HeldByTheRightRole
<1>7. CASE op = "SUBMIT_FOR_APPROVAL"
  BY <1>1, <1>7, WorkflowCommit, ResolvedMove DEF HeldByTheRightRole
<1>8. CASE op = "MANAGER_RETURN"
  <2>1. LastSubmitter \in Users /\ tender'.assignee = LastSubmitter
    BY <1>8, WorkflowCommit
  <2>2. LastSubmitter \in ActiveWith("WRITER")
    BY <2>1, SubmitterSent, UsersAssumption DEF IInv, RowsInv, HeldInv, SubmittersWrite
  <2> QED
    BY <1>1, <1>2, <1>8, <2>1, <2>2, ResolvedMove DEF HeldByTheRightRole
<1>9. CASE op = "MANAGER_STOP"
  BY <1>1, <1>9, WorkflowCommit, ResolvedMove DEF HeldByTheRightRole
<1>10. CASE op = "MARK_SUBMITTED"
  BY <1>1, <1>2, <1>10, WorkflowCommit, ResolvedMove, CommitterIsEntitled DEF HeldByTheRightRole
<1>11. CASE op \in {"RESULT_WON", "RESULT_LOST"}
  <2>1. tender.status = "SUBMITTED" /\ tender'.status \in {"WON", "LOST"}
    BY <1>1, <1>11, ResolvedFrom, ResolvedMove
  <2>2. tender'.assignee = tender.assignee
    BY <1>11, WorkflowCommit
  <2> QED
    BY <1>2, <2>1, <2>2 DEF HeldInv, HeldByTheRightRole
<1> QED
  BY <1>4, <1>5, <1>6, <1>7, <1>8, <1>9, <1>10, <1>11 DEF WorkflowAction

\* So it does after the other ones.
LEMMA OthersAreHeld ==
  ASSUME IInv, InTurnInv, HeldInv, NEW h \in Handlers, Commit(h), slot[h].op \notin WorkflowAction
  PROVE  HeldByTheRightRole' /\ SubmittersWrite'
<1>1. UNCHANGED account
  BY OtherCommit
<1>2. ActiveWith("QA")' = ActiveWith("QA") /\ ActiveWith("WRITER")' = ActiveWith("WRITER")
      /\ ActiveWith("MANAGER")' = ActiveWith("MANAGER")
  BY <1>1 DEF ActiveWith
<1>3. CASE slot[h].op = "CREATE"
  <2>1. tender'.status = "NEW" /\ tender'.assignee = slot[h].user
    BY <1>3, OtherCommit
  <2>2. PICK e \in HistoryRow : history' = Append(history, e) /\ e.to = "NEW"
    BY <1>3, OtherCommit
  <2>3. HeldByTheRightRole'
    BY <1>2, <1>3, <2>1, CommitterIsEntitled DEF HeldByTheRightRole
  <2> QED
    BY <1>2, <2>2, <2>3, AppendFacts DEF IInv, TypeOK, HeldInv, SubmittersWrite
<1>4. CASE slot[h].op # "CREATE"
  <2>1. UNCHANGED history /\ tender'.status = tender.status
        /\ \/ tender'.assignee = tender.assignee /\ tender'.approvedAt = tender.approvedAt
           \/ /\ slot[h].op = "MANAGER_APPROVE" /\ tender.status = "PENDING_APPROVAL"
              /\ tender'.approvedAt # 0 /\ tender'.assignee = slot[h].user
    BY <1>4, OtherCommit
  <2>2. SubmittersWrite'
    BY <1>2, <2>1 DEF HeldInv, SubmittersWrite, Rows
  <2>3. HeldByTheRightRole'
    BY <1>2, <2>1, CommitterIsEntitled DEF HeldInv, HeldByTheRightRole
  <2> QED
    BY <2>2, <2>3
<1> QED
  BY <1>3, <1>4

\* While decisions are taken in turn and no account changes, every step
\* preserves the invariant.
LEMMA HeldStep ==
  IInv /\ InTurnInv /\ HeldInv /\ [Next]_vars /\ UNCHANGED account => HeldInv'
<1> SUFFICES ASSUME IInv, InTurnInv, HeldInv, [Next]_vars, UNCHANGED account PROVE HeldInv'
  OBVIOUS
<1>0. TypeOK
  BY DEF IInv
<1>1. ASSUME NEW h \in Handlers, NEW op \in Offered, NEW u \in Users, NEW w \in UserOrNull,
             Begin(h, op, u, w)
      PROVE  HeldInv'
  <2> DEFINE r == [Idle EXCEPT !.pc = IF op = "CREATE" THEN "commit" ELSE "auth",
                               !.op = op, !.user = u, !.role = account[u].role, !.target = w]
  <2>1. r \in Request
    BY <1>0, BoundsAssumption DEF TypeOK, Idle, Request, Step, StatusOrAbsent, UserOrNull
  <2>2. StillEntitled(r)
    BY <1>1 DEF Begin, StillEntitled, Idle
  <2>3. slot' = [slot EXCEPT ![h] = r] /\ UNCHANGED <<tender, history, account>>
    BY <1>1 DEF Begin
  <2> QED
    BY <1>0, <2>1, <2>2, <2>3, HeldMoveOn
<1>2. ASSUME NEW h \in Handlers, Read(h) PROVE HeldInv'
  <2>1. PICK to \in TENDER_STATUSES :
          slot' = [slot EXCEPT ![h].pc = AfterRead(slot[h].op), ![h].from = tender.status,
                               ![h].to = to, ![h].round = Len(history)]
    BY <1>2 DEF Read
  <2> DEFINE r == [slot[h] EXCEPT !.pc = AfterRead(slot[h].op), !.from = tender.status,
                                  !.to = to, !.round = Len(history)]
  <2>2. slot[h] \in Request /\ slot[h].pc = "auth" /\ StillEntitled(slot[h])
        /\ slot' = [slot EXCEPT ![h] = r] /\ UNCHANGED <<tender, history, account>>
    BY <1>0, <1>2, <2>1 DEF Read, TypeOK, HeldInv
  <2>3. /\ AfterRead(slot[h].op) \in Step
        /\ slot[h].op = "ASSIGN_WRITER" => AfterRead(slot[h].op) = "checklist"
    BY DEF AfterRead, Step
  <2>4. tender.status \in StatusOrAbsent /\ Len(history) \in Nat /\ to \in StatusOrAbsent
    BY <1>0, <2>1 DEF TypeOK, Tender, StatusOrAbsent
  <2>5. r \in Request /\ StillEntitled(r)
    BY <2>2, <2>3, <2>4 DEF Request, StillEntitled
  <2> QED
    BY <1>0, <2>2, <2>5, HeldMoveOn
<1>3. ASSUME NEW h \in Handlers, CheckChecklist(h) PROVE HeldInv'
  <2> DEFINE r == [slot[h] EXCEPT !.pc = IF slot[h].op = "ASSIGN_WRITER" THEN "writer" ELSE "commit"]
  <2>1. slot[h] \in Request /\ StillEntitled(slot[h]) /\ slot[h].pc = "checklist"
    BY <1>0, <1>3 DEF CheckChecklist, TypeOK, HeldInv
  <2>2. r \in Request /\ StillEntitled(r)
    BY <2>1 DEF Request, Step, StillEntitled
  <2>3. slot' = [slot EXCEPT ![h] = r] /\ UNCHANGED <<tender, history, account>>
    BY <1>3 DEF CheckChecklist
  <2> QED
    BY <1>0, <2>2, <2>3, HeldMoveOn
<1>4. ASSUME NEW h \in Handlers, CheckWriter(h) PROVE HeldInv'
  <2> DEFINE r == [slot[h] EXCEPT !.pc = "commit"]
  <2>1. slot[h] \in Request /\ StillEntitled(slot[h]) /\ slot[h].pc = "writer"
        /\ slot[h].target \in ActiveWith("WRITER")
    BY <1>0, <1>4 DEF CheckWriter, isActiveWriter, TypeOK, HeldInv
  <2>2. r \in Request /\ StillEntitled(r)
    BY <2>1 DEF Request, Step, StillEntitled
  <2>3. slot' = [slot EXCEPT ![h] = r] /\ UNCHANGED <<tender, history, account>>
    BY <1>4 DEF CheckWriter
  <2> QED
    BY <1>0, <2>2, <2>3, HeldMoveOn
<1>5. ASSUME NEW h \in Handlers, FindLastSubmit(h) PROVE HeldInv'
  <2> DEFINE r == [slot[h] EXCEPT !.pc = "commit", !.target = LastSubmitter]
  <2>1. slot[h] \in Request /\ StillEntitled(slot[h]) /\ slot[h].pc = "lastSubmit"
        /\ slot[h].op = "MANAGER_RETURN"
    BY <1>0, <1>5 DEF FindLastSubmit, TypeOK, HeldInv, IInv, SlotInv, KnowsWhom
  <2>2. LastSubmitter \in UserOrNull
    BY <1>0, LastSubmitterType DEF TypeOK, IInv, RowsInv
  <2>3. r \in Request /\ StillEntitled(r)
    BY <2>1, <2>2 DEF Request, Step, StillEntitled
  <2>4. slot' = [slot EXCEPT ![h] = r] /\ UNCHANGED <<tender, history, account>>
    BY <1>5 DEF FindLastSubmit
  <2> QED
    BY <1>0, <2>3, <2>4, HeldMoveOn
<1>6. ASSUME NEW h \in Handlers, Refuse(h) \/ Crash(h) PROVE HeldInv'
  <2>1. StillEntitled(Idle)
    BY DEF StillEntitled, Idle
  <2>2. slot' = [slot EXCEPT ![h] = Idle] /\ UNCHANGED <<tender, history, account>>
    BY <1>6 DEF Refuse, Crash
  <2> QED
    BY <1>0, <2>1, <2>2, IdleIsRequest, HeldMoveOn
<1>7. ASSUME NEW h \in Handlers, Commit(h) PROVE HeldInv'
  <2>1. HeldByTheRightRole' /\ SubmittersWrite'
    BY <1>7, WorkflowIsHeld, OthersAreHeld
  <2>2. PICK r \in Request :
          /\ slot' = [slot EXCEPT ![h] = r]
          /\ r.pc \in {"idle", "recipients", "deliver"}
          /\ r.pc # "idle" => r.user = slot[h].user /\ r.op = slot[h].op
    BY <1>7, CommitSlot
  <2>3. slot[h].pc # "idle"
    BY <1>7, CommitsAtCommit
  <2>4. ASSUME NEW g \in Handlers PROVE StillEntitled(slot[g])'
    <3>1. slot'[g] = IF g = h THEN r ELSE slot[g]
      BY <1>0, <2>2 DEF TypeOK
    <3>2. ActiveWith("WRITER")' = ActiveWith("WRITER")
      BY DEF ActiveWith
    <3> QED
      BY <2>2, <2>3, <3>1, <3>2 DEF HeldInv, StillEntitled
  <2> QED
    BY <2>1, <2>4 DEF HeldInv
<1>8. ASSUME NEW h \in Handlers, FindRecipients(h) \/ Deliver(h) PROVE HeldInv'
  <2>1. PICK todo \in SUBSET Users : Notify(h, todo, slot[h].row)
    <3>1. CASE FindRecipients(h)
      <4>1. slot[h] \in Request
        BY <1>0 DEF TypeOK
      <4> QED
        BY <1>0, <3>1, <4>1, RecipientsType DEF FindRecipients, IInv, RowsInv
    <3>2. CASE Deliver(h)
      <4>1. slot[h].todo \in SUBSET Users
        BY <1>0 DEF TypeOK, Request
      <4> QED
        BY <3>2, <4>1 DEF Deliver
    <3> QED
      BY <1>8, <3>1, <3>2
  <2>2. slot[h].row \in Nat
    BY <1>0 DEF TypeOK, Request
  <2>3. PICK r \in Request :
          /\ slot' = [slot EXCEPT ![h] = r]
          /\ \/ r = Idle
             \/ r.pc = "deliver" /\ r.op = slot[h].op /\ r.user = slot[h].user
    BY <1>0, <2>1, <2>2, NotifySlot
  <2>4. slot[h].pc # "idle" /\ StillEntitled(slot[h]) /\ UNCHANGED <<tender, history, account>>
    BY <1>8 DEF FindRecipients, Deliver, HeldInv
  <2>5. StillEntitled(r)
    BY <2>3, <2>4 DEF StillEntitled, Idle
  <2> QED
    BY <1>0, <2>3, <2>4, <2>5, HeldMoveOn
<1>9. ASSUME NEW h \in Handlers, Proceed(h) PROVE HeldInv'
  BY <1>2, <1>3, <1>4, <1>5, <1>6, <1>7, <1>8, <1>9 DEF Proceed
<1>10. ASSUME UNCHANGED <<tender, history, account, slot>> PROVE HeldInv'
  BY <1>10 DEF HeldInv, HeldByTheRightRole, SubmittersWrite, StillEntitled, ActiveWith, Rows
<1>11. ASSUME NEW u \in Managed, NEW role \in NewRoles, NEW active \in BOOLEAN,
              PatchUser(u, role, active)
       PROVE  HeldInv'
  BY <1>10, <1>11 DEF PatchUser
<1>12. CASE UNCHANGED vars
  BY <1>10, <1>12 DEF vars
<1> QED
  BY <1>1, <1>6, <1>9, <1>11, <1>12 DEF Next

\* The empty database satisfies it.
LEMMA HeldInit == Init => HeldInv
  BY DEF Init, HeldInv, HeldByTheRightRole, SubmittersWrite, StillEntitled, Idle, Rows, Absent

-----------------------------------------------------------------------------
(* Decisions in turn: the steps of the life cycle *)

\* Only the transactions write the tender, its history and its checklist.
LEMMA OnlyCommitsWrite ==
  ASSUME [Next]_vars
  PROVE  UNCHANGED <<tender, history, checked>> \/ \E h \in Handlers : Commit(h)
<1>1. ASSUME NEW h \in Handlers, NEW op \in Offered, NEW u \in Users, NEW w \in UserOrNull,
             Begin(h, op, u, w)
      PROVE  UNCHANGED <<tender, history, checked>>
  BY <1>1 DEF Begin
<1>2. ASSUME NEW h \in Handlers, Proceed(h)
      PROVE  UNCHANGED <<tender, history, checked>> \/ Commit(h)
  BY <1>2 DEF Proceed, Read, CheckChecklist, CheckWriter, FindLastSubmit, Refuse,
              FindRecipients, Deliver
<1>3. ASSUME NEW h \in Handlers, Crash(h) PROVE UNCHANGED <<tender, history, checked>>
  BY <1>3 DEF Crash
<1>4. ASSUME NEW u \in Managed, NEW role \in NewRoles, NEW active \in BOOLEAN,
             PatchUser(u, role, active)
      PROVE  UNCHANGED <<tender, history, checked>>
  BY <1>4 DEF PatchUser
<1>5. CASE UNCHANGED vars
  BY <1>5 DEF vars
<1> QED
  BY <1>1, <1>2, <1>3, <1>4, <1>5 DEF Next

\* The life cycle moves along the same table.
LEMMA SameTable == Lifecycle!TRANSITIONS = TRANSITIONS
BY DEF Lifecycle!TRANSITIONS, TRANSITIONS, Lifecycle!Rule, Rule

\* What resolveTransition returned is a move of the life cycle.
LEMMA ResolvedIsMove ==
  ASSUME NEW action, NEW role, resolveTransition(action, tender.status, role, tender'.status)
  PROVE  Lifecycle!Move(action)
BY SameTable DEF resolveTransition, Lifecycle!Move

\* The transaction of a workflow action is the step of the life cycle by its name.
LEMMA WorkflowIsLifeStep ==
  ASSUME IInv, InTurnInv, NEW h \in Handlers, Commit(h), slot[h].op \in WorkflowAction
  PROVE  Lifecycle!LifeNext
<1> DEFINE op == slot[h].op
           author == LastSubmitter
           ready == isChecklistComplete
<1>0. history \in Seq(HistoryRow) /\ NewestSubmission /\ tender \in Tender
  BY DEF IInv, TypeOK, RowsInv
<1>1. resolveTransition(op, tender.status, slot[h].role, tender'.status)
  BY WorkflowCommit
<1>2. Lifecycle!Move(op)
  BY <1>1, ResolvedIsMove
<1>3. PICK e \in HistoryRow : /\ history' = Append(history, e)
                              /\ e.to = tender'.status
                              /\ e.by = slot[h].user
  BY WorkflowCommit
<1>4. op # "SUBMIT_FOR_APPROVAL" => author' = author
  <2>1. op # "SUBMIT_FOR_APPROVAL" => e.to # "PENDING_APPROVAL"
    BY <1>1, <1>3, ResolvedMove DEF WorkflowAction
  <2> QED
    BY <1>0, <1>3, <2>1, SubmitterOfOtherRow
<1>5. op = "SUBMIT_FOR_APPROVAL" => author' = slot[h].user
  <2>1. op = "SUBMIT_FOR_APPROVAL" => e.to = "PENDING_APPROVAL"
    BY <1>1, <1>3, ResolvedMove
  <2> QED
    BY <1>0, <1>3, <2>1, SubmitterOfSubmission
<1>6. ready' = ready
  BY WorkflowCommit DEF isChecklistComplete
<1>7. slot[h].user \in Users
  BY WorkflowCommit
<1> HIDE DEF author, ready
<1>8. CASE op = "REVIEW_START"
  <2>1. tender'.assignee = slot[h].user /\ tender'.approvedAt = tender.approvedAt
    BY <1>8, WorkflowCommit
  <2>2. Lifecycle!StartReview(slot[h].user)
    BY <1>2, <1>4, <1>6, <1>8, <2>1 DEF Lifecycle!StartReview, author, ready
  <2> QED
    BY <1>7, <2>2 DEF Lifecycle!LifeNext
<1>9. CASE op = "REVIEW_REJECT"
  <2>1. tender'.assignee = NoUser /\ tender'.approvedAt = tender.approvedAt
    BY <1>9, WorkflowCommit
  <2>2. Lifecycle!Reject
    BY <1>2, <1>4, <1>6, <1>9, <2>1 DEF Lifecycle!Reject, author, ready
  <2> QED
    BY <2>2 DEF Lifecycle!LifeNext
<1>10. CASE op = "ASSIGN_WRITER"
  <2>1. /\ tender'.assignee = slot[h].target /\ tender'.approvedAt = tender.approvedAt
        /\ slot[h].target \in Users /\ isChecklistComplete
    BY <1>10, WorkflowCommit
  <2>2. Lifecycle!Assign(slot[h].target)
    BY <1>2, <1>4, <1>6, <1>10, <2>1 DEF Lifecycle!Assign, author, ready
  <2> QED
    BY <2>1, <2>2 DEF Lifecycle!LifeNext
<1>11. CASE op = "SUBMIT_FOR_APPROVAL"
  <2>1. tender.assignee = slot[h].user /\ tender'.assignee = NoUser /\ tender'.approvedAt = 0
    BY <1>11, WorkflowCommit
  <2>2. Lifecycle!Submit
    BY <1>2, <1>5, <1>6, <1>11, <2>1 DEF Lifecycle!Submit, author, ready
  <2> QED
    BY <2>2 DEF Lifecycle!LifeNext
<1>12. CASE op = "MANAGER_RETURN"
  <2>1. tender'.assignee = LastSubmitter /\ tender'.approvedAt = 0
    BY <1>12, WorkflowCommit
  <2>2. Lifecycle!Return
    BY <1>2, <1>4, <1>6, <1>12, <2>1 DEF Lifecycle!Return, author, ready
  <2> QED
    BY <2>2 DEF Lifecycle!LifeNext
<1>13. CASE op = "MANAGER_STOP"
  <2>1. tender'.assignee = NoUser /\ tender'.approvedAt = 0
    BY <1>13, WorkflowCommit
  <2>2. Lifecycle!Stop
    BY <1>2, <1>4, <1>6, <1>13, <2>1 DEF Lifecycle!Stop, author, ready
  <2> QED
    BY <2>2 DEF Lifecycle!LifeNext
<1>14. CASE op = "MARK_SUBMITTED"
  <2>1. /\ tender'.assignee = slot[h].user /\ tender'.approvedAt = tender.approvedAt
        /\ tender.approvedAt # 0
    BY <1>14, WorkflowCommit
  <2>2. Lifecycle!MarkSubmitted(slot[h].user)
    BY <1>2, <1>4, <1>6, <1>14, <2>1 DEF Lifecycle!MarkSubmitted, author, ready
  <2> QED
    BY <1>7, <2>2 DEF Lifecycle!LifeNext
<1>15. CASE op \in {"RESULT_WON", "RESULT_LOST"}
  <2>1. tender'.assignee = tender.assignee /\ tender'.approvedAt = tender.approvedAt
    BY <1>15, WorkflowCommit
  <2>2. Lifecycle!RecordResult
    BY <1>2, <1>4, <1>6, <1>15, <2>1 DEF Lifecycle!RecordResult, author, ready
  <2> QED
    BY <2>2 DEF Lifecycle!LifeNext
<1> QED
  BY <1>8, <1>9, <1>10, <1>11, <1>12, <1>13, <1>14, <1>15 DEF WorkflowAction

\* The other transactions are creation, the manager's approval and the
\* checklist, or do not show.
LEMMA OthersAreLifeSteps ==
  ASSUME IInv, InTurnInv, NEW h \in Handlers, Commit(h), slot[h].op \notin WorkflowAction
  PROVE  [Lifecycle!LifeNext]_(Lifecycle!lifeVars)
<1> DEFINE author == LastSubmitter
           ready == isChecklistComplete
<1>0. history \in Seq(HistoryRow) /\ NewestSubmission
  BY DEF IInv, TypeOK, RowsInv
<1>1. history' = history => author' = author
  BY SubmitterStays
<1>2. checked' = checked => ready' = ready
  BY DEF isChecklistComplete
<1>3. ready' \in BOOLEAN
  BY DEF isChecklistComplete
<1> HIDE DEF author, ready
<1>4. CASE slot[h].op = "CREATE"
  <2>1. /\ slot[h].user \in Users /\ tender.status = Absent /\ tender'.status = "NEW"
        /\ tender'.assignee = slot[h].user /\ tender'.approvedAt = tender.approvedAt
        /\ UNCHANGED checked
    BY <1>4, OtherCommit
  <2>2. PICK e \in HistoryRow : history' = Append(history, e) /\ e.to = "NEW"
    BY <1>4, OtherCommit
  <2>3. author' = author
    BY <1>0, <2>2, SubmitterOfOtherRow DEF author
  <2>4. Lifecycle!Create(slot[h].user)
    BY <1>2, <2>1, <2>3 DEF Lifecycle!Create, Lifecycle!Absent, Absent, author, ready
  <2> QED
    BY <2>1, <2>4 DEF Lifecycle!LifeNext
<1>5. CASE slot[h].op = "MANAGER_APPROVE"
  <2>1. /\ slot[h].user \in Users /\ tender.status = "PENDING_APPROVAL"
        /\ tender'.status = tender.status /\ tender'.assignee = slot[h].user
        /\ tender'.approvedAt # 0 /\ UNCHANGED <<history, checked>>
    BY <1>5, OtherCommit
  <2>2. Lifecycle!Approve(slot[h].user)
    BY <1>1, <1>2, <2>1 DEF Lifecycle!Approve, author, ready
  <2> QED
    BY <2>1, <2>2 DEF Lifecycle!LifeNext
<1>6. CASE slot[h].op = "SAVE_CHECKLIST"
  <2>1. UNCHANGED <<tender, history>>
    BY <1>6, OtherCommit
  <2>2. Lifecycle!FillChecklist
    BY <1>1, <1>3, <2>1 DEF Lifecycle!FillChecklist, author, ready
  <2> QED
    BY <2>2 DEF Lifecycle!LifeNext
<1>7. CASE slot[h].op \in {"EDIT", "REVIEW_APPROVE"}
  <2>1. /\ tender'.status = tender.status /\ tender'.assignee = tender.assignee
        /\ tender'.approvedAt = tender.approvedAt /\ UNCHANGED <<history, checked>>
    BY <1>7, OtherCommit
  <2> QED
    BY <1>1, <1>2, <2>1 DEF Lifecycle!lifeVars, author, ready
<1> QED
  BY <1>4, <1>5, <1>6, <1>7, OtherCommit

\* The empty database is the life cycle's first state.
LEMMA LifeStarts == Init => Lifecycle!LifeInit
<1> SUFFICES ASSUME Init PROVE Lifecycle!LifeInit
  OBVIOUS
<1>1. LastSubmitter = NoUser
  BY DEF Init, LastSubmitter
<1>2. isChecklistComplete \in BOOLEAN
  BY DEF isChecklistComplete
<1> QED
  BY <1>1, <1>2 DEF Init, Lifecycle!LifeInit, Lifecycle!Absent, Absent

\* Every step of the handlers is a step of the life cycle or does not show.
LEMMA LifeStep ==
  IInv /\ InTurnInv /\ [Next]_vars => [Lifecycle!LifeNext]_(Lifecycle!lifeVars)
<1> SUFFICES ASSUME IInv, InTurnInv, [Next]_vars
             PROVE  [Lifecycle!LifeNext]_(Lifecycle!lifeVars)
  OBVIOUS
<1>1. CASE UNCHANGED <<tender, history, checked>>
  <2>1. LastSubmitter' = LastSubmitter /\ isChecklistComplete' = isChecklistComplete
    BY <1>1, SubmitterStays DEF isChecklistComplete
  <2> QED
    BY <1>1, <2>1 DEF Lifecycle!lifeVars
<1>2. CASE \E h \in Handlers : Commit(h)
  BY <1>2, WorkflowIsLifeStep, OthersAreLifeSteps
<1> QED
  BY <1>1, <1>2, OnlyCommitsWrite

\* No step changes the data of a tender that is locked.
LEMMA LockStep ==
  IInv /\ InTurnInv /\ [Next]_vars =>
    (tender.data' # tender.data => isTenderEditable(tender.status))
<1> SUFFICES ASSUME IInv, InTurnInv, [Next]_vars, tender'.data # tender.data
             PROVE  isTenderEditable(tender.status)
  OBVIOUS
<1>1. PICK h \in Handlers : Commit(h)
  BY OnlyCommitsWrite
<1> QED
  BY <1>1, WorkflowCommit, OtherCommit

\* Every step that changes the status is a move of the table.
LEMMA StatusStep ==
  IInv /\ InTurnInv /\ [Next]_vars =>
    (tender.status' # tender.status =>
       \/ tender.status = Absent /\ tender.status' = "NEW"
       \/ InTable(tender.status, tender.status'))
<1> SUFFICES ASSUME IInv, InTurnInv, [Next]_vars, tender'.status # tender.status
             PROVE  \/ tender.status = Absent /\ tender'.status = "NEW"
                    \/ InTable(tender.status, tender'.status)
  OBVIOUS
<1>1. PICK h \in Handlers : Commit(h)
  BY OnlyCommitsWrite
<1>2. CASE slot[h].op \in WorkflowAction
  <2>1. resolveTransition(slot[h].op, tender.status, slot[h].role, tender'.status)
    BY <1>1, <1>2, WorkflowCommit
  <2> QED
    BY <2>1 DEF resolveTransition, InTable
<1>3. CASE slot[h].op \notin WorkflowAction
  BY <1>1, <1>3, OtherCommit
<1> QED
  BY <1>2, <1>3
-----------------------------------------------------------------------------
(* The theorems about decisions in turn *)

\* When the decisions on a tender do not overlap, what a handler has read is
\* still so when it commits.
THEOREM InTurnInvariance == Spec /\ []DecisionsInTurn => []InTurnInv
<1> QED
  BY Invariance, InTurnInit, InTurnStep, PTL DEF Spec

\* Then the rows of the history chain: each moves from where the last one led.
THEOREM HistoryIsAChain == Spec /\ []DecisionsInTurn => []HistoryChains
<1>1. InTurnInv => HistoryChains
  BY DEF InTurnInv
<1> QED
  BY <1>1, InTurnInvariance, PTL

\* Then the approval on the row is of the very submission that is pending, was
\* submitted or got its result (BR-004 in full).
THEOREM ApprovalBelongs == Spec /\ []DecisionsInTurn => []ApprovalIsOfThisSubmission
<1>1. InTurnInv => ApprovalIsOfThisSubmission
  BY DEF InTurnInv
<1> QED
  BY <1>1, InTurnInvariance, PTL

\* Then the handlers implement the atomic life cycle.
THEOREM HandlersImplementLifecycle == Spec /\ []DecisionsInTurn => ImplementsLifecycle
<1> QED
  BY Invariance, InTurnInvariance, LifeStarts, LifeStep, PTL
     DEF Spec, ImplementsLifecycle, Lifecycle!LifeSpec

\* Then the fields of a submitted or closed tender do not change (ACT-02).
THEOREM LockedFieldsStay == Spec /\ []DecisionsInTurn => EditsRespectLock
<1>1. IInv /\ InTurnInv /\ [Next]_vars =>
        [tender.data' # tender.data => isTenderEditable(tender.status)]_vars
  BY LockStep
<1> QED
  BY <1>1, Invariance, InTurnInvariance, PTL DEF Spec, EditsRespectLock

\* Then the status of a tender only ever moves along the table, which is what
\* overlapping decisions break.
THEOREM StatusMovesAlongTable == Spec /\ []DecisionsInTurn => MandatoryStatusModel
<1>1. IInv /\ InTurnInv /\ [Next]_vars =>
        [tender.status' # tender.status =>
           \/ tender.status = Absent /\ tender.status' = "NEW"
           \/ InTable(tender.status, tender.status')]_vars
  BY StatusStep
<1> QED
  BY <1>1, Invariance, InTurnInvariance, PTL DEF Spec, MandatoryStatusModel

\* If no account changes either, the role that can take the tender further holds it.
THEOREM RightRoleHolds ==
  Spec /\ []DecisionsInTurn /\ AccountsStay => []HeldByTheRightRole
<1>1. HeldInv => HeldByTheRightRole
  BY DEF HeldInv
<1>2. [UNCHANGED account]_vars => UNCHANGED account
  BY DEF vars
<1>3. IInv /\ InTurnInv /\ HeldInv /\ [Next]_vars /\ [UNCHANGED account]_vars => HeldInv'
  BY <1>2, HeldStep
<1> QED
  BY <1>1, <1>3, Invariance, InTurnInvariance, HeldInit, PTL DEF Spec, AccountsStay

\* An instance that serves one request at a time takes its decisions in turn.
THEOREM OneAtATime ==
  ASSUME \A g, h \in Handlers : g = h
  PROVE  Spec => []DecisionsInTurn
<1>1. DecisionsInTurn
  BY DEF DecisionsInTurn
<1> QED
  BY <1>1, PTL

\* One whose accounts nobody manages keeps them.
THEOREM UnmanagedAccountsStay ==
  ASSUME Managed = {}
  PROVE  Spec => AccountsStay
<1>1. ASSUME [Next]_vars PROVE UNCHANGED account
  <2>1. ASSUME NEW h \in Handlers, NEW op \in Offered, NEW u \in Users, NEW w \in UserOrNull,
               Begin(h, op, u, w)
        PROVE  UNCHANGED account
    BY <2>1 DEF Begin
  <2>2. ASSUME NEW h \in Handlers, Commit(h) PROVE UNCHANGED account
    BY <2>2 DEF Commit, CreateTender, StartReview, SaveChecklist, ApproveReview, RejectInReview,
       AssignWriter, SubmitForApproval, ManagerApprove, ReturnToWriter, ManagerStop,
       MarkSubmitted, RecordResult, EditTender, recordStatusChange
  <2>3. ASSUME NEW h \in Handlers, Proceed(h) PROVE UNCHANGED account
    BY <2>2, <2>3 DEF Proceed, Read, CheckChecklist, CheckWriter, FindLastSubmit, Refuse,
       FindRecipients, Deliver
  <2>4. ASSUME NEW h \in Handlers, Crash(h) PROVE UNCHANGED account
    BY <2>4 DEF Crash
  <2>5. CASE UNCHANGED vars
    BY <2>5 DEF vars
  <2> QED
    BY <1>1, <2>1, <2>3, <2>4, <2>5 DEF Next
<1> QED
  BY <1>1, PTL DEF Spec, AccountsStay
=============================================================================
