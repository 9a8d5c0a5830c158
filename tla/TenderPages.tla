---------------------------- MODULE TenderPages ----------------------------
(***************************************************************************)
(* A browser tab of the web client on the page of one tender, and the API  *)
(* behind it: TenderDetailsPage.tsx with ActionsBar.tsx and ReviewTab.tsx, *)
(* and the edit form of TenderFormPage.tsx.  The API is TenderLifecycle,   *)
(* which TenderHandlers implements; everybody else calls it meanwhile.     *)
(* Fetches and mutations take their time, and their answers may be lost.   *)
(***************************************************************************)
EXTENDS TenderLifecycle, PageOffers, QueryCache, Naturals

CONSTANTS
  Staff,     \* [Users -> Role], which nobody changes meanwhile
  Write,     \* slots: the mutations of the tab that can be under way together
  acked,     \* in `misses`, a write the tab knows to be done
  slipped,   \* one it heard of off the page, with a fetch from before under way
  MaxOthers  \* bound on what others do to the tender once the tab is in use

ASSUME UsersAssumption == NoUser \notin Users /\ Staff \in [Users -> Role]
ASSUME WriteAssumption ==
  /\ Write # {} /\ MaxOthers \in Nat
  /\ acked \notin Write /\ slipped \notin Write /\ acked # slipped

VARIABLES
  me,       \* the user signed in
  page,     \* where he is; "review" is the page of the tender with that tab open
  entry,    \* the query cache
  items,    \* ReviewTab's ticks: "none" before there are any, "some" or "all"
  dialog,   \* the dialog that is open, named for the operation it confirms
  mutation, \* what each slot sent
  others    \* how often others have changed the tender since the tab is in use

lifecycle == <<status, owner, approved, author, ready>>
local == <<page, items, dialog>>
vars == <<lifecycle, me, local, entry, mutation, others>>

Query == {"tender", "checklist"}

\* The queries a page mounts.
Mounts(p) ==
  CASE p = "review" -> {"tender", "checklist"}
    [] p \in {"details", "edit"} -> {"tender"}
    [] OTHER -> {}

Dialogs == {"ASSIGN_WRITER", "MANAGER_RETURN", "MANAGER_STOP", "REVIEW_REJECT"}

Row == [status |-> status, owner |-> owner, approved |-> approved]
Rows == [status : StatusOrAbsent, owner : Users \cup {NoUser}, approved : BOOLEAN]
Ticks == {"some", "all"}

\* The data the API reads for a query.
Now(q) == IF q = "tender" THEN Row ELSE IF ready THEN "all" ELSE "some"

\* "sent", then "committed" or "refused"; an approval of the review saves the
\* checklist first and is "saved" in between.  `here`: the component that sent
\* it is still on the page, and knows that it waits.
Mutation ==
  [stage : {"idle", "sent", "saved", "committed", "refused"}, op : PageOps,
   ticks : Ticks, here : BOOLEAN]

Idle == [stage |-> "idle", op |-> "EDIT", ticks |-> "some", here |-> FALSE]

Data(q) == IF q = "tender" THEN Rows ELSE Ticks
Misses == SUBSET (Write \cup {acked, slipped})

EntryOK(e, q) ==
  /\ e.data \in Data(q) \cup {Missing}
  /\ e.answer \in Data(q) \cup {Missing}
  /\ e.failed \in BOOLEAN
  /\ e.misses \in Misses

TypeOK ==
  /\ me \in Users
  /\ page \in {"elsewhere", "details", "review", "edit"}
  /\ \A q \in Query : EntryOK(entry[q], q)
  /\ items \in Ticks \cup {"none"}
  /\ dialog \in Dialogs \cup {"none"}
  /\ mutation \in [Write -> Mutation]
  /\ others \in 0..MaxOthers

\* The tender has been created by a QA.
Init ==
  /\ status = "NEW"
  /\ owner \in {u \in Users : Staff[u] = "QA"}
  /\ approved = FALSE /\ author = NoUser /\ ready = FALSE
  /\ me \in Users
  /\ page = "elsewhere"
  /\ entry = [q \in Query |-> EmptyEntry]
  /\ items = "none"
  /\ dialog = "none"
  /\ mutation = [w \in Write |-> Idle]
  /\ others = 0
-----------------------------------------------------------------------------
(* The API *)

\* PUT /:id/checklist: the page sends every item.
Save(ticks) ==
  /\ ready' = (ticks = "all")
  /\ UNCHANGED <<status, owner, approved, author>>

\* What the operation of user u does; a writer is chosen from the active ones.
Effect(op, u, ticks) ==
  CASE op = "REVIEW_START" -> StartReview(u)
    [] op = "SAVE_CHECKLIST" -> Save(ticks)
    [] op = "REVIEW_REJECT" -> Reject
    [] op = "ASSIGN_WRITER" -> \E w \in {x \in Users : Staff[x] = "WRITER"} : Assign(w)
    [] op = "SUBMIT_FOR_APPROVAL" -> Submit
    [] op = "MANAGER_APPROVE" -> Approve(u)
    [] op = "MANAGER_RETURN" -> Return
    [] op = "MANAGER_STOP" -> Stop
    [] op = "MARK_SUBMITTED" -> MarkSubmitted(u)
    [] op \in {"RESULT_WON", "RESULT_LOST"} -> Move(op) /\ UNCHANGED <<owner, approved, author, ready>>
    [] OTHER -> UNCHANGED lifecycle

AdmitsNow(op, u) == Admits(op, u, Staff[u], Row, ready)

\* Which query's data the operation changes.
Changes(op) == IF op \in {"SAVE_CHECKLIST", "REVIEW_APPROVE"} THEN "checklist" ELSE "tender"

InUse == \E q \in Query : entry[q] # EmptyEntry

\* Other people's requests.
OthersAct ==
  /\ IF InUse THEN others < MaxOthers /\ others' = others + 1 ELSE UNCHANGED others
  /\ \E u \in Users, op \in PageOps \ {"REVIEW_APPROVE", "EDIT"} :
       /\ AdmitsNow(op, u)
       /\ \E ticks \in Ticks : Effect(op, u, ticks)
  /\ UNCHANGED <<me, local, entry, mutation>>

Committed(w, stage) ==
  /\ mutation' = [mutation EXCEPT ![w].stage = stage]
  /\ entry' = [entry EXCEPT ![Changes(mutation[w].op)] = CommittedAfter(@, w)]

Serve(w) ==
  LET m == mutation[w]
  IN /\ m.stage = "sent" /\ m.op # "REVIEW_APPROVE"
     /\ IF AdmitsNow(m.op, me)
        THEN Effect(m.op, me, m.ticks) /\ Committed(w, "committed")
        ELSE mutation' = [mutation EXCEPT ![w].stage = "refused"] /\ UNCHANGED <<lifecycle, entry>>
     /\ UNCHANGED <<others, me, local>>

\* The two calls of the review's approval; the decision changes no row.
ServeApproval(w) ==
  LET m == mutation[w]
  IN /\ m.op = "REVIEW_APPROVE"
     /\ \/ m.stage = "sent" /\ Save(m.ticks) /\ Committed(w, "saved")
        \/ /\ m.stage = "saved"
           /\ mutation' = [mutation EXCEPT ![w].stage =
                IF AdmitsNow("REVIEW_APPROVE", me) THEN "committed" ELSE "refused"]
           /\ UNCHANGED <<lifecycle, entry>>
     /\ UNCHANGED <<others, me, local>>
-----------------------------------------------------------------------------
(* Moving about, and the answers to fetches *)

OnTender(p) == p \in {"details", "review"}

\* Loading or an error takes the place of the page of the tender.
Shown == entry["tender"].data # Missing /\ ~entry["tender"].failed

Mounted(q) == q \in Mounts(page) /\ (q = "checklist" => Shown)

\* Fault: the effect takes undefined for the items.
ItemsUndefined(e) == e.data

ItemsOf(e) == IF e.data = Missing THEN "none" ELSE e.data

\* Components that are not on page `to` forget what they had; a mutation that
\* is under way goes on without them.
Leave(to) ==
  /\ dialog' = IF OnTender(to) /\ (dialog = "REVIEW_REJECT" => to = "review") THEN dialog ELSE "none"
  /\ mutation' = [w \in Write |->
       [mutation[w] EXCEPT !.here = /\ @
          /\ CASE mutation[w].op = "EDIT" -> to = "edit"
               [] mutation[w].op \in ReviewOps -> to = "review"
               [] OTHER -> OnTender(to)]]

\* Following a link or opening a tab of the page.  Only a tab finds the tender
\* mounted; the form asks for it anew, as the page does after the form.
Open(p) ==
  /\ p # page
  /\ p = "review" => page = "details" /\ Shown
  /\ p = "edit" => OnTender(page) /\ Shown /\ canEdit(Staff[me], entry["tender"].data)
  /\ page' = p
  /\ Leave(p)
  /\ items' = IF p = "review" THEN ItemsOf(entry["checklist"]) ELSE "none"
  /\ entry' = [q \in Query |->
       IF q \in Mounts(p) /\ ~(OnTender(page) /\ OnTender(p) /\ Mounted(q))
       THEN MountEntry(entry[q], Now(q)) ELSE entry[q]]
  /\ UNCHANGED <<lifecycle, others, me>>

\* The effect on [data]: data that changed replace the ticks.  Lists that are
\* equal here may differ there.
TicksAfter(old, new) ==
  IF page # "review" THEN {items} ELSE IF old = new THEN {items, new} ELSE {new}

ArriveChecklist ==
  LET e == entry["checklist"]
  IN /\ Fetching(e)
     /\ entry' = [entry EXCEPT !["checklist"] = Arrived(e)]
     /\ items' \in IF Mounted("checklist") THEN TicksAfter(e.data, e.answer) ELSE {items}
     /\ UNCHANGED <<lifecycle, others, me, page, dialog, mutation>>

\* After an error the review tab is mounted once more.
ArriveTender ==
  LET back == page = "review" /\ ~Shown
  IN /\ Fetching(entry["tender"])
     /\ entry' = [tender |-> Arrived(entry["tender"]),
                  checklist |-> IF back THEN MountEntry(entry["checklist"], Now("checklist")) ELSE entry["checklist"]]
     /\ items' = IF back THEN ItemsOf(entry["checklist"]) ELSE items
     /\ UNCHANGED <<lifecycle, others, me, page, dialog, mutation>>

FetchFails(q) ==
  /\ Fetching(entry[q])
  /\ entry' = [entry EXCEPT ![q] = FetchFailed(@)]
  /\ IF q = "tender" /\ OnTender(page)
     THEN Leave("elsewhere") /\ items' = "none"
     ELSE UNCHANGED <<items, dialog, mutation>>
  /\ UNCHANGED <<lifecycle, others, me, page>>
-----------------------------------------------------------------------------
(* Buttons and dialogs *)

\* ReviewTab shows its buttons when it has the checklist.
ReviewShown == page = "review" /\ entry["checklist"].data # Missing /\ ~entry["checklist"].failed

\* Does the page have the button, for the tender as it has it?
Button(op) ==
  /\ OnTender(page) /\ Shown
  /\ op # "EDIT" /\ Shows(op, me, Staff[me], entry["tender"].data)
  /\ op \in ReviewOps => ReviewShown

\* A dialog lies over the page.
Reachable(op) == Button(op) /\ dialog = "none"

\* The two results are one mutation.
Same(op1, op2) == op1 = op2 \/ {op1, op2} \subseteq {"RESULT_WON", "RESULT_LOST"}

isPending(op) ==
  \E w \in Write : mutation[w].stage # "idle" /\ mutation[w].here /\ Same(mutation[w].op, op)

Send(op, ticks) ==
  /\ ~isPending(op)
  /\ \E w \in Write :
       /\ mutation[w].stage = "idle"
       /\ mutation' = [mutation EXCEPT ![w] = [stage |-> "sent", op |-> op, ticks |-> ticks, here |-> TRUE]]
  /\ UNCHANGED <<lifecycle, others, me, local, entry>>

Tick ==
  /\ Reachable("SAVE_CHECKLIST") /\ items # "none"
  /\ items' \in Ticks
  /\ UNCHANGED <<lifecycle, others, me, page, dialog, entry, mutation>>

ClickSave == Reachable("SAVE_CHECKLIST") /\ items # "none" /\ Send("SAVE_CHECKLIST", items)

ClickApprove == Reachable("REVIEW_APPROVE") /\ items = "all" /\ Send("REVIEW_APPROVE", "all")

Click(op) == Reachable(op) /\ Send(op, "some")

OpenDialog(op) ==
  /\ Reachable(op)
  /\ dialog' = op
  /\ UNCHANGED <<lifecycle, others, me, page, items, entry, mutation>>

CloseDialog ==
  /\ dialog # "none"
  /\ dialog' = "none"
  /\ UNCHANGED <<lifecycle, others, me, page, items, entry, mutation>>

\* A dialog outlives the button that opened it: the bar stays for an error
\* without any button, and whether there was one is left open.
Confirm == Shown /\ dialog \in BarOps /\ Send(dialog, "some")

ConfirmReject ==
  /\ dialog = "REVIEW_REJECT" /\ ReviewShown /\ entry["tender"].data.status # "NEW"
  /\ Send("REVIEW_REJECT", "some")

\* The form is empty, and refused, before the tender has filled it; a change
\* of the status behind it is not seen.
FormFilled == page = "edit" /\ entry["tender"].data # Missing

SubmitForm == FormFilled /\ Send("EDIT", "some")
-----------------------------------------------------------------------------
(* The answers to mutations *)

\* Fault: the bar forgets the tender and refreshes the lists alone.
InvalidatedByListsOnly(op) == IF op \in ReviewOps THEN Query ELSE {}

\* What onSuccess invalidates, of the queries followed here.
InvalidatedBy(op) == IF op \in ReviewOps THEN Query ELSE {"tender"}

Settled(w) == mutation' = [mutation EXCEPT ![w] = Idle]

\* The queries after onSuccess.  A query that is not mounted is only marked
\* stale: nothing gives up the fetch it has under way, and the next mount makes
\* do with that one.
EntriesAfter(w) ==
  [q \in Query |->
     LET name  == IF Fetching(entry[q]) /\ ~Mounted(q) THEN slipped ELSE acked
         named == Renamed(entry[q], w, {name})
     IN IF q \in InvalidatedBy(mutation[w].op) /\ Mounted(q) THEN Invalidate(named, Now(q)) ELSE named]

\* onSuccess of the bar and of the tab: closeModal closes whatever dialog the
\* bar has open.
Succeed(w) ==
  LET m == mutation[w]
      closes == IF m.op = "REVIEW_REJECT" THEN {"REVIEW_REJECT"} ELSE Dialogs \ {"REVIEW_REJECT"}
  IN /\ m.stage = "committed" /\ m.op # "EDIT"
     /\ Settled(w)
     /\ entry' = EntriesAfter(w)
     /\ dialog' = IF m.here /\ m.op \in Dialogs /\ dialog \in closes THEN "none" ELSE dialog
     /\ UNCHANGED <<lifecycle, others, me, page, items>>

\* onSuccess of the form goes to the page of the tender, from wherever he is.
FormSucceeds(w) ==
  /\ mutation[w].stage = "committed" /\ mutation[w].op = "EDIT"
  /\ Settled(w)
  /\ page' = IF OnTender(page) THEN page ELSE "details"
  /\ entry' = IF OnTender(page) THEN EntriesAfter(w)
              ELSE [EntriesAfter(w) EXCEPT !["tender"] = MountEntry(@, Row)]
  /\ UNCHANGED <<lifecycle, others, me, items, dialog>>

\* onError: a message.  The API refused, or an answer was lost.
Fails(w) ==
  /\ mutation[w].stage # "idle"
  /\ Settled(w)
  /\ entry' = [q \in Query |-> Renamed(entry[q], w, {})]
  /\ UNCHANGED <<lifecycle, others, me, local>>
-----------------------------------------------------------------------------
Next ==
  \/ OthersAct
  \/ \E p \in {"elsewhere", "details", "review", "edit"} : Open(p)
  \/ \E q \in Query : FetchFails(q)
  \/ ArriveTender \/ ArriveChecklist
  \/ Tick \/ ClickSave \/ ClickApprove
  \/ \E op \in PageOps \ (Dialogs \cup {"SAVE_CHECKLIST", "REVIEW_APPROVE", "EDIT"}) : Click(op)
  \/ \E op \in Dialogs : OpenDialog(op)
  \/ CloseDialog \/ Confirm \/ ConfirmReject \/ SubmitForm
  \/ \E w \in Write : \/ Serve(w) \/ ServeApproval(w)
                        \/ Succeed(w) \/ FormSucceeds(w) \/ Fails(w)

Spec == Init /\ [][Next]_vars
-----------------------------------------------------------------------------
(* Properties *)

\* The bar, the review tab and the routes agree: a page that has the tender as
\* it is offers its user nothing the API would refuse (short of an incomplete
\* checklist), and every move of the workflow the API would accept from him.
OffersMatch ==
  LET role == Staff[me]
  IN \A op \in PageOps :
       /\ Shows(op, me, role, Row) => Admits(op, me, role, Row, TRUE)
       /\ op \in WorkflowAction /\ AdmitsNow(op, me) => Shows(op, me, role, Row)

\* M4.6, M4.7, M7.1: a tender that is not decided is never stuck or out of
\* sight: somebody who has it on his dashboard and among his tasks (where there
\* are none but the dashboard's once it is submitted) has a button the API
\* accepts.
SomebodyIsAsked ==
  status \notin {"REJECTED", "WON", "LOST"} =>
    \E u \in Users :
      /\ Cards(u, Staff[u], Row)
      /\ status = "SUBMITTED" \/ MyTasks(u, Staff[u], Row)
      /\ \E op \in BarOps \cup ReviewOps : Shows(op, u, Staff[u], Row) /\ AdmitsNow(op, u)

\* Once the tab knows that its write is done, a query that is mounted and not
\* being fetched shows the data the write left, or later ones: not those of a
\* fetch that was under way when the API committed.  It makes one exception,
\* `slipped`: the user had left the page when the answer came, and the fetch he
\* left under way was from before the write (ActionsBar.tsx:29-32 invalidates a
\* query nobody mounts, which fetches nothing and gives nothing up).
OwnWritesAreShown ==
  \A q \in Query :
    Mounted(q) /\ ~Fetching(entry[q]) /\ ~entry[q].failed => acked \notin entry[q].misses
=============================================================================
