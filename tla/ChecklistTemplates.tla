------------------------- MODULE ChecklistTemplates -------------------------
(***************************************************************************)
(* The review checklist while it changes: administrators create and edit   *)
(* templates (routes/checklistTemplates.ts), reviewers mark items of one   *)
(* tender and decide on it (routes/tenders/review.ts, tenderAssignment.ts),*)
(* and isChecklistComplete (services/checklistCompletion.ts) reads the     *)
(* template, its items and the marks in three queries with all that in     *)
(* between.                                                                *)
(***************************************************************************)
EXTENDS Naturals

CONSTANTS
  Items,          \* the ids of ChecklistItem rows; none is used twice
  Unborn,         \* the row has not been created
  Deleted,        \* the row is gone
  MaxTemplates,   \* bound on the templates, numbered in the order of createdAt
  Slots           \* requests of reviewers in flight

Templates == 1..MaxTemplates

ASSUME TemplatesAssumption ==
  /\ MaxTemplates \in Nat
  /\ Unborn \notin Templates /\ Deleted \notin Templates /\ Unborn # Deleted

VARIABLES
  item,       \* ChecklistItem: the template of each
  template,   \* ChecklistTemplate: is it there, and isActive
  checked,    \* the items the tender has an answer with `checked` for
  request,    \* the reviewers' requests and what each has read
  watched     \* history: see StillOpen

vars == <<item, template, checked, request, watched>>

Exists(i) == item[i] \in Templates
ItemsOf(t) == {i \in Items : item[i] = t}

Request ==
  [pc : {"idle", "template", "items", "answers", "decide", "save"},
   template : Templates \cup {0},
   needed : SUBSET Items,      \* template.items
   given : SUBSET Items,       \* a PUT's answers
   ticked : SUBSET Items]      \* those of them with `checked`

Idle == [pc |-> "idle", template |-> 0, needed |-> {}, given |-> {}, ticked |-> {}]

TypeOK ==
  /\ item \in [Items -> Templates \cup {Unborn, Deleted}]
  /\ template \in [Templates -> {"none", "active", "inactive"}]
  /\ checked \subseteq Items
  /\ request \in [Slots -> Request]
  /\ watched \in [Slots -> SUBSET Items]

Init ==
  /\ item = [i \in Items |-> Unborn]
  /\ template = [t \in Templates |-> "none"]
  /\ checked = {}
  /\ request = [r \in Slots |-> Idle]
  /\ watched = [r \in Slots |-> {}]

Active == {t \in Templates : template[t] = "active"}

\* findActiveTemplate: of several active ones the newest.
IsNewestActive(t) == t \in Active /\ \A u \in Active : u <= t

\* What a reviewer has still to do.
Open == {i \in Items : IsNewestActive(item[i]) /\ i \notin checked}

\* History: what has been open all the time a decision is under way.
StillOpen ==
  watched' = [r \in Slots |->
    CASE request'[r].pc = "idle" -> {}
      [] request[r].pc = "idle" /\ request'[r].pc # "idle" -> Open'
      [] OTHER -> watched[r] \cap Open']
-----------------------------------------------------------------------------
(* Templates *)

\* POST /checklist-templates: active, with at least one item.
CreateTemplate(new) ==
  \E t \in Templates :
    /\ template[t] = "none" /\ \A u \in Templates : u < t => template[u] # "none"
    /\ new # {} /\ \A i \in new : item[i] = Unborn
    /\ template' = [template EXCEPT ![t] = "active"]
    /\ item' = [i \in Items |-> IF i \in new THEN t ELSE item[i]]
    /\ UNCHANGED <<checked, request>>

\* PATCH with isActive.
SetActive(t, to) ==
  /\ template[t] # "none"
  /\ template' = [template EXCEPT ![t] = to]
  /\ UNCHANGED <<item, checked, request>>

\* Fault: answers are kept when their item goes.
EditWithoutCascade(t, keep, new) ==
  /\ template[t] # "none"
  /\ keep \cup new # {}
  /\ \A i \in keep : Exists(i)
  /\ \A i \in new : item[i] = Unborn
  /\ item' = [i \in Items |-> IF i \in new THEN t
                              ELSE IF item[i] = t /\ i \notin keep THEN Deleted ELSE item[i]]
  /\ UNCHANGED <<template, checked, request>>

\* PATCH with items, `keep` being the ids the client sends: those of the
\* template it leaves out are deleted and their answers with them; an id that
\* is gone meanwhile fails the transaction, one of another template is updated.
EditItems(t, keep, new) ==
  /\ template[t] # "none"
  /\ keep \cup new # {}
  /\ \A i \in keep : Exists(i)
  /\ \A i \in new : item[i] = Unborn
  /\ item' = [i \in Items |-> IF i \in new THEN t
                              ELSE IF item[i] = t /\ i \notin keep THEN Deleted ELSE item[i]]
  /\ checked' = checked \ {i \in Items : item[i] = t /\ i \notin keep}
  /\ UNCHANGED <<template, request>>
-----------------------------------------------------------------------------
(* PUT /tenders/:id/checklist *)

\* findItemsByIds finds them all, of whatever template; the status of the
\* tender is not looked at.
BeginSave(r, given, ticked) ==
  /\ request[r].pc = "idle"
  /\ given # {} /\ \A i \in given : Exists(i)
  /\ ticked \subseteq given
  /\ request' = [request EXCEPT ![r] = [Idle EXCEPT !.pc = "save", !.given = given, !.ticked = ticked]]
  /\ UNCHANGED <<item, template, checked>>

\* Fault: no foreign key stops an answer to an item that is gone.
SaveAnyway(r) ==
  /\ request[r].pc = "save"
  /\ checked' = (checked \ request[r].given) \cup request[r].ticked
  /\ request' = [request EXCEPT ![r] = Idle]
  /\ UNCHANGED <<item, template>>

\* The transaction of the upserts, which an item deleted meanwhile fails.
Save(r) ==
  /\ request[r].pc = "save"
  /\ checked' = IF \A i \in request[r].given : Exists(i)
                THEN (checked \ request[r].given) \cup request[r].ticked
                ELSE checked
  /\ request' = [request EXCEPT ![r] = Idle]
  /\ UNCHANGED <<item, template>>
-----------------------------------------------------------------------------
(* POST /tenders/:id/assign and /review/decision *)

\* The tender has been read and its status allows a decision.
BeginDecision(r) ==
  /\ request[r].pc = "idle"
  /\ request' = [request EXCEPT ![r] = [Idle EXCEPT !.pc = "template"]]
  /\ UNCHANGED <<item, template, checked>>

\* The first query of findActiveTemplate; without a result 422 NO_CHECKLIST.
ReadTemplate(r) ==
  /\ request[r].pc = "template"
  /\ \/ \E t \in Templates :
          /\ IsNewestActive(t)
          /\ request' = [request EXCEPT ![r].pc = "items", ![r].template = t]
     \/ Active = {} /\ request' = [request EXCEPT ![r] = Idle]
  /\ UNCHANGED <<item, template, checked>>

\* Its second query, of the items to include.
ReadItems(r) ==
  /\ request[r].pc = "items"
  /\ LET items == ItemsOf(request[r].template)
     IN  request' = [request EXCEPT ![r] = IF items = {} THEN Idle
                                           ELSE [@ EXCEPT !.pc = "answers", !.needed = items]]
  /\ UNCHANGED <<item, template, checked>>

\* Fault: `some` for `every`.
ReadAnswersOfSome(r) ==
  /\ request[r].pc = "answers"
  /\ request' = [request EXCEPT ![r] = IF request[r].needed \cap checked # {}
                                       THEN [@ EXCEPT !.pc = "decide"] ELSE Idle]
  /\ UNCHANGED <<item, template, checked>>

\* listCheckedItemIds and `every`; else 422 CHECKLIST_INCOMPLETE.
ReadAnswers(r) ==
  /\ request[r].pc = "answers"
  /\ request' = [request EXCEPT ![r] = IF request[r].needed \subseteq checked
                                       THEN [@ EXCEPT !.pc = "decide"] ELSE Idle]
  /\ UNCHANGED <<item, template, checked>>

\* An approval is logged, an assignment moves the tender on: TenderHandlers.
Decide(r) ==
  /\ request[r].pc = "decide"
  /\ request' = [request EXCEPT ![r] = Idle]
  /\ UNCHANGED <<item, template, checked>>
-----------------------------------------------------------------------------
Edit ==
  \/ \E new \in SUBSET Items : CreateTemplate(new)
  \/ \E t \in Templates, to \in {"active", "inactive"} : SetActive(t, to)
  \/ \E t \in Templates, keep, new \in SUBSET Items : EditItems(t, keep, new)

Review(r) ==
  \/ \E given, ticked \in SUBSET Items : BeginSave(r, given, ticked)
  \/ Save(r) \/ BeginDecision(r)
  \/ ReadTemplate(r) \/ ReadItems(r) \/ ReadAnswers(r) \/ Decide(r)

Next == (Edit \/ \E r \in Slots : Review(r)) /\ StillOpen

Spec == Init /\ [][Next]_vars
-----------------------------------------------------------------------------
(* Properties *)

\* BR-001 as three separate queries can give it: no decision is admitted over
\* an item that belonged to the active template and was unmarked all the time
\* it was under way, however templates, items and marks change between them.
NothingLeftOpen ==
  \A r \in Slots : request[r].pc = "decide" => watched[r] = {}

\* An answer never outlives its item, whichever of a deletion and a save that
\* was checked before it commits first; and so no id counts as marked for ever.
MarksAreOfItems == \A i \in checked : Exists(i)
-----------------------------------------------------------------------------
(* Why they hold: the parts of the inductive invariant *)

\* Whatever a decision has read, what is still open has been read as needed.
OpenIsNeeded ==
  \A r \in Slots :
    /\ watched[r] \subseteq Open
    /\ request[r].pc = "items" => watched[r] \subseteq ItemsOf(request[r].template)
    /\ request[r].pc = "answers" => watched[r] \subseteq request[r].needed

\* What a save is to tick is among the items it looked up.
TickedIsGiven ==
  \A r \in Slots : request[r].ticked \subseteq request[r].given

IInv ==
  /\ TypeOK
  /\ OpenIsNeeded /\ NothingLeftOpen
  /\ TickedIsGiven /\ MarksAreOfItems
=============================================================================
