--------------------------- MODULE ChecklistProofs ---------------------------
(***************************************************************************)
(* Proofs about ChecklistTemplates, for any items, templates and requests. *)
(***************************************************************************)
EXTENDS ChecklistTemplates, TLAPS

\* Every request is one, with its fields.
LEMMA RequestFields ==
  ASSUME TypeOK, NEW r \in Slots
  PROVE  /\ request[r] \in Request
         /\ request[r].needed \subseteq Items
         /\ request[r].given \subseteq Items /\ request[r].ticked \subseteq Items
  BY DEF TypeOK, Request

\* A request that is not there is one too.
LEMMA IdleIsRequest ==
  /\ Idle \in Request
  /\ Idle.pc = "idle" /\ Idle.given = {} /\ Idle.ticked = {}
  BY DEF Idle, Request

\* There is one newest active template at most.
LEMMA NewestIsUnique ==
  ASSUME NEW t, NEW u, IsNewestActive(t), IsNewestActive(u)
  PROVE  t = u
<1>1. t \in Active /\ u \in Active /\ t <= u /\ u <= t
  BY DEF IsNewestActive
<1>2. t \in Nat /\ u \in Nat
  BY <1>1, TemplatesAssumption DEF Active, Templates
<1> QED
  BY <1>1, <1>2

\* What is watched only shrinks, and is open.
LEMMA WatchedShrinks ==
  ASSUME StillOpen, NEW r \in Slots
  PROVE  /\ watched' \in [Slots -> SUBSET Items]
         /\ watched'[r] \subseteq Open'
         /\ request'[r].pc = "idle" => watched'[r] = {}
         /\ request[r].pc # "idle" => watched'[r] \subseteq watched[r]
<1>1. Open' \subseteq Items
  BY DEF Open
<1> DEFINE W(q) == CASE request'[q].pc = "idle" -> {}
                     [] request[q].pc = "idle" /\ request'[q].pc # "idle" -> Open'
                     [] OTHER -> watched[q] \cap Open'
<1>2. watched' = [q \in Slots |-> W(q)]
  BY DEF StillOpen
<1>3. ASSUME NEW q \in Slots
      PROVE  /\ W(q) \subseteq Open'
             /\ request'[q].pc = "idle" => W(q) = {}
             /\ request[q].pc # "idle" => W(q) \subseteq watched[q]
  OBVIOUS
<1> HIDE DEF W
<1> QED
  BY <1>1, <1>2, <1>3

\* An item never moves from one template to another.
LEMMA ItemsStay ==
  ASSUME IInv, Edit, NEW i \in Items, Exists(i)
  PROVE  item'[i] \in {item[i], Deleted}
<1>1. item[i] \in Templates /\ item[i] # Unborn
  BY TemplatesAssumption DEF Exists
<1>2. ASSUME NEW new \in SUBSET Items, CreateTemplate(new) PROVE item'[i] = item[i]
  BY <1>1, <1>2 DEF CreateTemplate
<1>3. ASSUME NEW t \in Templates, NEW to, SetActive(t, to) PROVE item'[i] = item[i]
  BY <1>3 DEF SetActive
<1>4. ASSUME NEW t \in Templates, NEW keep \in SUBSET Items, NEW new \in SUBSET Items,
             EditItems(t, keep, new)
      PROVE  item'[i] \in {item[i], Deleted}
  BY <1>1, <1>4 DEF EditItems
<1> QED
  BY <1>2, <1>3, <1>4 DEF Edit

\* An edit keeps the types.
LEMMA EditTypes ==
  ASSUME IInv, Edit, StillOpen
  PROVE  TypeOK' /\ request' = request
<1>0. TypeOK
  BY DEF IInv
<1>1. watched' \in [Slots -> SUBSET Items]
  <2>1. CASE Slots = {}
    BY <2>1 DEF StillOpen
  <2>2. CASE Slots # {}
    BY <2>2, WatchedShrinks
  <2> QED
    BY <2>1, <2>2
<1>2. ASSUME NEW new \in SUBSET Items, CreateTemplate(new) PROVE TypeOK' /\ request' = request
  BY <1>0, <1>1, <1>2 DEF CreateTemplate, TypeOK
<1>3. ASSUME NEW t \in Templates, NEW to \in {"active", "inactive"}, SetActive(t, to)
      PROVE  TypeOK' /\ request' = request
  BY <1>0, <1>1, <1>3 DEF SetActive, TypeOK
<1>4. ASSUME NEW t \in Templates, NEW keep \in SUBSET Items, NEW new \in SUBSET Items,
             EditItems(t, keep, new)
      PROVE  TypeOK' /\ request' = request
  BY <1>0, <1>1, <1>4 DEF EditItems, TypeOK
<1> QED
  BY <1>2, <1>3, <1>4 DEF Edit

\* A deleted item takes its answer with it.
LEMMA EditMarks ==
  ASSUME IInv, Edit
  PROVE  MarksAreOfItems'
<1>0. /\ \A i \in checked : item[i] \in Templates /\ i \in Items
      /\ Unborn \notin Templates
  BY TemplatesAssumption DEF IInv, TypeOK, MarksAreOfItems, Exists
<1>1. ASSUME NEW new \in SUBSET Items, CreateTemplate(new) PROVE MarksAreOfItems'
  BY <1>0, <1>1 DEF CreateTemplate, MarksAreOfItems, Exists
<1>2. ASSUME NEW t \in Templates, NEW to, SetActive(t, to) PROVE MarksAreOfItems'
  BY <1>0, <1>2 DEF SetActive, MarksAreOfItems, Exists
<1>3. ASSUME NEW t \in Templates, NEW keep \in SUBSET Items, NEW new \in SUBSET Items,
             EditItems(t, keep, new)
      PROVE  MarksAreOfItems'
  BY <1>0, <1>3 DEF EditItems, MarksAreOfItems, Exists
<1> QED
  BY <1>1, <1>2, <1>3 DEF Edit

\* An edit preserves the invariant: what it adds was not open all the time.
LEMMA EditStep ==
  ASSUME IInv, Edit, StillOpen
  PROVE  IInv'
<1>1. TypeOK' /\ request' = request
  BY EditTypes
<1>2. ASSUME NEW r \in Slots
      PROVE  /\ watched'[r] \subseteq Open'
             /\ request[r].pc = "items" => watched'[r] \subseteq ItemsOf(request[r].template)'
             /\ request[r].pc = "answers" => watched'[r] \subseteq request[r].needed
             /\ request[r].pc = "decide" => watched'[r] = {}
  <2>1. /\ watched'[r] \subseteq Open'
        /\ request[r].pc # "idle" => watched'[r] \subseteq watched[r]
    BY WatchedShrinks
  <2>2. ASSUME request[r].pc = "items", NEW i \in watched'[r] PROVE item'[i] = request[r].template
    <3>1. i \in Open' /\ i \in watched[r]
      BY <2>1, <2>2
    <3>2. i \in Items /\ item'[i] \in Templates
      BY <3>1 DEF Open, IsNewestActive, Active
    <3>3. item[i] = request[r].template
      BY <3>1, <2>2 DEF IInv, OpenIsNeeded, ItemsOf
    <3>4. Exists(i)
      BY <3>1 DEF IInv, OpenIsNeeded, Open, IsNewestActive, Active, Exists
    <3>5. item'[i] \in {item[i], Deleted}
      BY <3>2, <3>4, ItemsStay
    <3> QED
      BY <3>2, <3>3, <3>5, TemplatesAssumption
  <2>3. request[r].pc = "items" => watched'[r] \subseteq ItemsOf(request[r].template)'
    BY <2>1, <2>2, <1>1 DEF ItemsOf, Open
  <2> QED
    BY <2>1, <2>3 DEF IInv, OpenIsNeeded, NothingLeftOpen
<1>3. OpenIsNeeded' /\ NothingLeftOpen'
  BY <1>1, <1>2 DEF OpenIsNeeded, NothingLeftOpen
<1>4. TickedIsGiven'
  BY <1>1 DEF IInv, TickedIsGiven
<1> QED
  BY <1>1, <1>3, <1>4, EditMarks DEF IInv

\* A step of one request that writes no mark preserves the invariant, if what
\* is still watched is among what the request has read.
LEMMA RequestStep ==
  ASSUME IInv, StillOpen, NEW r \in Slots, NEW q \in Request,
         request' = [request EXCEPT ![r] = q],
         q.pc = "items" => watched'[r] \subseteq ItemsOf(q.template),
         q.pc = "answers" => watched'[r] \subseteq q.needed,
         q.pc = "decide" => watched'[r] = {},
         q.ticked \subseteq q.given,
         UNCHANGED <<item, template>>,
         checked' \subseteq Items, MarksAreOfItems'
  PROVE  IInv'
<1>1. /\ request' \in [Slots -> Request]
      /\ \A s \in Slots : request'[s] = IF s = r THEN q ELSE request[s]
  BY DEF IInv, TypeOK
<1>2. /\ watched' \in [Slots -> SUBSET Items]
      /\ \A s \in Slots : /\ watched'[s] \subseteq Open'
                          /\ request[s].pc # "idle" => watched'[s] \subseteq watched[s]
  BY WatchedShrinks
<1>3. TypeOK'
  BY <1>1, <1>2 DEF IInv, TypeOK
<1>4. \A t : ItemsOf(t)' = ItemsOf(t)
  BY DEF ItemsOf
<1>5. ASSUME NEW s \in Slots
      PROVE  /\ request'[s].pc = "items" => watched'[s] \subseteq ItemsOf(request'[s].template)
             /\ request'[s].pc = "answers" => watched'[s] \subseteq request'[s].needed
             /\ request'[s].pc = "decide" => watched'[s] = {}
  BY <1>1, <1>2 DEF IInv, OpenIsNeeded, NothingLeftOpen
<1>6. OpenIsNeeded'
  <2>1. ASSUME NEW s \in Slots, request'[s].pc = "items"
        PROVE  watched'[s] \subseteq (ItemsOf(request[s].template))'
    BY <1>5, <2>1 DEF ItemsOf
  <2> QED
    BY <1>2, <1>5, <2>1 DEF OpenIsNeeded
<1>7. NothingLeftOpen'
  BY <1>5 DEF NothingLeftOpen
<1>8. TickedIsGiven'
  BY <1>1 DEF IInv, TickedIsGiven
<1> QED
  BY <1>3, <1>6, <1>7, <1>8 DEF IInv

\* Without a new mark or a change of the items the marks stay where they were.
LEMMA SameMarks ==
  ASSUME IInv, UNCHANGED <<item, template, checked>>
  PROVE  checked' \subseteq Items /\ MarksAreOfItems'
  BY DEF IInv, TypeOK, MarksAreOfItems, Exists

\* A save that begins writes nothing yet.
LEMMA BeginSaveStep ==
  ASSUME IInv, StillOpen, NEW r \in Slots, NEW given \in SUBSET Items, NEW ticked \in SUBSET Items,
         BeginSave(r, given, ticked)
  PROVE  IInv'
<1> DEFINE q == [Idle EXCEPT !.pc = "save", !.given = given, !.ticked = ticked]
<1>1. q \in Request /\ q.pc = "save" /\ q.given = given /\ q.ticked = ticked
  BY DEF Idle, Request
<1>2. request' = [request EXCEPT ![r] = q] /\ ticked \subseteq given
  BY DEF BeginSave
<1> HIDE DEF q
<1> QED
  BY <1>1, <1>2, SameMarks, RequestStep DEF BeginSave

\* A save writes answers to items that are there when it commits, or none.
LEMMA SaveStep ==
  ASSUME IInv, StillOpen, NEW r \in Slots, Save(r)
  PROVE  IInv'
<1>1. request[r].ticked \subseteq request[r].given /\ request[r].ticked \subseteq Items
  BY RequestFields DEF IInv, TickedIsGiven
<1>2. checked' \subseteq Items /\ MarksAreOfItems'
  BY <1>1 DEF IInv, TypeOK, Save, MarksAreOfItems, Exists
<1> QED
  BY <1>2, IdleIsRequest, RequestStep DEF Save

\* A decision that begins has read nothing yet.
LEMMA BeginDecisionStep ==
  ASSUME IInv, StillOpen, NEW r \in Slots, BeginDecision(r)
  PROVE  IInv'
<1> DEFINE q == [Idle EXCEPT !.pc = "template"]
<1>1. q \in Request /\ q.pc = "template" /\ q.given = {} /\ q.ticked = {}
  BY DEF Idle, Request
<1>2. request' = [request EXCEPT ![r] = q]
  BY DEF BeginDecision
<1> HIDE DEF q
<1> QED
  BY <1>1, <1>2, SameMarks, RequestStep DEF BeginDecision

\* All that is open belongs to the template a decision finds.
LEMMA ReadTemplateStep ==
  ASSUME IInv, StillOpen, NEW r \in Slots, ReadTemplate(r)
  PROVE  IInv'
<1>1. CASE request' = [request EXCEPT ![r] = Idle]
  BY <1>1, IdleIsRequest, SameMarks, RequestStep DEF ReadTemplate
<1>2. ASSUME NEW t \in Templates, IsNewestActive(t),
             request' = [request EXCEPT ![r].pc = "items", ![r].template = t]
      PROVE  IInv'
  <2> DEFINE q == [request[r] EXCEPT !.pc = "items", !.template = t]
  <2>1. request[r] \in Request
    BY RequestFields DEF IInv
  <2>2. /\ q \in Request /\ q.pc = "items" /\ q.template = t
        /\ q.given = request[r].given /\ q.ticked = request[r].ticked
    BY <2>1 DEF Request
  <2>3. request' = [request EXCEPT ![r] = q]
    BY <1>2
  <2> HIDE DEF q
  <2>4. Open' = Open
    BY DEF ReadTemplate, Open, IsNewestActive, Active
  <2>5. watched'[r] \subseteq ItemsOf(t)
    <3>1. watched'[r] \subseteq Open
      BY <2>4, WatchedShrinks
    <3>2. \A i \in Open : i \in Items /\ item[i] = t
      BY <1>2, NewestIsUnique DEF Open
    <3> QED
      BY <3>1, <3>2 DEF ItemsOf
  <2>6. q.ticked \subseteq q.given
    BY <2>2 DEF IInv, TickedIsGiven
  <2> QED
    BY <2>2, <2>3, <2>5, <2>6, SameMarks, RequestStep DEF ReadTemplate
<1> QED
  BY <1>1, <1>2 DEF ReadTemplate

\* The items it reads are those of its template, which include all that has
\* stayed open.
LEMMA ReadItemsStep ==
  ASSUME IInv, StillOpen, NEW r \in Slots, ReadItems(r)
  PROVE  IInv'
<1> DEFINE items == ItemsOf(request[r].template)
<1> DEFINE q == [request[r] EXCEPT !.pc = "answers", !.needed = items]
<1>1. CASE request' = [request EXCEPT ![r] = Idle]
  BY <1>1, IdleIsRequest, SameMarks, RequestStep DEF ReadItems
<1>2. CASE request' = [request EXCEPT ![r] = q]
  <2>1. request[r] \in Request /\ items \in SUBSET Items
    BY RequestFields DEF IInv, ItemsOf
  <2> HIDE DEF items
  <2>2. /\ q \in Request /\ q.pc = "answers" /\ q.needed = items
        /\ q.given = request[r].given /\ q.ticked = request[r].ticked
    BY <2>1 DEF Request
  <2> HIDE DEF q
  <2>3. watched'[r] \subseteq items
    BY WatchedShrinks DEF IInv, OpenIsNeeded, ReadItems, items
  <2>4. q.ticked \subseteq q.given
    BY <2>2 DEF IInv, TickedIsGiven
  <2> QED
    BY <1>2, <2>2, <2>3, <2>4, SameMarks, RequestStep DEF ReadItems
<1> QED
  BY <1>1, <1>2 DEF ReadItems

\* What is open is not marked, so that nothing is open when all is.
LEMMA ReadAnswersStep ==
  ASSUME IInv, StillOpen, NEW r \in Slots, ReadAnswers(r)
  PROVE  IInv'
<1> DEFINE q == [request[r] EXCEPT !.pc = "decide"]
<1>1. CASE request' = [request EXCEPT ![r] = Idle]
  BY <1>1, IdleIsRequest, SameMarks, RequestStep DEF ReadAnswers
<1>2. CASE request[r].needed \subseteq checked /\ request' = [request EXCEPT ![r] = q]
  <2>1. request[r] \in Request
    BY RequestFields DEF IInv
  <2>2. /\ q \in Request /\ q.pc = "decide"
        /\ q.given = request[r].given /\ q.ticked = request[r].ticked
    BY <2>1 DEF Request
  <2> HIDE DEF q
  <2>3. watched'[r] = {}
    <3>1. watched'[r] \subseteq watched[r] /\ watched'[r] \subseteq Open'
      BY WatchedShrinks DEF ReadAnswers
    <3>2. watched[r] \subseteq checked
      BY <1>2 DEF IInv, OpenIsNeeded, ReadAnswers
    <3>3. \A i \in Open' : i \notin checked
      BY DEF Open, ReadAnswers
    <3> QED
      BY <3>1, <3>2, <3>3
  <2>4. q.ticked \subseteq q.given
    BY <2>2 DEF IInv, TickedIsGiven
  <2> QED
    BY <1>2, <2>2, <2>3, <2>4, SameMarks, RequestStep DEF ReadAnswers
<1> QED
  BY <1>1, <1>2 DEF ReadAnswers

\* A decision that is taken leaves the checklist alone.
LEMMA DecideStep ==
  ASSUME IInv, StillOpen, NEW r \in Slots, Decide(r)
  PROVE  IInv'
  BY IdleIsRequest, SameMarks, RequestStep DEF Decide

\* Without templates there is nothing to do.
LEMMA InitIInv == Init => IInv
<1> SUFFICES ASSUME Init PROVE IInv
  OBVIOUS
<1>1. TypeOK
  BY IdleIsRequest DEF Init, TypeOK
<1>2. OpenIsNeeded /\ NothingLeftOpen /\ TickedIsGiven
  BY IdleIsRequest DEF Init, OpenIsNeeded, NothingLeftOpen, TickedIsGiven
<1>3. MarksAreOfItems
  BY DEF Init, MarksAreOfItems
<1> QED
  BY <1>1, <1>2, <1>3 DEF IInv

\* Every step preserves the invariant.
LEMMA NextIInv == IInv /\ [Next]_vars => IInv'
<1> SUFFICES ASSUME IInv, [Next]_vars PROVE IInv'
  OBVIOUS
<1>1. CASE Edit /\ StillOpen
  BY <1>1, EditStep
<1>2. ASSUME NEW r \in Slots, Review(r), StillOpen PROVE IInv'
  BY <1>2, BeginSaveStep, SaveStep, BeginDecisionStep, ReadTemplateStep, ReadItemsStep,
     ReadAnswersStep, DecideStep DEF Review
<1>3. CASE UNCHANGED vars
  BY <1>3 DEF vars, IInv, TypeOK, OpenIsNeeded, NothingLeftOpen, TickedIsGiven,
       MarksAreOfItems, Exists, Open, ItemsOf, IsNewestActive, Active
<1> QED
  BY <1>1, <1>2, <1>3 DEF Next

\* What holds in every reachable state, whatever overlaps.
THEOREM Invariance == Spec => []IInv
  BY InitIInv, NextIInv, PTL DEF Spec

\* Rows and requests keep their types.
THEOREM TypeCorrectness == Spec => []TypeOK
<1>1. IInv => TypeOK
  BY DEF IInv
<1> QED
  BY <1>1, Invariance, PTL

\* No decision passes over an item of the active template that was unmarked
\* all the time (BR-001), whatever is edited meanwhile.
THEOREM NoItemPassedOver == Spec => []NothingLeftOpen
<1>1. IInv => NothingLeftOpen
  BY DEF IInv
<1> QED
  BY <1>1, Invariance, PTL

\* No answer is left of an item that was deleted.
THEOREM NoMarkOutlivesItem == Spec => []MarksAreOfItems
<1>1. IInv => MarksAreOfItems
  BY DEF IInv
<1> QED
  BY <1>1, Invariance, PTL
=============================================================================
