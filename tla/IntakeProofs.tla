---------------------------- MODULE IntakeProofs ----------------------------
(***************************************************************************)
(* Proofs about TenderIntake, for any users, names, URLs and requests.     *)
(***************************************************************************)
EXTENDS TenderIntake, SequenceTheorems, TLAPS

\* What the form and the requests are made of.
LEMMA Blank ==
  /\ Closed \in Form /\ ~Closed.duplicateWarning
  /\ Idle \in Request /\ Idle.pc = "idle" /\ Idle.informed
  BY DEF Closed, Form, Idle, Request, Listener, Urls

\* A request that is done is no longer about to insert.
LEMMA DoneFields ==
  ASSUME NEW q \in Request, NEW outcome \in {"duplicate", "created", "failed"}
  PROVE  /\ Done(q, outcome) \in Request
         /\ Done(q, outcome).pc = outcome /\ Done(q, outcome).informed
  BY DEF Done, Idle, Request, Listener, Urls

\* Leaving a form changes nothing but who listens to its requests.
LEMMA OrphanedFields ==
  ASSUME TypeOK, NEW u
  PROVE  /\ Orphaned(u) \in [Req -> Request]
         /\ \A r \in Req : /\ Orphaned(u)[r].pc = req[r].pc
                           /\ Orphaned(u)[r].force = req[r].force
                           /\ Orphaned(u)[r].informed = req[r].informed
                           /\ Orphaned(u)[r].seen = req[r].seen
                           /\ Orphaned(u)[r].name = req[r].name
                           /\ Orphaned(u)[r].url = req[r].url
  BY DEF Orphaned, TypeOK, Request, Listener

\* The mutation of a form is settled without a word about a warning.
LEMMA SettledFields ==
  ASSUME TypeOK, NEW r \in Req
  PROVE  /\ Settled(r) \in [User -> Form]
         /\ \A u \in User : /\ Settled(r)[u].duplicateWarning = form[u].duplicateWarning
                            /\ Settled(r)[u].refused = form[u].refused
  BY DEF Settled, TypeOK, Form

\* Requests that are not about to insert, or are as they were, keep what is
\* said of requests, while no tender is inserted or changed.
LEMMA RequestsKeep ==
  ASSUME IInv, UNCHANGED tenders,
         \A r \in Req : /\ req'[r].informed
                        /\ \/ req'[r].pc \notin {"check", "insert"}
                           \/ /\ req'[r].pc = req[r].pc /\ req'[r].force = req[r].force
                              /\ req'[r].seen = req[r].seen
                              /\ req'[r].name = req[r].name /\ req'[r].url = req[r].url
  PROVE  /\ ForcedByInformed' /\ SentIsFilled' /\ CheckedIsUnlike'
         /\ DuplicatesAreKnown' /\ ForceFollowsWarning'
<1>1. ForcedByInformed' /\ SentIsFilled'
  BY DEF IInv, ForcedByInformed, SentIsFilled
<1>2. CheckedIsUnlike'
  BY DEF IInv, CheckedIsUnlike, Alike
<1>3. DuplicatesAreKnown' /\ ForceFollowsWarning'
  BY DEF IInv, DuplicatesAreKnown, ForceFollowsWarning, Alike
<1> QED
  BY <1>1, <1>2, <1>3
-----------------------------------------------------------------------------
\* The form of a user preserves the invariant.
LEMMA FormStep ==
  ASSUME IInv, NEW u \in User,
         \/ Open(u) \/ Cancel(u)
         \/ \E name \in Name \cup {Empty}, url \in Urls : Fill(u, name, url)
  PROVE  IInv'
<1>0. TypeOK /\ WarningIsOfRefusal /\ ForcedByInformed
  BY DEF IInv
<1>1. CASE Open(u)
  <2>1. TypeOK' /\ WarningIsOfRefusal'
    BY <1>0, <1>1, Blank DEF Open, TypeOK, WarningIsOfRefusal, Closed, Form, Urls
  <2> QED
    BY <1>0, <1>1, <2>1, RequestsKeep DEF Open, IInv, ForcedByInformed
<1>2. CASE Cancel(u)
  <2>1. TypeOK' /\ WarningIsOfRefusal'
    BY <1>0, <1>2, Blank, OrphanedFields DEF Cancel, TypeOK, WarningIsOfRefusal
  <2> QED
    BY <1>0, <1>2, <2>1, OrphanedFields, RequestsKeep DEF Cancel, IInv, ForcedByInformed
<1>3. ASSUME NEW name \in Name \cup {Empty}, NEW url \in Urls, Fill(u, name, url)
      PROVE  IInv'
  <2>0. /\ form[u] \in Form /\ UNCHANGED <<tenders, req>>
        /\ form' = [form EXCEPT ![u] = [form[u] EXCEPT !.name = name, !.url = url]]
    BY <1>0, <1>3 DEF Fill, TypeOK
  <2>1. TypeOK' /\ WarningIsOfRefusal'
    <3>1. /\ [form[u] EXCEPT !.name = name, !.url = url] \in Form
          /\ [form[u] EXCEPT !.name = name, !.url = url].duplicateWarning = form[u].duplicateWarning
          /\ [form[u] EXCEPT !.name = name, !.url = url].refused = form[u].refused
      BY <2>0 DEF Form
    <3> QED
      BY <1>0, <2>0, <3>1 DEF TypeOK, WarningIsOfRefusal
  <2> QED
    BY <1>0, <1>3, <2>1, RequestsKeep DEF Fill, IInv, ForcedByInformed
<1> QED
  BY <1>1, <1>2, <1>3

\* A request that is sent is informed if it is forced, for the warning is there
\* only after a refusal.
LEMMA SubmitStep ==
  ASSUME IInv, NEW u \in User, NEW force \in BOOLEAN, submit(u, force)
  PROVE  IInv'
<1>0. TypeOK /\ WarningIsOfRefusal /\ ForcedByInformed /\ CheckedIsUnlike
  BY DEF IInv
<1>1. UNCHANGED tenders /\ form[u] \in Form
  BY <1>0 DEF submit, TypeOK
<1>2. CASE form[u].name = Empty
  <2>0. form' = [form EXCEPT ![u] = [form[u] EXCEPT !.duplicateWarning = FALSE]] /\ UNCHANGED req
    BY <1>2 DEF submit
  <2>1. TypeOK' /\ WarningIsOfRefusal'
    <3>1. /\ [form[u] EXCEPT !.duplicateWarning = FALSE] \in Form
          /\ ~[form[u] EXCEPT !.duplicateWarning = FALSE].duplicateWarning
      BY <1>1 DEF Form
    <3> QED
      BY <1>0, <1>1, <2>0, <3>1 DEF TypeOK, WarningIsOfRefusal
  <2> QED
    BY <1>0, <1>1, <2>0, <2>1, RequestsKeep DEF IInv, ForcedByInformed
<1>3. CASE form[u].name # Empty
  <2>1. PICK r \in Req :
          /\ req[r].pc = "idle"
          /\ form' = [form EXCEPT ![u].duplicateWarning = FALSE, ![u].latest = r]
          /\ req' = [req EXCEPT ![r] =
               [pc |-> IF force THEN "insert" ELSE "check", user |-> u, name |-> form[u].name,
                url |-> form[u].url, force |-> force, informed |-> force => form[u].refused,
                seen |-> 0, listener |-> "form"]]
    BY <1>3 DEF submit
  <2>2. force => form[u].refused
    BY <1>0 DEF submit, WarningIsOfRefusal
  <2>3. TypeOK' /\ WarningIsOfRefusal'
    BY <1>0, <1>1, <2>1 DEF TypeOK, WarningIsOfRefusal, Form, Request, Listener
  <2>4. ForcedByInformed'
    BY <1>0, <2>1, <2>2 DEF ForcedByInformed, TypeOK
  <2>5. CheckedIsUnlike' /\ SentIsFilled'
    BY <1>0, <1>1, <1>3, <2>1 DEF IInv, CheckedIsUnlike, SentIsFilled, TypeOK, Alike, Form
  <2>6. DuplicatesAreKnown' /\ ForceFollowsWarning'
    BY <1>1 DEF IInv, DuplicatesAreKnown, ForceFollowsWarning, Alike
  <2> QED
    BY <2>3, <2>4, <2>5, <2>6 DEF IInv
<1> QED
  BY <1>2, <1>3
-----------------------------------------------------------------------------
\* The check: what it has looked at is not like the request.
LEMMA CheckStep ==
  ASSUME IInv, NEW r \in Req, Check(r)
  PROVE  IInv'
<1>0. TypeOK /\ ForcedByInformed /\ CheckedIsUnlike /\ req[r] \in Request
  BY DEF IInv, TypeOK
<1>1. CASE findDuplicate(req[r])
  <2>1. req' = [req EXCEPT ![r] = Done(req[r], "duplicate")] /\ UNCHANGED <<tenders, form>>
    BY <1>1 DEF Check
  <2>2. TypeOK' /\ WarningIsOfRefusal'
    BY <1>0, <2>1, DoneFields DEF TypeOK, WarningIsOfRefusal, IInv
  <2> QED
    BY <1>0, <2>1, <2>2, DoneFields, RequestsKeep DEF IInv, ForcedByInformed, TypeOK
<1>2. CASE ~findDuplicate(req[r])
  <2>1. req' = [req EXCEPT ![r] = [req[r] EXCEPT !.pc = "insert", !.seen = Len(tenders)]]
        /\ UNCHANGED <<tenders, form>>
    BY <1>2 DEF Check
  <2>2. Len(tenders) \in Nat /\ DOMAIN tenders = 1..Len(tenders)
    BY <1>0 DEF TypeOK
  <2>3. TypeOK' /\ WarningIsOfRefusal'
    BY <1>0, <2>1, <2>2 DEF TypeOK, WarningIsOfRefusal, IInv, Request
  <2>4. ForcedByInformed' /\ SentIsFilled'
    <3>1. req'[r].informed /\ req'[r].name \in Name
      <4>1. req[r].informed /\ req[r].name \in Name
        BY <1>0 DEF IInv, Check, ForcedByInformed, SentIsFilled
      <4>2. req'[r] = [req[r] EXCEPT !.pc = "insert", !.seen = Len(tenders)]
        BY <1>0, <2>1 DEF TypeOK
      <4> QED
        BY <1>0, <4>1, <4>2 DEF Request
    <3>2. \A s \in Req : s # r => req'[s] = req[s]
      BY <1>0, <2>1 DEF TypeOK
    <3> QED
      BY <3>1, <3>2 DEF IInv, ForcedByInformed, SentIsFilled
  <2>5. CheckedIsUnlike'
    <3>1. ASSUME NEW s \in Req, req'[s].pc = "insert", ~req'[s].force
          PROVE  /\ req'[s].seen <= Len(tenders)
                 /\ \A k \in 1..req'[s].seen : tenders[k].edited \/ ~Alike(tenders[k], req'[s])
      <4>1. CASE s = r
        BY <1>0, <1>2, <2>1, <2>2, <4>1 DEF TypeOK, Request, findDuplicate, Alike
      <4>2. CASE s # r
        BY <1>0, <2>1, <3>1, <4>2 DEF TypeOK, CheckedIsUnlike
      <4> QED
        BY <4>1, <4>2
    <3> QED
      BY <2>1, <3>1 DEF CheckedIsUnlike, Alike
  <2>6. DuplicatesAreKnown' /\ ForceFollowsWarning'
    BY <2>1 DEF IInv, DuplicatesAreKnown, ForceFollowsWarning, Alike
  <2> QED
    BY <2>3, <2>4, <2>5, <2>6 DEF IInv
<1> QED
  BY <1>1, <1>2

\* The insertion: the new tender is like none of those its check has seen.
LEMMA InsertStep ==
  ASSUME IInv, NEW r \in Req, Insert(r)
  PROVE  IInv'
<1> DEFINE q == req[r]
           row == [name |-> q.name, url |-> q.url, forced |-> q.force,
                   informed |-> q.informed, seen |-> q.seen, edited |-> FALSE]
<1>0. TypeOK /\ ForcedByInformed /\ CheckedIsUnlike /\ q \in Request /\ q.pc = "insert"
  BY DEF IInv, TypeOK, Insert
<1>1. /\ tenders' = Append(tenders, row)
      /\ req' = [req EXCEPT ![r] = Done(q, "created")] /\ UNCHANGED form
  BY DEF Insert
<1>2. /\ Len(tenders) \in Nat /\ DOMAIN tenders = 1..Len(tenders)
      /\ tenders \in Seq(Tender)
  BY <1>0 DEF TypeOK
<1>3. row \in Tender /\ row.name = q.name /\ row.url = q.url
  BY <1>0 DEF Request, Tender, IInv, SentIsFilled
<1> HIDE DEF row
<1>4. /\ tenders' \in Seq(Tender) /\ Len(tenders') = Len(tenders) + 1
      /\ DOMAIN tenders' = 1..(Len(tenders) + 1)
      /\ \A k \in 1..Len(tenders) : tenders'[k] = tenders[k]
      /\ tenders'[Len(tenders) + 1] = row
  BY <1>1, <1>2, <1>3
<1>5. TypeOK' /\ WarningIsOfRefusal'
  BY <1>0, <1>1, <1>4, DoneFields DEF TypeOK, WarningIsOfRefusal, IInv
<1>6. ForcedByInformed' /\ SentIsFilled'
  BY <1>0, <1>1, DoneFields DEF IInv, ForcedByInformed, SentIsFilled, TypeOK
<1>7. CheckedIsUnlike'
  <2>1. ASSUME NEW s \in Req, req'[s].pc = "insert", ~req'[s].force
        PROVE  /\ req'[s].seen <= Len(tenders')
               /\ \A k \in 1..req'[s].seen : tenders'[k].edited \/ ~Alike(tenders'[k], req'[s])
    <3>1. s # r /\ req'[s] = req[s] /\ req[s] \in Request
      BY <1>0, <1>1, <2>1, DoneFields DEF TypeOK
    <3>2. /\ req[s].seen \in Nat /\ req[s].seen <= Len(tenders)
          /\ \A k \in 1..req[s].seen : tenders[k].edited \/ ~Alike(tenders[k], req[s])
      BY <1>0, <2>1, <3>1 DEF CheckedIsUnlike, Request
    <3> QED
      BY <1>2, <1>4, <3>1, <3>2
  <2> QED
    BY <2>1 DEF CheckedIsUnlike, Alike
<1>8. DuplicatesAreKnown'
  <2>1. ASSUME NEW a \in DOMAIN tenders', NEW b \in DOMAIN tenders', a < b,
               Alike(tenders'[a], tenders'[b]), ~tenders'[a].edited, ~tenders'[b].edited
        PROVE  tenders'[b].forced \/ a > tenders'[b].seen
    <3>1. a \in 1..Len(tenders) /\ tenders'[a] = tenders[a]
      BY <1>2, <1>4, <2>1
    <3>2. CASE b \in 1..Len(tenders)
      BY <1>2, <1>4, <2>1, <3>1, <3>2 DEF IInv, DuplicatesAreKnown
    <3>3. CASE b = Len(tenders) + 1 /\ ~q.force
      <4>1. /\ q.seen \in Nat /\ tenders'[b].seen = q.seen
            /\ Alike(tenders[a], q)
        BY <1>0, <1>3, <1>4, <2>1, <3>1, <3>3 DEF Request, Alike, row
      <4>2. \A k \in 1..q.seen : tenders[k].edited \/ ~Alike(tenders[k], q)
        BY <1>0, <3>3 DEF CheckedIsUnlike
      <4>3. a \notin 1..q.seen
        BY <2>1, <3>1, <4>1, <4>2
      <4> QED
        BY <1>2, <3>1, <4>1, <4>3
    <3>4. CASE b = Len(tenders) + 1 /\ q.force
      BY <1>4, <3>4 DEF row
    <3> QED
      BY <1>2, <1>4, <3>2, <3>3, <3>4
  <2> QED
    BY <2>1 DEF DuplicatesAreKnown, Alike
<1>9. ForceFollowsWarning'
  <2>1. row.informed
    BY <1>0 DEF row, ForcedByInformed
  <2> QED
    BY <1>2, <1>4, <2>1 DEF IInv, ForceFollowsWarning
<1> QED
  BY <1>5, <1>6, <1>7, <1>8, <1>9 DEF IInv

\* A PATCH marks the tender it changes, and nothing is said of it any more.
LEMMA PatchStep ==
  ASSUME IInv, NEW k, NEW name \in Name, NEW url \in Urls, Patch(k, name, url)
  PROVE  IInv'
<1>0. TypeOK /\ k \in DOMAIN tenders /\ UNCHANGED <<form, req>>
  BY DEF IInv, Patch
<1> DEFINE row == [tenders[k] EXCEPT !.name = name, !.url = url, !.edited = TRUE]
<1>1. row \in Tender /\ row.edited /\ row.informed = tenders[k].informed
  <2>1. tenders[k] \in Tender
    BY <1>0, ElementOfSeq DEF TypeOK
  <2> QED
    BY <2>1 DEF Tender
<1>2. tenders' = [tenders EXCEPT ![k] = row]
  BY DEF Patch
<1> HIDE DEF row
<1>3. /\ tenders' \in Seq(Tender) /\ Len(tenders') = Len(tenders)
      /\ \A j \in DOMAIN tenders : tenders'[j] = IF j = k THEN row ELSE tenders[j]
  BY <1>0, <1>1, <1>2, ExceptSeq DEF TypeOK
<1>4. DOMAIN tenders' = DOMAIN tenders /\ DOMAIN tenders = 1..Len(tenders) /\ Len(tenders) \in Nat
  BY <1>0, <1>2 DEF TypeOK
<1>5. TypeOK' /\ WarningIsOfRefusal' /\ ForcedByInformed' /\ SentIsFilled'
  BY <1>0, <1>3 DEF IInv, TypeOK, WarningIsOfRefusal, ForcedByInformed, SentIsFilled
<1>6. CheckedIsUnlike'
  <2>1. ASSUME NEW s \in Req, req[s].pc = "insert", ~req[s].force
        PROVE  /\ req[s].seen <= Len(tenders')
               /\ \A j \in 1..req[s].seen : tenders'[j].edited \/ ~Alike(tenders'[j], req[s])
    <3>1. /\ req[s].seen \in Nat /\ req[s].seen <= Len(tenders)
          /\ \A j \in 1..req[s].seen : tenders[j].edited \/ ~Alike(tenders[j], req[s])
      BY <1>0, <2>1 DEF IInv, CheckedIsUnlike, TypeOK, Request
    <3>2. \A j \in 1..req[s].seen : j \in DOMAIN tenders
      BY <1>4, <3>1
    <3> QED
      BY <1>1, <1>3, <3>1, <3>2
  <2> QED
    BY <1>0, <2>1 DEF CheckedIsUnlike, Alike
<1>7. DuplicatesAreKnown'
  BY <1>1, <1>3, <1>4 DEF IInv, DuplicatesAreKnown, Alike
<1>8. ForceFollowsWarning'
  BY <1>0, <1>1, <1>3, <1>4 DEF IInv, ForceFollowsWarning
<1> QED
  BY <1>5, <1>6, <1>7, <1>8 DEF IInv
-----------------------------------------------------------------------------
\* Answers, and those that do not come.
LEMMA AnswerStep ==
  ASSUME IInv, NEW r \in Req,
         ServerFails(r) \/ ConnectionLost(r) \/ AnswerCreated(r) \/ AnswerError(r)
  PROVE  IInv'
<1>0. TypeOK /\ WarningIsOfRefusal /\ ForcedByInformed /\ req[r] \in Request
  BY DEF IInv, TypeOK
<1>1. CASE ServerFails(r)
  <2>1. req' = [req EXCEPT ![r] = Done(req[r], "failed")] /\ UNCHANGED <<tenders, form>>
    BY <1>1 DEF ServerFails
  <2>2. TypeOK' /\ WarningIsOfRefusal'
    BY <1>0, <2>1, DoneFields DEF TypeOK, WarningIsOfRefusal
  <2> QED
    BY <1>0, <2>1, <2>2, DoneFields, RequestsKeep DEF IInv, ForcedByInformed, TypeOK
<1>2. CASE ConnectionLost(r)
  <2>1. req' = [req EXCEPT ![r].listener = "nobody"] /\ form' = Settled(r) /\ UNCHANGED tenders
    BY <1>2 DEF ConnectionLost
  <2>2. TypeOK' /\ WarningIsOfRefusal'
    BY <1>0, <2>1, SettledFields DEF TypeOK, WarningIsOfRefusal, Request, Listener
  <2> QED
    BY <1>0, <2>1, <2>2, RequestsKeep DEF IInv, ForcedByInformed, TypeOK, Request
<1>3. CASE AnswerCreated(r)
  <2>1. UNCHANGED tenders
    BY <1>3 DEF AnswerCreated
  <2>2. CASE req[r].listener = "nobody"
    <3>1. req' = [req EXCEPT ![r] = Idle] /\ UNCHANGED form
      BY <1>3, <2>2 DEF AnswerCreated
    <3>2. TypeOK' /\ WarningIsOfRefusal'
      BY <1>0, <2>1, <3>1, Blank DEF TypeOK, WarningIsOfRefusal
    <3> QED
      BY <1>0, <2>1, <3>1, <3>2, Blank, RequestsKeep DEF IInv, ForcedByInformed, TypeOK
  <2>3. CASE req[r].listener # "nobody"
    <3>1. /\ form' = [form EXCEPT ![req[r].user] = Closed]
          /\ req' = [Orphaned(req[r].user) EXCEPT ![r] = Idle]
      BY <1>3, <2>3 DEF AnswerCreated
    <3>2. TypeOK' /\ WarningIsOfRefusal'
      BY <1>0, <2>1, <3>1, Blank, OrphanedFields DEF TypeOK, WarningIsOfRefusal
    <3> QED
      BY <1>0, <2>1, <3>1, <3>2, Blank, OrphanedFields, RequestsKeep DEF IInv, ForcedByInformed
  <2> QED
    BY <2>2, <2>3
<1>4. CASE AnswerError(r)
  <2>1. req' = [req EXCEPT ![r] = Idle] /\ UNCHANGED tenders
    BY <1>4 DEF AnswerError
  <2>2. form' \in [User -> Form] /\ WarningIsOfRefusal'
    <3>1. Settled(r) \in [User -> Form]
          /\ \A u \in User : Settled(r)[u].duplicateWarning => Settled(r)[u].refused
      BY <1>0, SettledFields DEF WarningIsOfRefusal
    <3>2. CASE form' = Settled(r)
      BY <3>1, <3>2 DEF WarningIsOfRefusal
    <3>3. CASE form' = [Settled(r) EXCEPT ![req[r].user].duplicateWarning = TRUE,
                                          ![req[r].user].refused = TRUE]
      <4>1. \A f \in Form : /\ [f EXCEPT !.duplicateWarning = TRUE, !.refused = TRUE] \in Form
                            /\ [f EXCEPT !.duplicateWarning = TRUE, !.refused = TRUE].refused
        BY DEF Form
      <4>2. CASE req[r].user \in User
        <5>1. form' = [Settled(r) EXCEPT ![req[r].user] =
                 [Settled(r)[req[r].user] EXCEPT !.duplicateWarning = TRUE, !.refused = TRUE]]
          BY <3>1, <3>3, <4>2
        <5> QED
          BY <3>1, <4>1, <4>2, <5>1 DEF WarningIsOfRefusal
      <4>3. CASE req[r].user \notin User
        <5>1. form' = Settled(r)
          BY <3>1, <3>3, <4>3
        <5> QED
          BY <3>1, <5>1 DEF WarningIsOfRefusal
      <4> QED
        BY <4>2, <4>3
    <3> QED
      BY <1>4, <3>2, <3>3 DEF AnswerError
  <2>3. TypeOK'
    BY <1>0, <2>1, <2>2, Blank DEF TypeOK
  <2> QED
    BY <1>0, <2>1, <2>2, <2>3, Blank, RequestsKeep DEF IInv, ForcedByInformed, TypeOK
<1> QED
  BY <1>1, <1>2, <1>3, <1>4
-----------------------------------------------------------------------------
\* The invariant of the intake: crud.ts:20-77 and TenderFormPage.tsx.
THEOREM Invariance == Spec => []IInv
<1>1. Init => IInv
  <2> SUFFICES ASSUME Init PROVE IInv
    OBVIOUS
  <2>1. TypeOK
    BY Blank DEF Init, TypeOK
  <2> QED
    BY <2>1, Blank DEF Init, IInv, WarningIsOfRefusal, ForcedByInformed, SentIsFilled,
                       CheckedIsUnlike, DuplicatesAreKnown, ForceFollowsWarning
<1>2. IInv /\ [Next]_vars => IInv'
  <2> SUFFICES ASSUME IInv, [Next]_vars PROVE IInv'
    OBVIOUS
  <2>1. CASE \E u \in User : \/ Open(u) \/ Cancel(u)
                             \/ \E name \in Name \cup {Empty}, url \in Urls : Fill(u, name, url)
    BY <2>1, FormStep
  <2>2. CASE \E u \in User, force \in BOOLEAN : submit(u, force)
    BY <2>2, SubmitStep
  <2>3. CASE \E r \in Req : Check(r)
    BY <2>3, CheckStep
  <2>4. CASE \E r \in Req : Insert(r)
    BY <2>4, InsertStep
  <2>5. CASE \E r \in Req : ServerFails(r) \/ ConnectionLost(r) \/ AnswerCreated(r) \/ AnswerError(r)
    BY <2>5, AnswerStep
  <2>6. CASE \E k \in 1..MaxTenders, name \in Name, url \in Urls : Patch(k, name, url)
    BY <2>6, PatchStep
  <2>7. CASE UNCHANGED vars
    BY <2>7 DEF vars, IInv, TypeOK, WarningIsOfRefusal, ForcedByInformed, SentIsFilled,
                CheckedIsUnlike, DuplicatesAreKnown, ForceFollowsWarning, Alike
  <2> QED
    BY <2>1, <2>2, <2>3, <2>4, <2>5, <2>6, <2>7 DEF Next
<1> QED
  BY <1>1, <1>2, PTL DEF Spec

\* FR-TEN-02 under overlaps, lost answers and retries (crud.ts:28): two tenders
\* alike are there by force or by checks that overlapped, for any numbers of
\* users, names and requests.
THEOREM NoUnknownDuplicate == Spec => []DuplicatesAreKnown
<1>1. IInv => DuplicatesAreKnown
  BY DEF IInv
<1> QED
  BY <1>1, Invariance, PTL

\* UAT-TEN-09 (TenderFormPage.tsx:78): whoever forces a tender has been shown
\* the warning.
THEOREM NoForceUnwarned == Spec => []ForceFollowsWarning
<1>1. IInv => ForceFollowsWarning
  BY DEF IInv
<1> QED
  BY <1>1, Invariance, PTL
=============================================================================
