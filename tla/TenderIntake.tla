---------------------------- MODULE TenderIntake ----------------------------
(***************************************************************************)
(* How tenders come in: POST /tenders with its check for duplicates        *)
(* (crud.ts, tenderRepository.ts), the PATCH that may change what the      *)
(* check compares, and the form of creation in front of them               *)
(* (TenderFormPage.tsx), which asks for a confirmation after a 409.        *)
(* Requests of several forms overlap, fail and lose their answers.         *)
(***************************************************************************)
EXTENDS Naturals, Sequences

CONSTANTS
  User,       \* the QAs, with the form in a tab of their own
  NoUser,
  Name,       \* title and entity, together: the check never tells one without the other
  Empty,      \* a form that is not filled in, or not well
  Url,
  NoUrl,
  Req,        \* requests under way at once
  NoReq,
  MaxTenders  \* bound on the tenders and those about to be

ASSUME NamesAssumption == NoUser \notin User /\ Empty \notin Name /\ NoUrl \notin Url
ASSUME ReqAssumption == NoReq \notin Req
ASSUME BoundAssumption == MaxTenders \in Nat

VARIABLES
  tenders,    \* the rows, in the order of their insertion
  form,       \* the form of each user
  req         \* the requests, from the click to the answer

vars == <<tenders, form, req>>

Urls == Url \cup {NoUrl}

\* History: whether the tender was inserted by force; whether its form had seen
\* a 409, if it was; how many tenders the check had looked at, if it was not;
\* whether a PATCH has changed it.
Tender ==
  [name : Name, url : Urls, forced : BOOLEAN, informed : BOOLEAN, seen : Nat, edited : BOOLEAN]

\* `latest` is the request the form's mutation follows; history: `refused`, that
\* a 409 has come since the form was opened.
Form ==
  [open : BOOLEAN, name : Name \cup {Empty}, url : Urls, duplicateWarning : BOOLEAN,
   latest : Req \cup {NoReq}, refused : BOOLEAN]

Closed ==
  [open |-> FALSE, name |-> Empty, url |-> NoUrl, duplicateWarning |-> FALSE,
   latest |-> NoReq, refused |-> FALSE]

\* Who waits for the answer: the form; the client alone, the form being closed;
\* nobody, the connection being lost.
Listener == {"form", "client", "nobody"}

Request ==
  [pc : {"idle", "check", "insert", "duplicate", "created", "failed"}, user : User \cup {NoUser},
   name : Name \cup {Empty}, url : Urls, force : BOOLEAN, informed : BOOLEAN, seen : Nat, listener : Listener]

Idle ==
  [pc |-> "idle", user |-> NoUser, name |-> Empty, url |-> NoUrl, force |-> FALSE,
   informed |-> TRUE, seen |-> 0, listener |-> "nobody"]

\* The handler is done, with `outcome`; what it was about is in the answer.
Done(q, outcome) == [Idle EXCEPT !.pc = outcome, !.user = q.user, !.listener = q.listener]

TypeOK ==
  /\ tenders \in Seq(Tender)
  /\ form \in [User -> Form]
  /\ req \in [Req -> Request]

Init ==
  /\ tenders = <<>>
  /\ form = [u \in User |-> Closed]
  /\ req = [r \in Req |-> Idle]

isPending(u) == form[u].latest # NoReq
-----------------------------------------------------------------------------
(* The form *)

Open(u) ==
  /\ ~form[u].open
  /\ form' = [form EXCEPT ![u] = [Closed EXCEPT !.open = TRUE]]
  /\ UNCHANGED <<tenders, req>>

\* Nothing is locked while a request is under way, and a warning stays while
\* the fields it is about are changed.
Fill(u, name, url) ==
  /\ form[u].open
  /\ name = Empty => url = NoUrl
  /\ form' = [form EXCEPT ![u].name = name, ![u].url = url]
  /\ UNCHANGED <<tenders, req>>

\* The requests of a form that is left behind.
Orphaned(u) ==
  [r \in Req |-> IF req[r].user = u /\ req[r].listener = "form"
                 THEN [req[r] EXCEPT !.listener = "client"] ELSE req[r]]

Cancel(u) ==
  /\ form[u].open
  /\ form' = [form EXCEPT ![u] = Closed]
  /\ req' = Orphaned(u)
  /\ UNCHANGED tenders

\* The button of the form waits for the last request; the one of the warning
\* does not, but it goes away with the click.
submit(u, force) ==
  LET f == form[u]
  IN /\ f.open
     /\ IF force THEN f.duplicateWarning ELSE ~isPending(u)
     /\ IF f.name = Empty
        THEN /\ form' = [form EXCEPT ![u].duplicateWarning = FALSE]
             /\ UNCHANGED req
        ELSE \E r \in Req :
               /\ req[r].pc = "idle"
               /\ form' = [form EXCEPT ![u].duplicateWarning = FALSE, ![u].latest = r]
               /\ req' = [req EXCEPT ![r] =
                    [pc |-> IF force THEN "insert" ELSE "check", user |-> u, name |-> f.name,
                     url |-> f.url, force |-> force, informed |-> force => f.refused, seen |-> 0,
                     listener |-> "form"]]
     /\ UNCHANGED tenders
-----------------------------------------------------------------------------
(* POST /tenders and PATCH /tenders/:id *)

Alike(a, b) == a.name = b.name \/ (a.url = b.url /\ b.url # NoUrl)

\* Fault: a tender that has a URL is known by its URL alone.
findDuplicateByUrl(q) ==
  \E k \in DOMAIN tenders : IF q.url # NoUrl THEN tenders[k].url = q.url ELSE tenders[k].name = q.name

findDuplicate(q) == \E k \in DOMAIN tenders : Alike(tenders[k], q)

Check(r) ==
  /\ req[r].pc = "check"
  /\ req' = [req EXCEPT ![r] =
       IF findDuplicate(req[r]) THEN Done(@, "duplicate")
       ELSE [@ EXCEPT !.pc = "insert", !.seen = Len(tenders)]]
  /\ UNCHANGED <<tenders, form>>

\* The transaction of the row, its first history row and its audit row.
Insert(r) ==
  LET q == req[r]
  IN /\ q.pc = "insert"
     /\ Len(tenders) < MaxTenders
     /\ tenders' = Append(tenders,
          [name |-> q.name, url |-> q.url, forced |-> q.force, informed |-> q.informed,
           seen |-> q.seen, edited |-> FALSE])
     /\ req' = [req EXCEPT ![r] = Done(@, "created")]
     /\ UNCHANGED form

\* A query throws or the process dies; after the insertion, it is notifyRole.
ServerFails(r) ==
  /\ req[r].pc \in {"check", "insert", "created"}
  /\ req' = [req EXCEPT ![r] = Done(@, "failed")]
  /\ UNCHANGED <<tenders, form>>

\* Of a tender that is not locked; nothing is checked against the others.
Patch(k, name, url) ==
  /\ k \in DOMAIN tenders
  /\ tenders' = [tenders EXCEPT ![k].name = name, ![k].url = url, ![k].edited = TRUE]
  /\ UNCHANGED <<form, req>>
-----------------------------------------------------------------------------
(* Answers *)

\* The mutation of the form is settled if it still follows the request.
Settled(r) ==
  LET u == req[r].user
  IN [form EXCEPT ![u].latest = IF @ = r THEN NoReq ELSE @]

\* The connection breaks: onError for the client, while the handler goes on.
ConnectionLost(r) ==
  /\ req[r].pc # "idle" /\ req[r].listener # "nobody"
  /\ form' = Settled(r)
  /\ req' = [req EXCEPT ![r].listener = "nobody"]
  /\ UNCHANGED tenders

\* onSuccess goes to the page of the tender, from wherever the user is.
AnswerCreated(r) ==
  /\ req[r].pc = "created"
  /\ IF req[r].listener = "nobody"
     THEN req' = [req EXCEPT ![r] = Idle] /\ UNCHANGED form
     ELSE /\ form' = [form EXCEPT ![req[r].user] = Closed]
          /\ req' = [Orphaned(req[r].user) EXCEPT ![r] = Idle]
  /\ UNCHANGED tenders

\* Fault: every refusal is taken for a duplicate.
AnswerAnyError(r) ==
  LET u == req[r].user
  IN /\ req[r].pc \in {"duplicate", "failed"}
     /\ form' = IF req[r].listener = "form"
                THEN [Settled(r) EXCEPT ![u].duplicateWarning = TRUE,
                                        ![u].refused = @ \/ req[r].pc = "duplicate"]
                ELSE Settled(r)
     /\ req' = [req EXCEPT ![r] = Idle]
     /\ UNCHANGED tenders

\* onError: a 409 shows the warning, anything else a message.
AnswerError(r) ==
  LET u == req[r].user
  IN /\ req[r].pc \in {"duplicate", "failed"}
     /\ form' = IF req[r].listener = "form" /\ req[r].pc = "duplicate"
                THEN [Settled(r) EXCEPT ![u].duplicateWarning = TRUE, ![u].refused = TRUE]
                ELSE Settled(r)
     /\ req' = [req EXCEPT ![r] = Idle]
     /\ UNCHANGED tenders
-----------------------------------------------------------------------------
Next ==
  \/ \E u \in User : \/ Open(u) \/ Cancel(u)
                     \/ \E name \in Name \cup {Empty}, url \in Urls : Fill(u, name, url)
                     \/ \E force \in BOOLEAN : submit(u, force)
  \/ \E r \in Req : \/ Check(r) \/ Insert(r) \/ ServerFails(r)
                    \/ ConnectionLost(r) \/ AnswerCreated(r) \/ AnswerError(r)
  \/ \E k \in 1..MaxTenders, name \in Name, url \in Urls : Patch(k, name, url)

Spec == Init /\ [][Next]_vars
-----------------------------------------------------------------------------
(* Properties *)

\* FR-TEN-02: of two tenders that are alike as they were inserted, the later
\* was forced, or its check ran before the earlier was there: a retry whose
\* first answer was lost is refused, unless the first is still being handled.
DuplicatesAreKnown ==
  \A a, b \in DOMAIN tenders :
    a < b /\ Alike(tenders[a], tenders[b]) /\ ~tenders[a].edited /\ ~tenders[b].edited =>
      tenders[b].forced \/ a > tenders[b].seen

\* UAT-TEN-09: no tender is inserted by force from a form that has not shown
\* the warning since it was opened, in whatever order answers come.
ForceFollowsWarning == \A k \in DOMAIN tenders : tenders[k].informed
-----------------------------------------------------------------------------
(* Why they hold: the parts of the inductive invariant *)

WarningIsOfRefusal == \A u \in User : form[u].duplicateWarning => form[u].refused

ForcedByInformed == \A r \in Req : req[r].informed

\* An empty form is never sent.
SentIsFilled == \A r \in Req : req[r].pc \in {"check", "insert"} => req[r].name \in Name

\* What the check of a request that is about to insert has looked at.
CheckedIsUnlike ==
  \A r \in Req : req[r].pc = "insert" /\ ~req[r].force =>
    /\ req[r].seen <= Len(tenders)
    /\ \A k \in 1..req[r].seen : tenders[k].edited \/ ~Alike(tenders[k], req[r])

IInv ==
  /\ TypeOK
  /\ WarningIsOfRefusal /\ ForcedByInformed
  /\ SentIsFilled /\ CheckedIsUnlike
  /\ DuplicatesAreKnown /\ ForceFollowsWarning
=============================================================================
