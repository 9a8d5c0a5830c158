----------------------------- MODULE PageProofs -----------------------------
(***************************************************************************)
(* Proofs about TenderPages, for any staff, any number of mutations under  *)
(* way together and any number of changes by others.                       *)
(***************************************************************************)
EXTENDS TenderPages, TLAPS

\* The columns of the row and what is remembered of it.
RowTypeOK ==
  /\ status \in TENDER_STATUSES
  /\ owner \in Users \cup {NoUser} /\ author \in Users \cup {NoUser}
  /\ approved \in BOOLEAN /\ ready \in BOOLEAN

\* BR-003 with the roles: who holds an open tender can do what is next.
HolderCanAct ==
  /\ status \in {"NEW", "UNDER_REVIEW"} => owner \in Users /\ Staff[owner] = "QA"
  /\ status = "PROPOSAL_PREPARATION" => owner \in Users /\ Staff[owner] = "WRITER"
  /\ status = "PENDING_APPROVAL" => author \in Users /\ Staff[author] = "WRITER"

RowInv == RowTypeOK /\ HolderCanAct

Entry(q) ==
  [data : Data(q) \cup {Missing}, answer : Data(q) \cup {Missing}, failed : BOOLEAN, misses : Misses]

CacheTypeOK ==
  /\ entry = [q \in Query |-> entry[q]]
  /\ \A q \in Query : entry[q] \in Entry(q)

TabTypeOK ==
  /\ me \in Users
  /\ page \in {"elsewhere", "details", "review", "edit"}
  /\ items \in Ticks \cup {"none"}
  /\ dialog \in Dialogs \cup {"none"}
  /\ mutation \in [Write -> Mutation]
  /\ others \in 0..MaxOthers

\* A write the tab knows of is missed only by data nobody looks at and nobody
\* fetches: whoever mounts them fetches them.
AckedIsOffPage ==
  \A q \in Query : acked \in entry[q].misses => ~Mounted(q) /\ ~Fetching(entry[q])

\* One that is under way is missed only by the data it has changed: those were
\* there when it was sent, so that the answer, should it find them mounted,
\* gives up any fetch that began before.
WritesAreOwed ==
  /\ AckedIsOffPage
  /\ \A q \in Query, w \in Write :
       w \in entry[q].misses => mutation[w].stage \notin {"idle", "sent"} /\ q = Changes(mutation[w].op)
  /\ \A w \in Write : mutation[w].stage # "idle" => entry[Changes(mutation[w].op)].data # Missing
  /\ page = "review" => entry["tender"].data # Missing

IInv == RowInv /\ CacheTypeOK /\ TabTypeOK /\ WritesAreOwed
-----------------------------------------------------------------------------
(* The row *)

\* The moves of the table, one by one.
LEMMA Moves ==
  /\ \A op : Move(op) => status \in TENDER_STATUSES /\ status' \in TENDER_STATUSES
  /\ Move("REVIEW_START") => status = "NEW" /\ status' = "UNDER_REVIEW"
  /\ Move("REVIEW_REJECT") => status = "UNDER_REVIEW" /\ status' = "REJECTED"
  /\ Move("ASSIGN_WRITER") => status = "UNDER_REVIEW" /\ status' = "PROPOSAL_PREPARATION"
  /\ Move("SUBMIT_FOR_APPROVAL") => status = "PROPOSAL_PREPARATION" /\ status' = "PENDING_APPROVAL"
  /\ Move("MANAGER_RETURN") => status = "PENDING_APPROVAL" /\ status' = "PROPOSAL_PREPARATION"
  /\ Move("MANAGER_STOP") => status = "PENDING_APPROVAL" /\ status' = "REJECTED"
  /\ Move("MARK_SUBMITTED") => status = "PENDING_APPROVAL" /\ status' = "SUBMITTED"
  /\ Move("RESULT_WON") => status = "SUBMITTED" /\ status' = "WON"
  /\ Move("RESULT_LOST") => status = "SUBMITTED" /\ status' = "LOST"
  BY DEF Move, TRANSITIONS, Rule, TENDER_STATUSES

\* What an operation does, one by one.
LEMMA Effects ==
  ASSUME NEW op \in PageOps, NEW u, NEW ticks, Effect(op, u, ticks)
  PROVE  \/ op = "REVIEW_START" /\ StartReview(u)
         \/ op = "SAVE_CHECKLIST" /\ Save(ticks)
         \/ op = "REVIEW_REJECT" /\ Reject
         \/ op = "ASSIGN_WRITER" /\ \E w \in Users : Staff[w] = "WRITER" /\ Assign(w)
         \/ op = "SUBMIT_FOR_APPROVAL" /\ Submit
         \/ op = "MANAGER_APPROVE" /\ Approve(u)
         \/ op = "MANAGER_RETURN" /\ Return
         \/ op = "MANAGER_STOP" /\ Stop
         \/ op = "MARK_SUBMITTED" /\ MarkSubmitted(u)
         \/ op = "RESULT_WON" /\ Move("RESULT_WON") /\ UNCHANGED <<owner, approved, author, ready>>
         \/ op = "RESULT_LOST" /\ Move("RESULT_LOST") /\ UNCHANGED <<owner, approved, author, ready>>
         \/ op \in {"REVIEW_APPROVE", "EDIT"} /\ UNCHANGED lifecycle
<1>1. op \in {"REVIEW_START", "SAVE_CHECKLIST", "REVIEW_REJECT", "ASSIGN_WRITER"}
      \/ op \in {"SUBMIT_FOR_APPROVAL", "MANAGER_APPROVE", "MANAGER_RETURN", "MANAGER_STOP"}
      \/ op \in {"MARK_SUBMITTED", "RESULT_WON", "RESULT_LOST", "REVIEW_APPROVE", "EDIT"}
  BY DEF PageOps, BarOps, ReviewOps
<1>2. CASE op \in {"REVIEW_START", "SAVE_CHECKLIST", "REVIEW_REJECT", "ASSIGN_WRITER"}
  BY <1>2 DEF Effect
<1>3. CASE op \in {"SUBMIT_FOR_APPROVAL", "MANAGER_APPROVE", "MANAGER_RETURN", "MANAGER_STOP"}
  BY <1>3 DEF Effect
<1>4. CASE op \in {"MARK_SUBMITTED", "RESULT_WON", "RESULT_LOST", "REVIEW_APPROVE", "EDIT"}
  BY <1>4 DEF Effect
<1> QED
  BY <1>1, <1>2, <1>3, <1>4

\* Whoever calls it, an operation that is admitted leaves an open tender with
\* somebody who can act.
LEMMA EffectKeepsRow ==
  ASSUME RowInv, NEW op \in PageOps, NEW u \in Users, NEW ticks,
         AdmitsNow(op, u), Effect(op, u, ticks)
  PROVE  RowInv'
<1>0. /\ RowTypeOK /\ HolderCanAct
      /\ op = "REVIEW_START" => Staff[u] = "QA"
  BY DEF RowInv, AdmitsNow, Admits, RouteRoles, ReviewOps
<1>1. CASE op \in {"REVIEW_START", "SAVE_CHECKLIST", "REVIEW_REJECT", "ASSIGN_WRITER"}
  <2>1. CASE op = "REVIEW_START" /\ StartReview(u)
    BY <1>0, <2>1, Moves DEF StartReview, RowInv, RowTypeOK, HolderCanAct
  <2>2. CASE op = "SAVE_CHECKLIST" /\ Save(ticks)
    BY <1>0, <2>2 DEF Save, RowInv, RowTypeOK, HolderCanAct
  <2>3. CASE op = "REVIEW_REJECT" /\ Reject
    BY <1>0, <2>3, Moves DEF Reject, RowInv, RowTypeOK, HolderCanAct
  <2>4. CASE op = "ASSIGN_WRITER" /\ \E w \in Users : Staff[w] = "WRITER" /\ Assign(w)
    BY <1>0, <2>4, Moves DEF Assign, RowInv, RowTypeOK, HolderCanAct
  <2> QED
    BY <1>1, <2>1, <2>2, <2>3, <2>4, Effects
<1>2. CASE op \in {"SUBMIT_FOR_APPROVAL", "MANAGER_APPROVE", "MANAGER_RETURN", "MANAGER_STOP"}
  <2>1. CASE op = "SUBMIT_FOR_APPROVAL" /\ Submit
    BY <1>0, <2>1, Moves DEF Submit, RowInv, RowTypeOK, HolderCanAct
  <2>2. CASE op = "MANAGER_APPROVE" /\ Approve(u)
    BY <1>0, <2>2 DEF Approve, RowInv, RowTypeOK, HolderCanAct
  <2>3. CASE op = "MANAGER_RETURN" /\ Return
    BY <1>0, <2>3, Moves DEF Return, RowInv, RowTypeOK, HolderCanAct
  <2>4. CASE op = "MANAGER_STOP" /\ Stop
    BY <1>0, <2>4, Moves DEF Stop, RowInv, RowTypeOK, HolderCanAct
  <2> QED
    BY <1>2, <2>1, <2>2, <2>3, <2>4, Effects
<1>3. CASE op \in {"MARK_SUBMITTED", "RESULT_WON", "RESULT_LOST", "REVIEW_APPROVE", "EDIT"}
  <2>1. CASE op = "MARK_SUBMITTED" /\ MarkSubmitted(u)
    BY <1>0, <2>1, Moves DEF MarkSubmitted, RowInv, RowTypeOK, HolderCanAct
  <2>2. CASE /\ op \in {"RESULT_WON", "RESULT_LOST"} /\ Move(op)
             /\ UNCHANGED <<owner, approved, author, ready>>
    BY <1>0, <2>2, Moves DEF RowInv, RowTypeOK, HolderCanAct
  <2>3. CASE op \in {"REVIEW_APPROVE", "EDIT"} /\ UNCHANGED lifecycle
    BY <1>0, <2>3 DEF lifecycle, RowInv, RowTypeOK, HolderCanAct
  <2> QED
    BY <1>3, <2>1, <2>2, <2>3, Effects
<1> QED
  BY <1>1, <1>2, <1>3 DEF PageOps, BarOps, ReviewOps

\* The checklist is saved whatever the status is.
LEMMA SaveStep ==
  ASSUME RowInv, NEW ticks, Save(ticks)
  PROVE  RowInv'
  BY DEF Save, RowInv, RowTypeOK, HolderCanAct
-----------------------------------------------------------------------------
(* The cache *)

\* The API answers a query with data of its kind.
LEMMA NowType ==
  ASSUME RowTypeOK, NEW q \in Query
  PROVE  Now(q) \in Data(q)
  BY DEF RowTypeOK, Query, Now, Data, Row, Rows, Ticks, StatusOrAbsent

\* An entry that was fetched, answered or forgotten about: data there were stay
\* there, and it misses no more of the writes under way than it did.
Kept(e, f) ==
  /\ e.data # Missing => f.data # Missing
  /\ \A w \in Write : w \in f.misses => w \in e.misses

LEMMA EntrySteps ==
  ASSUME NEW q \in Query, NEW e \in Entry(q), NEW now \in Data(q)
  PROVE  /\ Kept(e, e)
         /\ Fetch(e, now) \in Entry(q) /\ Kept(e, Fetch(e, now)) /\ Fetch(e, now).misses = {}
         /\ MountEntry(e, now) \in Entry(q) /\ Kept(e, MountEntry(e, now))
         /\ Invalidate(e, now) \in Entry(q) /\ Kept(e, Invalidate(e, now))
         /\ e.data # Missing => Invalidate(e, now).misses = {}
         /\ Invalidate(e, now).data = e.data /\ Invalidate(e, now).failed = e.failed
         /\ Fetching(e) => Arrived(e) \in Entry(q) /\ Kept(e, Arrived(e)) /\ Arrived(e).data # Missing
         /\ FetchFailed(e) \in Entry(q) /\ Kept(e, FetchFailed(e))
<1> DEFINE D == Data(q) \cup {Missing}
<1>0. /\ e \in [data : D, answer : D, failed : BOOLEAN, misses : Misses] /\ now \in D /\ Missing \in D
      /\ {} \in Misses /\ Entry(q) = [data : D, answer : D, failed : BOOLEAN, misses : Misses]
  BY DEF Entry, Misses
<1> HIDE DEF D
<1>1. /\ Fetch(e, now) \in Entry(q) /\ Kept(e, Fetch(e, now)) /\ Fetch(e, now).misses = {}
      /\ Fetch(e, now).data = e.data /\ Fetch(e, now).failed = e.failed
  BY <1>0 DEF Fetch, Kept
<1>2. Fetching(e) => Arrived(e) \in Entry(q) /\ Kept(e, Arrived(e)) /\ Arrived(e).data # Missing
  BY <1>0 DEF Arrived, Fetching, Kept
<1>3. FetchFailed(e) \in Entry(q) /\ Kept(e, FetchFailed(e))
  BY <1>0 DEF FetchFailed, Kept
<1>4. Kept(e, e)
  BY DEF Kept
<1> QED
  BY <1>1, <1>2, <1>3, <1>4 DEF MountEntry, Invalidate

\* Fetching makes an entry catch up with what the tab knows, unless it was under
\* way before.
LEMMA EntryCatchesUp ==
  ASSUME NEW q \in Query, NEW e \in Entry(q), NEW now \in Data(q),
         acked \in e.misses => ~Fetching(e)
  PROVE  /\ acked \notin MountEntry(e, now).misses
         /\ acked \notin Invalidate(e, now).misses
         /\ Fetching(e) => acked \notin Arrived(e).misses
         /\ acked \notin FetchFailed(e).misses
<1>1. Fetch(e, now).misses = {}
  BY EntrySteps
<1>2. (Fetching(e) => Arrived(e).misses = e.misses) /\ FetchFailed(e).misses = {}
  BY DEF Entry, Arrived, FetchFailed
<1> QED
  BY <1>1, <1>2 DEF MountEntry, Invalidate

\* A write that goes by another name.
LEMMA RenamedEntry ==
  ASSUME NEW q \in Query, NEW e \in Entry(q), NEW w, NEW v \in SUBSET {acked, slipped}
  PROVE  /\ Renamed(e, w, v) \in Entry(q) /\ Renamed(e, w, v).data = e.data
         /\ Renamed(e, w, v).answer = e.answer /\ Renamed(e, w, v).failed = e.failed
<1> DEFINE D == Data(q) \cup {Missing}
           without == IF w \in e.misses THEN (e.misses \ {w}) \cup v ELSE e.misses
<1>1. /\ e \in [data : D, answer : D, failed : BOOLEAN, misses : Misses] /\ without \in Misses
      /\ Entry(q) = [data : D, answer : D, failed : BOOLEAN, misses : Misses]
  BY DEF Entry, Misses
<1>2. Renamed(e, w, v) = [e EXCEPT !.misses = without]
  BY DEF Renamed
<1> HIDE DEF D, without
<1> QED
  BY <1>1, <1>2

LEMMA RenamedMisses ==
  ASSUME NEW q \in Query, NEW e \in Entry(q), NEW w, NEW v
  PROVE  Renamed(e, w, v).misses = IF w \in e.misses THEN (e.misses \ {w}) \cup v ELSE e.misses
  BY DEF Renamed, Entry

\* A write that is committed.
LEMMA CommittedFields ==
  ASSUME NEW q \in Query, NEW e \in Entry(q), NEW w \in Write
  PROVE  /\ CommittedAfter(e, w) \in Entry(q) /\ CommittedAfter(e, w).data = e.data
         /\ CommittedAfter(e, w).answer = e.answer /\ CommittedAfter(e, w).failed = e.failed
         /\ CommittedAfter(e, w).misses \subseteq e.misses \cup {w}
<1> DEFINE D == Data(q) \cup {Missing}
<1>1. /\ e \in [data : D, answer : D, failed : BOOLEAN, misses : Misses]
      /\ e.misses \cup {w} \in Misses
      /\ Entry(q) = [data : D, answer : D, failed : BOOLEAN, misses : Misses]
  BY DEF Entry, Misses
<1>2. CommittedAfter(e, w) = e \/ CommittedAfter(e, w) = [e EXCEPT !.misses = e.misses \cup {w}]
  BY DEF CommittedAfter
<1> HIDE DEF D
<1> QED
  BY <1>1, <1>2
-----------------------------------------------------------------------------
(* The steps *)

LEMMA Parts ==
  ASSUME IInv
  PROVE  /\ RowInv /\ RowTypeOK /\ CacheTypeOK /\ TabTypeOK /\ WritesAreOwed
         /\ \A q \in Query : entry[q] \in Entry(q) /\ Now(q) \in Data(q)
         /\ \A w \in Write : mutation[w] \in Mutation
         /\ "tender" \in Query /\ "checklist" \in Query
         /\ \A op : Changes(op) \in Query
         /\ \A q \in Query : acked \in entry[q].misses => ~Mounted(q) /\ ~Fetching(entry[q])
<1>1. RowInv /\ RowTypeOK /\ CacheTypeOK /\ TabTypeOK /\ WritesAreOwed
  BY DEF IInv, RowInv
<1>2. (\A q \in Query : entry[q] \in Entry(q)) /\ \A w \in Write : mutation[w] \in Mutation
  BY <1>1 DEF CacheTypeOK, TabTypeOK
<1>3. "tender" \in Query /\ "checklist" \in Query /\ \A op : Changes(op) \in Query
  BY DEF Query, Changes
<1>4. AckedIsOffPage
  BY <1>1 DEF WritesAreOwed
<1> QED
  BY <1>1, <1>2, <1>3, <1>4, NowType DEF AckedIsOffPage

\* Every mutation is where it was, though perhaps without its component.
SameStages ==
  /\ mutation' \in [Write -> Mutation]
  /\ \A w \in Write : mutation'[w].stage = mutation[w].stage /\ mutation'[w].op = mutation[w].op

\* A query that the step mounts or answers misses nothing the tab knows of.
CaughtUp(q) ==
  acked \in entry'[q].misses => entry'[q] = entry[q] /\ (Mounted(q)' => Mounted(q))

\* Queries come and go, no mutation is sent, served or answered.
LEMMA QueryStep ==
  ASSUME IInv, CacheTypeOK', SameStages,
         \A q \in Query : Kept(entry[q], entry'[q]) /\ CaughtUp(q),
         page' = "review" => page = "review" \/ entry'["tender"].data # Missing
  PROVE  WritesAreOwed'
<1>0. WritesAreOwed /\ (\A op : Changes(op) \in Query) /\ "tender" \in Query
  BY Parts
<1>1. AckedIsOffPage'
  BY <1>0 DEF WritesAreOwed, AckedIsOffPage, CaughtUp, Fetching
<1>2. ASSUME NEW q \in Query, NEW w \in Write, w \in entry'[q].misses
      PROVE  mutation'[w].stage \notin {"idle", "sent"} /\ q = Changes(mutation'[w].op)
  BY <1>0, <1>2 DEF WritesAreOwed, Kept, SameStages
<1>3. ASSUME NEW w \in Write, mutation'[w].stage # "idle"
      PROVE  entry'[Changes(mutation'[w].op)].data # Missing
  BY <1>0, <1>3 DEF WritesAreOwed, Kept, SameStages
<1>4. page' = "review" => entry'["tender"].data # Missing
  BY <1>0 DEF WritesAreOwed, Kept
<1> QED
  BY <1>1, <1>2, <1>3, <1>4 DEF WritesAreOwed, Changes

\* One entry is replaced by another of its kind.
LEMMA EntryReplaced ==
  ASSUME IInv, NEW q \in Query, NEW f \in Entry(q), entry' = [entry EXCEPT ![q] = f]
  PROVE  /\ CacheTypeOK' /\ entry'[q] = f
         /\ \A p \in Query : p # q => entry'[p] = entry[p]
  BY Parts DEF CacheTypeOK

\* The row stays as it is.
LEMMA RowStays ==
  ASSUME RowInv, UNCHANGED lifecycle
  PROVE  RowInv'
  BY DEF lifecycle, RowInv, RowTypeOK, HolderCanAct

\* Somebody else's request, and what is between the user and the page.
LEMMA OthersStep ==
  ASSUME IInv, OthersAct
  PROVE  IInv'
<1>0. /\ RowInv /\ CacheTypeOK /\ TabTypeOK
      /\ UNCHANGED <<me, page, items, dialog, entry, mutation>>
  BY Parts DEF OthersAct, local
<1>1. RowInv'
  BY <1>0, EffectKeepsRow DEF OthersAct
<1>2. others' \in 0..MaxOthers
  BY <1>0, WriteAssumption DEF OthersAct, TabTypeOK
<1>3. WritesAreOwed'
  BY <1>0 DEF IInv, WritesAreOwed, AckedIsOffPage, Mounted, Mounts, Shown, Fetching, Changes
<1>4. CacheTypeOK' /\ TabTypeOK'
  BY <1>0, <1>2 DEF CacheTypeOK, Entry, Data, Rows, Ticks, Misses, TabTypeOK, Mutation
<1> QED
  BY <1>1, <1>3, <1>4 DEF IInv

\* Components that leave.
LEMMA LeaveFields ==
  ASSUME IInv, NEW to, Leave(to)
  PROVE  dialog' \in Dialogs \cup {"none"} /\ SameStages
<1> DEFINE stays(w) == /\ mutation[w].here
                       /\ CASE mutation[w].op = "EDIT" -> to = "edit"
                            [] mutation[w].op \in ReviewOps -> to = "review"
                            [] OTHER -> OnTender(to)
<1>0. TabTypeOK /\ \A w \in Write : mutation[w] \in Mutation
  BY Parts
<1>1. dialog' \in Dialogs \cup {"none"}
  BY <1>0 DEF Leave, TabTypeOK
<1>2. mutation' = [w \in Write |-> [mutation[w] EXCEPT !.here = stays(w)]]
  BY DEF Leave
<1>3. \A w \in Write : stays(w) \in BOOLEAN
  OBVIOUS
<1> HIDE DEF stays
<1>4. ASSUME NEW w \in Write
      PROVE  /\ mutation'[w] \in Mutation
             /\ mutation'[w].stage = mutation[w].stage /\ mutation'[w].op = mutation[w].op
  BY <1>0, <1>2, <1>3 DEF Mutation
<1>5. mutation' \in [Write -> Mutation]
  <2>1. mutation' = [w \in Write |-> mutation'[w]]
    BY <1>2
  <2> QED
    BY <1>4, <2>1
<1> QED
  BY <1>1, <1>4, <1>5 DEF SameStages

LEMMA NobodyLeaves ==
  ASSUME IInv, UNCHANGED mutation
  PROVE  SameStages
  BY Parts DEF SameStages, TabTypeOK

\* The ticks are those of the data, or none.
LEMMA TicksAreTicks ==
  ASSUME NEW e \in Entry("checklist")
  PROVE  /\ ItemsOf(e) \in Ticks \cup {"none"}
         /\ e.data \in Ticks \cup {Missing} /\ e.answer \in Ticks \cup {Missing}
         /\ Fetching(e) => e.answer \in Ticks
  BY DEF Entry, Data, ItemsOf, Fetching

\* A page is opened.
LEMMA OpenStep ==
  ASSUME IInv, NEW p \in {"elsewhere", "details", "review", "edit"}, Open(p)
  PROVE  IInv'
<1>0. /\ RowInv /\ CacheTypeOK /\ TabTypeOK /\ page' = p
      /\ UNCHANGED <<lifecycle, others, me>> /\ Leave(p)
      /\ \A q \in Query : entry[q] \in Entry(q) /\ Now(q) \in Data(q)
      /\ "tender" \in Query /\ "checklist" \in Query
  BY Parts DEF Open
<1>1. dialog' \in Dialogs \cup {"none"} /\ SameStages
  BY <1>0, LeaveFields
<1>2. entry' = [q \in Query |-> entry'[q]]
      /\ \A q \in Query : /\ entry'[q] \in Entry(q) /\ Kept(entry[q], entry'[q])
                          /\ CaughtUp(q)
  <2> DEFINE next(q) == IF q \in Mounts(p) /\ ~(OnTender(page) /\ OnTender(p) /\ Mounted(q))
                        THEN MountEntry(entry[q], Now(q)) ELSE entry[q]
  <2>1. entry' = [q \in Query |-> next(q)]
    BY DEF Open
  <2>2. \A q \in Query : next(q) \in {entry[q], MountEntry(entry[q], Now(q))}
    OBVIOUS
  <2>3. ASSUME NEW q \in Query
        PROVE  next(q) \in Entry(q) /\ Kept(entry[q], next(q))
    <3> DEFINE e == entry[q]
               m == MountEntry(e, Now(q))
    <3>1. m \in Entry(q) /\ Kept(e, m) /\ Kept(e, e)
      BY <1>0, EntrySteps
    <3> HIDE DEF m, next
    <3> QED
      BY <1>0, <2>2, <3>1 DEF m
  <2>4. ASSUME NEW q \in Query, acked \in next(q).misses
        PROVE  next(q) = entry[q] /\ (q \in Mounts(p) => Mounted(q))
    <3>1. acked \notin MountEntry(entry[q], Now(q)).misses
      BY Parts, EntryCatchesUp
    <3> QED
      BY <2>4, <3>1
  <2> HIDE DEF next
  <2>5. \A q \in Query : entry'[q] = next(q)
    BY <2>1
  <2>6. entry' = [q \in Query |-> entry'[q]]
    BY <2>1
  <2>7. \A q \in Query : CaughtUp(q)
    BY <1>0, <2>4, <2>5 DEF CaughtUp, Mounted
  <2> QED
    BY <2>3, <2>5, <2>6, <2>7
<1>3. CacheTypeOK'
  BY <1>2 DEF CacheTypeOK, Entry, Data, Rows, Misses
<1>4. items' \in Ticks \cup {"none"}
  BY <1>0, TicksAreTicks DEF Open
<1>5. WritesAreOwed'
  <2>1. page' = "review" => entry'["tender"].data # Missing
    BY <1>0, <1>2 DEF Open, Shown, Kept
  <2> QED
    BY <1>1, <1>2, <1>3, <2>1, QueryStep
<1>6. RowInv'
  BY <1>0, RowStays
<1>7. TabTypeOK'
  BY <1>0, <1>1, <1>4 DEF TabTypeOK, SameStages, Mutation, Ticks
<1> QED
  BY <1>3, <1>5, <1>6, <1>7 DEF IInv

\* The answer to a fetch of the checklist.
LEMMA ArriveChecklistStep ==
  ASSUME IInv, ArriveChecklist
  PROVE  IInv'
<1> DEFINE e == entry["checklist"]
<1>0. /\ RowInv /\ CacheTypeOK /\ TabTypeOK /\ Fetching(e)
      /\ UNCHANGED <<lifecycle, others, me, page, dialog, mutation>>
      /\ entry' = [entry EXCEPT !["checklist"] = Arrived(e)]
      /\ e \in Entry("checklist") /\ Now("checklist") \in Data("checklist")
      /\ "tender" \in Query /\ "checklist" \in Query
  BY Parts DEF ArriveChecklist
<1>1. Arrived(e) \in Entry("checklist") /\ Kept(e, Arrived(e)) /\ acked \notin Arrived(e).misses
  BY <1>0, Parts, EntrySteps, EntryCatchesUp
<1>2. /\ CacheTypeOK' /\ entry'["checklist"] = Arrived(e)
      /\ \A q \in Query : q # "checklist" => entry'[q] = entry[q]
  BY <1>0, <1>1, EntryReplaced
<1>3. \A q \in Query : Kept(entry[q], entry'[q]) /\ CaughtUp(q)
  BY <1>0, <1>1, <1>2 DEF Kept, CaughtUp, Mounted, Mounts, Shown
<1>4. items' \in Ticks \cup {"none"}
  <2>1. CASE ~ Mounted("checklist") \/ page # "review"
    BY <1>0, <2>1 DEF ArriveChecklist, TicksAfter, TabTypeOK
  <2>2. CASE Mounted("checklist") /\ page = "review"
    <3>1. items' \in {items, e.answer}
      BY <2>2 DEF ArriveChecklist, TicksAfter
    <3> QED
      BY <1>0, <3>1, TicksAreTicks DEF TabTypeOK
  <2> QED
    BY <2>1, <2>2
<1>5. WritesAreOwed'
  <2>1. SameStages
    BY <1>0, NobodyLeaves
  <2> QED
    BY <1>0, <1>2, <1>3, <2>1, QueryStep
<1>6. RowInv'
  BY <1>0, RowStays
<1>7. TabTypeOK'
  BY <1>0, <1>4 DEF TabTypeOK, Mutation, Ticks
<1> QED
  BY <1>2, <1>5, <1>6, <1>7 DEF IInv

\* The answer to a fetch of the tender.
LEMMA ArriveTenderStep ==
  ASSUME IInv, ArriveTender
  PROVE  IInv'
<1> DEFINE t == entry["tender"]
           c == entry["checklist"]
           back == page = "review" /\ ~Shown
           d == IF back THEN MountEntry(c, Now("checklist")) ELSE c
<1>0. /\ RowInv /\ CacheTypeOK /\ TabTypeOK /\ Fetching(t)
      /\ UNCHANGED <<lifecycle, others, me, page, dialog, mutation>>
      /\ entry' = [tender |-> Arrived(t), checklist |-> d]
      /\ t \in Entry("tender") /\ Now("tender") \in Data("tender")
      /\ c \in Entry("checklist") /\ Now("checklist") \in Data("checklist")
      /\ "tender" \in Query /\ "checklist" \in Query /\ Query = {"tender", "checklist"}
  BY Parts DEF ArriveTender, Query
<1>1. /\ Arrived(t) \in Entry("tender") /\ Kept(t, Arrived(t)) /\ Arrived(t).data # Missing
      /\ d \in Entry("checklist") /\ Kept(c, d)
      /\ acked \notin Arrived(t).misses /\ (back => acked \notin d.misses) /\ (~back => d = c)
  BY <1>0, Parts, EntrySteps, EntryCatchesUp
<1>2. items' \in Ticks \cup {"none"}
  BY <1>0, TicksAreTicks DEF ArriveTender, TabTypeOK
<1> HIDE DEF d
<1>3. entry'["tender"] = Arrived(t) /\ entry'["checklist"] = d /\ entry' = [q \in Query |-> entry'[q]]
  BY <1>0
<1>4. \A q \in Query : entry'[q] \in Entry(q) /\ Kept(entry[q], entry'[q]) /\ CaughtUp(q)
  <2>1. CaughtUp("tender")
    BY <1>1, <1>3 DEF CaughtUp
  <2>2. CaughtUp("checklist")
    <3>1. ~back => (Mounted("checklist")' => Mounted("checklist"))
      BY <1>0 DEF Mounted, Mounts
    <3> QED
      BY <1>1, <1>3, <3>1 DEF CaughtUp
  <2> QED
    BY <1>0, <1>1, <1>3, <2>1, <2>2
<1>5. CacheTypeOK'
  BY <1>3, <1>4 DEF CacheTypeOK, Entry, Data, Rows, Misses
<1>6. WritesAreOwed'
  <2>1. SameStages
    BY <1>0, NobodyLeaves
  <2> QED
    BY <1>0, <1>1, <1>3, <1>4, <1>5, <2>1, QueryStep
<1>7. RowInv'
  BY <1>0, RowStays
<1>8. TabTypeOK'
  BY <1>0, <1>2 DEF TabTypeOK, Mutation, Ticks
<1> QED
  BY <1>5, <1>6, <1>7, <1>8 DEF IInv

\* A fetch that has failed.
LEMMA FetchFailsStep ==
  ASSUME IInv, NEW q \in Query, FetchFails(q)
  PROVE  IInv'
<1>0. /\ RowInv /\ CacheTypeOK /\ TabTypeOK
      /\ UNCHANGED <<lifecycle, others, me, page>>
      /\ entry' = [entry EXCEPT ![q] = FetchFailed(entry[q])]
      /\ \A p \in Query : entry[p] \in Entry(p) /\ Now(p) \in Data(p)
  BY Parts DEF FetchFails, CacheTypeOK
<1>1. /\ FetchFailed(entry[q]) \in Entry(q) /\ Kept(entry[q], FetchFailed(entry[q]))
      /\ acked \notin FetchFailed(entry[q]).misses /\ FetchFailed(entry[q]).failed
  <2>1. FetchFailed(entry[q]).failed
    BY Parts DEF FetchFailed, Entry
  <2> QED
    BY <1>0, <2>1, Parts, EntrySteps, EntryCatchesUp
<1>2. /\ CacheTypeOK' /\ entry'[q] = FetchFailed(entry[q])
      /\ \A p \in Query : p # q => entry'[p] = entry[p]
  BY <1>0, <1>1, EntryReplaced
<1>3. \A p \in Query : Kept(entry[p], entry'[p]) /\ CaughtUp(p)
  <2>1. \A p \in Query : Mounted(p)' => Mounted(p)
    BY <1>0, <1>1, <1>2, Parts DEF Mounted, Mounts, Shown
  <2> QED
    BY <1>1, <1>2, <2>1 DEF Kept, CaughtUp
<1>4. dialog' \in Dialogs \cup {"none"} /\ SameStages /\ items' \in Ticks \cup {"none"}
  <2>1. CASE q = "tender" /\ OnTender(page)
    BY <2>1, LeaveFields DEF FetchFails
  <2>2. CASE ~(q = "tender" /\ OnTender(page))
    BY <1>0, <2>2, NobodyLeaves DEF FetchFails, TabTypeOK
  <2> QED
    BY <2>1, <2>2
<1>5. WritesAreOwed'
  BY <1>0, <1>2, <1>3, <1>4, QueryStep
<1>6. RowInv'
  BY <1>0, RowStays
<1>7. TabTypeOK'
  BY <1>0, <1>4 DEF TabTypeOK, SameStages, Mutation, Ticks
<1> QED
  BY <1>2, <1>5, <1>6, <1>7 DEF IInv

\* A tick, a dialog that is opened or closed.
LEMMA LookStep ==
  ASSUME IInv,
         UNCHANGED <<lifecycle, others, me, page, entry, mutation>>,
         items' \in Ticks \cup {"none"}, dialog' \in Dialogs \cup {"none"}
  PROVE  IInv'
<1>0. RowInv /\ CacheTypeOK /\ TabTypeOK /\ WritesAreOwed
  BY Parts
<1>1. RowInv'
  BY <1>0, RowStays
<1>2. CacheTypeOK' /\ TabTypeOK'
  BY <1>0 DEF CacheTypeOK, Entry, Data, Rows, Ticks, Misses, TabTypeOK, Mutation
<1>3. WritesAreOwed'
  BY <1>0 DEF WritesAreOwed, AckedIsOffPage, Mounted, Mounts, Shown, Fetching, Changes
<1> QED
  BY <1>1, <1>2, <1>3 DEF IInv

\* A mutation is sent from a page that has the data it is about.
LEMMA SendStep ==
  ASSUME IInv, NEW op \in PageOps, NEW ticks \in Ticks, Send(op, ticks),
         entry[Changes(op)].data # Missing
  PROVE  IInv'
<1>0. /\ RowInv /\ CacheTypeOK /\ TabTypeOK /\ WritesAreOwed
      /\ UNCHANGED <<lifecycle, others, me, page, items, dialog, entry>>
  BY Parts DEF Send, local
<1>1. PICK w \in Write :
        /\ mutation[w].stage = "idle"
        /\ mutation' = [mutation EXCEPT ![w] = [stage |-> "sent", op |-> op, ticks |-> ticks, here |-> TRUE]]
  BY DEF Send
<1>2. /\ mutation' \in [Write -> Mutation]
      /\ mutation'[w].stage = "sent" /\ mutation'[w].op = op
      /\ \A v \in Write : v # w => mutation'[v] = mutation[v]
  BY <1>0, <1>1 DEF TabTypeOK, Mutation
<1>3. CacheTypeOK' /\ TabTypeOK'
  BY <1>0, <1>2 DEF CacheTypeOK, Entry, Data, Rows, Ticks, Misses, TabTypeOK, Mutation
<1>4. WritesAreOwed'
  <2>1. AckedIsOffPage'
    BY <1>0 DEF WritesAreOwed, AckedIsOffPage, Mounted, Mounts, Shown, Fetching
  <2> QED
    BY <1>0, <1>1, <1>2, <2>1 DEF WritesAreOwed, Changes
<1>5. RowInv'
  BY <1>0, RowStays
<1> QED
  BY <1>3, <1>4, <1>5 DEF IInv

\* The buttons and the dialogs: what they send is about data that are there.
LEMMA ButtonStep ==
  ASSUME IInv,
         \/ Tick \/ ClickSave \/ ClickApprove
         \/ \E op \in PageOps : Click(op)
         \/ \E op \in Dialogs : OpenDialog(op)
         \/ CloseDialog \/ Confirm \/ ConfirmReject \/ SubmitForm
  PROVE  IInv'
<1>0. TabTypeOK /\ WritesAreOwed
  BY Parts
<1>1. /\ BarOps \subseteq PageOps /\ ReviewOps \subseteq PageOps /\ "EDIT" \in PageOps
      /\ {"SAVE_CHECKLIST", "REVIEW_APPROVE", "REVIEW_REJECT"} \subseteq ReviewOps
      /\ {"some", "all"} = Ticks /\ Dialogs \subseteq BarOps \cup ReviewOps
  BY DEF PageOps, BarOps, ReviewOps, Ticks, Dialogs
<1>2. ASSUME NEW op \in PageOps, Reachable(op)
      PROVE  entry[Changes(op)].data # Missing
  <2>1. Button(op) /\ Shown
    BY <1>2 DEF Reachable, Button
  <2>2. op \in {"SAVE_CHECKLIST", "REVIEW_APPROVE"} => entry["checklist"].data # Missing
    BY <1>1, <2>1 DEF Button, ReviewShown
  <2> QED
    BY <2>1, <2>2 DEF Shown, Changes
<1>3. CASE Tick
  BY <1>0, <1>3, LookStep DEF Tick, TabTypeOK
<1>4. CASE ClickSave
  <2>1. items \in Ticks /\ Reachable("SAVE_CHECKLIST") /\ Send("SAVE_CHECKLIST", items)
    BY <1>0, <1>4 DEF ClickSave, TabTypeOK
  <2> QED
    BY <1>1, <1>2, <2>1, SendStep
<1>5. CASE ClickApprove
  <2>1. Reachable("REVIEW_APPROVE") /\ Send("REVIEW_APPROVE", "all")
    BY <1>5 DEF ClickApprove
  <2> QED
    BY <1>1, <1>2, <2>1, SendStep
<1>6. CASE \E op \in PageOps : Click(op)
  BY <1>1, <1>2, <1>6, SendStep DEF Click
<1>7. CASE \E op \in Dialogs : OpenDialog(op)
  BY <1>0, <1>7, LookStep DEF OpenDialog, TabTypeOK
<1>8. CASE CloseDialog
  BY <1>0, <1>8, LookStep DEF CloseDialog, TabTypeOK
<1>9. CASE Confirm
  <2>1. dialog \in PageOps /\ Changes(dialog) = "tender" /\ Shown /\ Send(dialog, "some")
    BY <1>1, <1>9 DEF Confirm, Changes, BarOps
  <2> QED
    BY <1>1, <2>1, SendStep DEF Shown
<1>10. CASE ConfirmReject
  <2>1. page = "review" /\ Send("REVIEW_REJECT", "some")
    BY <1>10 DEF ConfirmReject, ReviewShown
  <2>2. entry[Changes("REVIEW_REJECT")].data # Missing
    BY <1>0, <2>1 DEF WritesAreOwed, Changes
  <2> QED
    BY <1>1, <2>1, <2>2, SendStep
<1>11. CASE SubmitForm
  <2>1. entry[Changes("EDIT")].data # Missing /\ Send("EDIT", "some")
    BY <1>11 DEF SubmitForm, FormFilled, Changes
  <2> QED
    BY <1>1, <2>1, SendStep
<1> QED
  BY <1>3, <1>4, <1>5, <1>6, <1>7, <1>8, <1>9, <1>10, <1>11

\* A mutation that has come to another stage.
LEMMA StageFields ==
  ASSUME IInv, NEW w \in Write, NEW stage \in {"sent", "saved", "committed", "refused"},
         mutation' = [mutation EXCEPT ![w].stage = stage]
  PROVE  /\ mutation' \in [Write -> Mutation]
         /\ mutation'[w].stage = stage /\ mutation'[w].op = mutation[w].op
         /\ \A v \in Write : v # w => mutation'[v] = mutation[v]
<1>1. mutation \in [Write -> Mutation] /\ mutation[w] \in Mutation
  BY Parts DEF TabTypeOK
<1>2. [mutation[w] EXCEPT !.stage = stage] \in Mutation
  BY <1>1 DEF Mutation
<1>3. mutation' = [mutation EXCEPT ![w] = [mutation[w] EXCEPT !.stage = stage]]
  BY <1>1
<1> QED
  BY <1>1, <1>2, <1>3 DEF Mutation

\* The API commits a write: the data it changed are behind it.
LEMMA CommitStep ==
  ASSUME IInv, NEW w \in Write, NEW stage \in {"saved", "committed"},
         mutation[w].stage # "idle", Committed(w, stage),
         UNCHANGED <<others, me, local>>, RowInv'
  PROVE  IInv'
<1> DEFINE q == Changes(mutation[w].op)
<1>0. /\ CacheTypeOK /\ TabTypeOK /\ WritesAreOwed
      /\ UNCHANGED <<others, me, page, items, dialog>>
      /\ mutation' = [mutation EXCEPT ![w].stage = stage]
      /\ entry' = [entry EXCEPT ![q] = CommittedAfter(entry[q], w)]
      /\ q \in Query /\ entry[q] \in Entry(q) /\ \A op : Changes(op) \in Query
  BY Parts DEF Committed, local, CacheTypeOK
<1>1. /\ mutation' \in [Write -> Mutation]
      /\ mutation'[w].stage = stage /\ mutation'[w].op = mutation[w].op
      /\ \A v \in Write : v # w => mutation'[v] = mutation[v]
  BY <1>0, StageFields
<1>2. /\ CommittedAfter(entry[q], w) \in Entry(q)
      /\ CommittedAfter(entry[q], w).data = entry[q].data
      /\ CommittedAfter(entry[q], w).answer = entry[q].answer
      /\ CommittedAfter(entry[q], w).failed = entry[q].failed
      /\ CommittedAfter(entry[q], w).misses \subseteq entry[q].misses \cup {w}
  BY <1>0, CommittedFields
<1>3. /\ CacheTypeOK' /\ entry'[q] = CommittedAfter(entry[q], w)
      /\ \A p \in Query : p # q => entry'[p] = entry[p]
  BY <1>0, <1>2, EntryReplaced
<1>4. \A p \in Query : /\ entry'[p].data = entry[p].data
                       /\ entry'[p].answer = entry[p].answer /\ entry'[p].failed = entry[p].failed
                       /\ entry'[p].misses \subseteq entry[p].misses \cup {w}
                       /\ p # q => entry'[p].misses = entry[p].misses
  BY <1>2, <1>3
<1>5. TabTypeOK'
  BY <1>0, <1>1 DEF TabTypeOK, Mutation, Ticks
<1>6. WritesAreOwed'
  <2>1. AckedIsOffPage'
    <3>1. \A p \in Query : Mounted(p)' = Mounted(p) /\ Fetching(entry'[p]) = Fetching(entry[p])
      BY <1>0, <1>4, Parts DEF Mounted, Mounts, Shown, Fetching
    <3>2. \A p \in Query : acked \in entry'[p].misses => acked \in entry[p].misses
      BY <1>4, WriteAssumption
    <3> QED
      BY <3>1, <3>2, Parts DEF AckedIsOffPage, Fetching
  <2>2. ASSUME NEW p \in Query, NEW v \in Write, v \in entry'[p].misses
        PROVE  mutation'[v].stage \notin {"idle", "sent"} /\ p = Changes(mutation'[v].op)
    <3>1. CASE v = w
      <4>1. mutation[w].stage \notin {"idle", "sent"} \/ w \notin entry[p].misses
        BY <1>0 DEF WritesAreOwed
      <4>2. p = q
        BY <1>0, <1>4, <2>2, <3>1 DEF WritesAreOwed
      <4> QED
        BY <1>1, <3>1, <4>2
    <3>2. CASE v # w
      BY <1>0, <1>1, <1>4, <2>2, <3>2 DEF WritesAreOwed
    <3> QED
      BY <3>1, <3>2
  <2>3. ASSUME NEW v \in Write, mutation'[v].stage # "idle"
        PROVE  entry'[Changes(mutation'[v].op)].data # Missing
    <3>1. mutation[v].stage # "idle" /\ mutation'[v].op = mutation[v].op
      BY <1>1, <2>3
    <3> QED
      BY <1>0, <1>4, <3>1 DEF WritesAreOwed
  <2>4. page' = "review" => entry'["tender"].data # Missing
    BY <1>0, <1>4 DEF WritesAreOwed, Query
  <2> QED
    BY <2>1, <2>2, <2>3, <2>4 DEF WritesAreOwed, Changes
<1> QED
  BY <1>3, <1>5, <1>6 DEF IInv

\* The API refuses a mutation, or an approval comes through: nothing changes.
LEMMA AnswerStep ==
  ASSUME IInv, NEW w \in Write, NEW stage \in {"committed", "refused"},
         mutation[w].stage # "idle",
         mutation' = [mutation EXCEPT ![w].stage = stage],
         UNCHANGED <<lifecycle, entry, others, me, local>>
  PROVE  IInv'
<1>0. /\ RowInv /\ CacheTypeOK /\ TabTypeOK /\ WritesAreOwed
      /\ UNCHANGED <<others, me, page, items, dialog>>
  BY Parts DEF local
<1>1. /\ mutation' \in [Write -> Mutation]
      /\ mutation'[w].stage = stage /\ mutation'[w].op = mutation[w].op
      /\ \A v \in Write : v # w => mutation'[v] = mutation[v]
  BY StageFields
<1>2. CacheTypeOK' /\ TabTypeOK'
  BY <1>0, <1>1 DEF CacheTypeOK, Entry, Data, Rows, Ticks, Misses, TabTypeOK, Mutation
<1>3. WritesAreOwed'
  <2>1. AckedIsOffPage'
    BY <1>0 DEF WritesAreOwed, AckedIsOffPage, Mounted, Mounts, Shown, Fetching
  <2> QED
    BY <1>0, <1>1, <2>1 DEF WritesAreOwed, Changes
<1>4. RowInv'
  BY <1>0, RowStays
<1> QED
  BY <1>2, <1>3, <1>4 DEF IInv

\* The API serves a mutation.
LEMMA ServeStep ==
  ASSUME IInv, NEW w \in Write, Serve(w) \/ ServeApproval(w)
  PROVE  IInv'
<1> DEFINE m == mutation[w]
<1>0. RowInv /\ TabTypeOK /\ m \in Mutation /\ me \in Users /\ UNCHANGED <<others, me, local>>
  BY Parts DEF TabTypeOK, Serve, ServeApproval
<1>1. m.op \in PageOps
  BY <1>0 DEF Mutation
<1>2. CASE Serve(w) /\ AdmitsNow(m.op, me)
  <2>1. Effect(m.op, me, m.ticks) /\ Committed(w, "committed") /\ m.stage # "idle"
    BY <1>2 DEF Serve
  <2>2. RowInv'
    BY <1>0, <1>1, <1>2, <2>1, EffectKeepsRow
  <2> QED
    BY <1>0, <2>1, <2>2, CommitStep
<1>3. CASE Serve(w) /\ ~AdmitsNow(m.op, me)
  <2>1. /\ mutation' = [mutation EXCEPT ![w].stage = "refused"] /\ m.stage # "idle"
        /\ UNCHANGED <<lifecycle, entry>>
    BY <1>3 DEF Serve
  <2> QED
    BY <1>0, <2>1, AnswerStep
<1>4. CASE ServeApproval(w) /\ m.stage = "sent"
  <2>1. Save(m.ticks) /\ Committed(w, "saved")
    BY <1>4 DEF ServeApproval
  <2>2. RowInv'
    BY <1>0, <2>1, SaveStep
  <2> QED
    BY <1>0, <1>4, <2>1, <2>2, CommitStep
<1>5. CASE ServeApproval(w) /\ m.stage # "sent"
  <2>1. /\ m.stage = "saved" /\ UNCHANGED <<lifecycle, entry>>
        /\ \/ mutation' = [mutation EXCEPT ![w].stage = "committed"]
           \/ mutation' = [mutation EXCEPT ![w].stage = "refused"]
    BY <1>5 DEF ServeApproval
  <2> QED
    BY <1>0, <2>1, AnswerStep
<1> QED
  BY <1>2, <1>3, <1>4, <1>5

\* What the tab is told of: the slot is free, and nothing misses the write by
\* its name.
LEMMA SettledStep ==
  ASSUME IInv, NEW w \in Write, Settled(w), CacheTypeOK', AckedIsOffPage',
         \A q \in Query : Kept(entry[q], entry'[q]) /\ w \notin entry'[q].misses,
         page' = "review" => page = "review"
  PROVE  mutation' \in [Write -> Mutation] /\ WritesAreOwed'
<1>0. /\ TabTypeOK /\ WritesAreOwed /\ (\A op : Changes(op) \in Query) /\ "tender" \in Query
      /\ Idle \in Mutation /\ Idle.stage = "idle"
  BY Parts DEF Idle, Mutation, PageOps, Ticks
<1>1. /\ mutation' \in [Write -> Mutation] /\ mutation'[w].stage = "idle"
      /\ \A v \in Write : v # w => mutation'[v] = mutation[v]
  BY <1>0 DEF Settled, TabTypeOK
<1>3. ASSUME NEW q \in Query, NEW v \in Write, v \in entry'[q].misses
      PROVE  mutation'[v].stage \notin {"idle", "sent"} /\ q = Changes(mutation'[v].op)
  BY <1>0, <1>1, <1>3 DEF WritesAreOwed, Kept
<1>4. ASSUME NEW v \in Write, mutation'[v].stage # "idle"
      PROVE  entry'[Changes(mutation'[v].op)].data # Missing
  BY <1>0, <1>1, <1>4 DEF WritesAreOwed, Kept
<1>5. page' = "review" => entry'["tender"].data # Missing
  BY <1>0 DEF WritesAreOwed, Kept
<1> QED
  BY <1>1, <1>3, <1>4, <1>5 DEF WritesAreOwed, Changes

\* The queries after onSuccess: only those of the data the write has changed
\* miss it.  If they are mounted they are fetched anew, and if not the write is
\* `acked` where nothing is fetched.
LEMMA EntriesAfterKept ==
  ASSUME IInv, NEW w \in Write, mutation[w].stage = "committed"
  PROVE  /\ EntriesAfter(w) = [q \in Query |-> EntriesAfter(w)[q]]
         /\ \A q \in Query : /\ EntriesAfter(w)[q] \in Entry(q)
                             /\ Kept(entry[q], EntriesAfter(w)[q])
                             /\ w \notin EntriesAfter(w)[q].misses
                             /\ EntriesAfter(w)[q].data = entry[q].data
                             /\ EntriesAfter(w)[q].failed = entry[q].failed
                             /\ acked \in EntriesAfter(w)[q].misses =>
                                  ~Mounted(q) /\ ~Fetching(EntriesAfter(w)[q])
<1>0. /\ WritesAreOwed /\ \A op : Changes(op) \in Query
      /\ \A q \in Query : entry[q] \in Entry(q) /\ Now(q) \in Data(q)
      /\ mutation[w].op \in PageOps
  BY Parts DEF Mutation
<1>1. Changes(mutation[w].op) \in InvalidatedBy(mutation[w].op)
  BY DEF Changes, InvalidatedBy, ReviewOps, Query
<1>2. ASSUME NEW q \in Query
      PROVE  /\ EntriesAfter(w)[q] \in Entry(q)
             /\ Kept(entry[q], EntriesAfter(w)[q])
             /\ w \notin EntriesAfter(w)[q].misses
             /\ EntriesAfter(w)[q].data = entry[q].data /\ EntriesAfter(w)[q].failed = entry[q].failed
             /\ acked \in EntriesAfter(w)[q].misses => ~Mounted(q) /\ ~Fetching(EntriesAfter(w)[q])
  <2> DEFINE e == entry[q]
             name == IF Fetching(e) /\ ~Mounted(q) THEN slipped ELSE acked
             named == Renamed(e, w, {name})
             after == EntriesAfter(w)[q]
  <2>1. /\ named \in Entry(q) /\ named.data = e.data
        /\ named.answer = e.answer /\ named.failed = e.failed
        /\ w \notin e.misses => named.misses = e.misses
        /\ w \in e.misses => named.misses = (e.misses \ {w}) \cup {name}
    <3> DEFINE v == {name}
    <3>1. v \in SUBSET {acked, slipped} /\ e \in Entry(q)
      BY <1>0
    <3>2. Renamed(e, w, v) \in Entry(q) /\ Renamed(e, w, v).data = e.data
          /\ Renamed(e, w, v).answer = e.answer /\ Renamed(e, w, v).failed = e.failed
      <4> HIDE DEF e, v
      <4> QED
        BY <3>1, RenamedEntry
    <3>3. Renamed(e, w, v).misses = IF w \in e.misses THEN (e.misses \ {w}) \cup v ELSE e.misses
      <4> HIDE DEF e, v
      <4> QED
        BY <3>1, RenamedMisses
    <3> QED
      BY <3>2, <3>3
  <2>2. after = IF q \in InvalidatedBy(mutation[w].op) /\ Mounted(q)
                THEN Invalidate(named, Now(q)) ELSE named
    BY DEF EntriesAfter
  <2>3. w \notin named.misses /\ Kept(e, named) /\ (Fetching(named) <=> Fetching(e))
    BY <2>1, WriteAssumption DEF Kept, Fetching
  <2>4. acked \in e.misses => ~Mounted(q) /\ ~Fetching(e)
    BY Parts
  <2>5. /\ Invalidate(named, Now(q)) \in Entry(q) /\ Kept(named, Invalidate(named, Now(q)))
        /\ e.data # Missing => Invalidate(named, Now(q)).misses = {}
        /\ Invalidate(named, Now(q)).data = e.data /\ Invalidate(named, Now(q)).failed = e.failed
    <3>1. named \in Entry(q) /\ Now(q) \in Data(q) /\ named.data = e.data /\ named.failed = e.failed
      BY <1>0, <2>1
    <3> HIDE DEF named
    <3> QED
      BY <3>1, EntrySteps
  <2>6. /\ after \in Entry(q) /\ Kept(e, after) /\ w \notin after.misses
        /\ after.data = e.data /\ after.failed = e.failed
    <3> HIDE DEF e, named, after
    <3> QED
      BY <2>1, <2>2, <2>3, <2>5 DEF Kept
  <2>7. acked \in after.misses => ~Mounted(q) /\ ~Fetching(after)
    <3>1. CASE w \in e.misses /\ Mounted(q)
      <4>1. q = Changes(mutation[w].op) /\ e.data # Missing
        BY <1>0, <3>1 DEF WritesAreOwed
      <4>2. after = Invalidate(named, Now(q))
        BY <1>1, <2>2, <3>1, <4>1
      <4> QED
        BY <2>5, <4>1, <4>2
    <3>2. CASE w \in e.misses /\ ~Mounted(q)
      <4>1. after = named /\ (acked \in named.misses => acked \in e.misses \/ name = acked)
        BY <2>1, <2>2, <3>2
      <4>2. name = acked => ~Fetching(e)
        BY <3>2, WriteAssumption
      <4> HIDE DEF e, name, named, after
      <4> QED
        BY <2>3, <2>4, <3>2, <4>1, <4>2
    <3>3. CASE w \notin e.misses
      <4>1. acked \in named.misses => ~Mounted(q) /\ ~Fetching(named)
        BY <2>1, <2>3, <2>4, <3>3
      <4>2. acked \notin Invalidate(named, Now(q)).misses
        <5>1. named \in Entry(q) /\ Now(q) \in Data(q)
          BY <1>0, <2>1
        <5> HIDE DEF named
        <5> QED
          BY <4>1, <5>1, EntryCatchesUp
      <4> HIDE DEF named, after
      <4> QED
        BY <2>2, <4>1, <4>2
    <3> QED
      BY <3>1, <3>2, <3>3
  <2> QED
    BY <2>6, <2>7
<1>3. EntriesAfter(w) = [q \in Query |-> EntriesAfter(w)[q]]
  BY DEF EntriesAfter
<1> QED
  BY <1>2, <1>3

\* onSuccess of the bar and the tab.
LEMMA SucceedStep ==
  ASSUME IInv, NEW w \in Write, Succeed(w)
  PROVE  IInv'
<1>0. /\ RowInv /\ TabTypeOK /\ mutation[w].stage = "committed"
      /\ Settled(w) /\ entry' = EntriesAfter(w)
      /\ dialog' \in {"none", dialog}
      /\ UNCHANGED <<lifecycle, others, me, page, items>>
  BY Parts DEF Succeed
<1>1. /\ entry' = [q \in Query |-> entry'[q]]
      /\ \A q \in Query : /\ entry'[q] \in Entry(q) /\ Kept(entry[q], entry'[q])
                          /\ w \notin entry'[q].misses
                          /\ entry'[q].data = entry[q].data /\ entry'[q].failed = entry[q].failed
                          /\ acked \in entry'[q].misses => ~Mounted(q) /\ ~Fetching(entry'[q])
  BY <1>0, EntriesAfterKept
<1>2. CacheTypeOK'
  BY <1>1 DEF CacheTypeOK, Entry, Data, Rows, Misses
<1>3. mutation' \in [Write -> Mutation] /\ WritesAreOwed'
  <2>1. \A q \in Query : Mounted(q)' = Mounted(q)
    BY <1>0, <1>1, Parts DEF Mounted, Mounts, Shown
  <2>2. AckedIsOffPage'
    BY <1>1, <2>1 DEF AckedIsOffPage, Fetching
  <2> QED
    BY <1>0, <1>1, <1>2, <2>2, SettledStep
<1>4. RowInv' /\ TabTypeOK'
  BY <1>0, <1>3, RowStays DEF TabTypeOK, Mutation, Ticks
<1> QED
  BY <1>2, <1>3, <1>4 DEF IInv

\* onSuccess of the form, which opens the page of the tender.
LEMMA FormSucceedsStep ==
  ASSUME IInv, NEW w \in Write, FormSucceeds(w)
  PROVE  IInv'
<1> DEFINE after == EntriesAfter(w)
<1>0. /\ RowInv /\ TabTypeOK /\ mutation[w].stage = "committed"
      /\ Settled(w)
      /\ entry' = IF OnTender(page) THEN after
                  ELSE [after EXCEPT !["tender"] = MountEntry(after["tender"], Row)]
      /\ page' = IF OnTender(page) THEN page ELSE "details"
      /\ UNCHANGED <<lifecycle, others, me, items, dialog>>
      /\ "tender" \in Query /\ Row \in Data("tender")
  <2>1. "tender" \in Query /\ Now("tender") = Row /\ Now("tender") \in Data("tender")
    BY Parts DEF Now
  <2>2. after = [q \in Query |-> after[q]]
    BY EntriesAfterKept DEF FormSucceeds
  <2> HIDE DEF after
  <2> QED
    BY <2>1, <2>2, Parts DEF FormSucceeds, after
<1>1. /\ after = [q \in Query |-> after[q]]
      /\ \A q \in Query : /\ after[q] \in Entry(q) /\ Kept(entry[q], after[q])
                          /\ w \notin after[q].misses
                          /\ after[q].data = entry[q].data /\ after[q].failed = entry[q].failed
                          /\ acked \in after[q].misses => ~Mounted(q) /\ ~Fetching(after[q])
  BY <1>0, EntriesAfterKept
<1> HIDE DEF after
<1>2. /\ entry' = [q \in Query |-> entry'[q]]
      /\ \A q \in Query : /\ entry'[q] \in Entry(q) /\ Kept(entry[q], entry'[q])
                          /\ w \notin entry'[q].misses
                          /\ acked \in entry'[q].misses => ~Mounted(q)' /\ ~Fetching(entry'[q])
  <2>1. CASE OnTender(page)
    <3>1. entry' = after /\ page' = page
      BY <1>0, <2>1
    <3>2. \A q \in Query : Mounted(q)' = Mounted(q)
      BY <1>0, <1>1, <3>1 DEF Mounted, Mounts, Shown
    <3> QED
      BY <1>1, <3>1, <3>2
  <2>2. CASE ~OnTender(page)
    <3> DEFINE f == MountEntry(after["tender"], Row)
    <3>1. f \in Entry("tender") /\ Kept(after["tender"], f) /\ acked \notin f.misses
      BY <1>0, <1>1, EntrySteps, EntryCatchesUp
    <3>2. entry' = [after EXCEPT !["tender"] = f]
      BY <1>0, <2>2
    <3> HIDE DEF f
    <3>3. entry'["tender"] = f /\ (\A q \in Query : q # "tender" => entry'[q] = after[q])
          /\ entry' = [q \in Query |-> entry'[q]]
      BY <1>0, <1>1, <3>2
    <3>4. /\ f \in Entry("tender") /\ Kept(entry["tender"], f)
          /\ w \notin f.misses /\ acked \notin f.misses
      BY <1>0, <1>1, <3>1 DEF Kept
    <3>5. \A q \in Query : q # "tender" => ~Mounted(q)'
      BY <1>0, <2>2 DEF Mounted, Mounts
    <3> QED
      BY <1>1, <3>3, <3>4, <3>5
  <2> QED
    BY <2>1, <2>2
<1>3. CacheTypeOK'
  BY <1>2 DEF CacheTypeOK, Entry, Data, Rows, Misses
<1>4. mutation' \in [Write -> Mutation] /\ WritesAreOwed'
  <2>1. page' = "review" => page = "review"
    BY <1>0
  <2>2. AckedIsOffPage'
    BY <1>2 DEF AckedIsOffPage, Fetching
  <2> QED
    BY <1>0, <1>2, <1>3, <2>1, <2>2, SettledStep
<1>5. RowInv' /\ TabTypeOK'
  BY <1>0, <1>4, RowStays DEF TabTypeOK, Mutation, Ticks
<1> QED
  BY <1>3, <1>4, <1>5 DEF IInv

\* onError.
LEMMA FailsStep ==
  ASSUME IInv, NEW w \in Write, Fails(w)
  PROVE  IInv'
<1>0. /\ RowInv /\ TabTypeOK /\ Settled(w)
      /\ entry' = [q \in Query |-> Renamed(entry[q], w, {})]
      /\ UNCHANGED <<lifecycle, others, me, page, items, dialog>>
      /\ \A q \in Query : entry[q] \in Entry(q)
  BY Parts DEF Fails, local
<1>1. /\ entry' = [q \in Query |-> entry'[q]]
      /\ \A q \in Query : /\ entry'[q] \in Entry(q) /\ Kept(entry[q], entry'[q])
                          /\ w \notin entry'[q].misses
                          /\ entry'[q].misses \subseteq entry[q].misses
                          /\ entry'[q].data = entry[q].data /\ entry'[q].answer = entry[q].answer
                          /\ entry'[q].failed = entry[q].failed
  <2>1. entry' = [q \in Query |-> entry'[q]] /\ \A q \in Query : entry'[q] = Renamed(entry[q], w, {})
    BY <1>0
  <2>2. ASSUME NEW q \in Query
        PROVE  /\ Renamed(entry[q], w, {}) \in Entry(q)
               /\ Renamed(entry[q], w, {}).data = entry[q].data
               /\ Renamed(entry[q], w, {}).answer = entry[q].answer
               /\ Renamed(entry[q], w, {}).failed = entry[q].failed
               /\ Renamed(entry[q], w, {}).misses = entry[q].misses \ {w}
    <3> DEFINE v == {}
    <3>1. v \in SUBSET {acked, slipped} /\ entry[q] \in Entry(q)
      BY <1>0
    <3>2. /\ Renamed(entry[q], w, v) \in Entry(q) /\ Renamed(entry[q], w, v).data = entry[q].data
          /\ Renamed(entry[q], w, v).answer = entry[q].answer
          /\ Renamed(entry[q], w, v).failed = entry[q].failed
      <4> HIDE DEF v
      <4> QED
        BY <3>1, RenamedEntry
    <3>3. Renamed(entry[q], w, v).misses =
            IF w \in entry[q].misses THEN (entry[q].misses \ {w}) \cup v ELSE entry[q].misses
      <4> HIDE DEF v
      <4> QED
        BY <3>1, RenamedMisses
    <3> QED
      BY <3>2, <3>3
  <2> QED
    BY <2>1, <2>2 DEF Kept
<1>2. CacheTypeOK'
  BY <1>1 DEF CacheTypeOK, Entry, Data, Rows, Misses
<1>3. mutation' \in [Write -> Mutation] /\ WritesAreOwed'
  <2>1. \A q \in Query : Mounted(q)' = Mounted(q) /\ Fetching(entry'[q]) = Fetching(entry[q])
    BY <1>0, <1>1, Parts DEF Mounted, Mounts, Shown, Fetching
  <2>2. AckedIsOffPage'
    BY <1>1, <2>1, Parts DEF AckedIsOffPage, Fetching
  <2> QED
    BY <1>0, <1>1, <1>2, <2>2, SettledStep
<1>4. RowInv' /\ TabTypeOK'
  BY <1>0, <1>3, RowStays DEF TabTypeOK, Mutation, Ticks
<1> QED
  BY <1>2, <1>3, <1>4 DEF IInv
-----------------------------------------------------------------------------
(* The theorems *)

LEMMA InitInvariant == Init => IInv
<1> SUFFICES ASSUME Init PROVE IInv
  OBVIOUS
<1>1. RowInv
  BY DEF Init, RowInv, RowTypeOK, HolderCanAct, TENDER_STATUSES
<1>2. CacheTypeOK /\ \A q \in Query : entry[q] = EmptyEntry
  <2>1. \A q \in Query : EmptyEntry \in Entry(q)
    BY DEF EmptyEntry, Entry, Misses
  <2> QED
    BY <2>1 DEF Init, CacheTypeOK
<1>3. TabTypeOK /\ Idle.stage = "idle"
  <2>1. Idle \in Mutation /\ Idle.stage = "idle"
    BY DEF Idle, Mutation, PageOps, Ticks
  <2> QED
    BY <2>1, WriteAssumption DEF Init, TabTypeOK
<1>4. WritesAreOwed
  BY <1>2, <1>3 DEF Init, WritesAreOwed, AckedIsOffPage, EmptyEntry
<1> QED
  BY <1>1, <1>2, <1>3, <1>4 DEF IInv

LEMMA StepInvariant == IInv /\ [Next]_vars => IInv'
<1> SUFFICES ASSUME IInv, [Next]_vars PROVE IInv'
  OBVIOUS
<1>1. CASE OthersAct
  BY <1>1, OthersStep
<1>2. CASE \E p \in {"elsewhere", "details", "review", "edit"} : Open(p)
  BY <1>2, OpenStep
<1>3. CASE (\E q \in Query : FetchFails(q)) \/ ArriveTender \/ ArriveChecklist
  BY <1>3, FetchFailsStep, ArriveTenderStep, ArriveChecklistStep
<1>4. CASE \/ Tick \/ ClickSave \/ ClickApprove
           \/ \E op \in PageOps : Click(op)
           \/ \E op \in Dialogs : OpenDialog(op)
           \/ CloseDialog \/ Confirm \/ ConfirmReject \/ SubmitForm
  BY <1>4, ButtonStep
<1>5. CASE \E w \in Write : Serve(w) \/ ServeApproval(w)
  BY <1>5, ServeStep
<1>6. CASE \E w \in Write : Succeed(w) \/ FormSucceeds(w) \/ Fails(w)
  BY <1>6, SucceedStep, FormSucceedsStep, FailsStep
<1>7. CASE UNCHANGED vars
  BY <1>7, LookStep, Parts DEF vars, local, TabTypeOK
<1> QED
  BY <1>1, <1>2, <1>3, <1>4, <1>5, <1>6, <1>7 DEF Next

\* The invariant of a tab on the page of a tender and the API behind it.
THEOREM Invariance == Spec => []IInv
  BY InitInvariant, StepInvariant, PTL DEF Spec

\* The queries hold data of their kind, whatever is late, lost or refused.
THEOREM TypeCorrectness == Spec => []TypeOK
<1>1. IInv => TypeOK
  <2> SUFFICES ASSUME IInv PROVE TypeOK
    OBVIOUS
  <2>1. \A q \in Query : EntryOK(entry[q], q)
    BY Parts DEF Entry, EntryOK
  <2> QED
    BY <2>1, Parts DEF TypeOK, TabTypeOK
<1> QED
  BY <1>1, Invariance, PTL

\* The bar, the tab and the routes, for any user and any row: of all that the
\* page can send, nothing it shows is refused for the row or the role, and
\* every move of the table that is admitted is shown.
LEMMA ShownIsAdmitted ==
  ASSUME NEW op \in PageOps, NEW u, NEW role, NEW row, Shows(op, u, role, row)
  PROVE  Admits(op, u, role, row, TRUE)
<1>1. CASE ActionsBarShows(op, u, role, row)
  BY <1>1 DEF ActionsBarShows, Admits, RouteRoles, ReviewOps, TRANSITIONS, Rule, WorkflowAction
<1>2. CASE ReviewTabShows(op, role, row)
  BY <1>2 DEF ReviewTabShows, Admits, RouteRoles, ReviewOps, TRANSITIONS, Rule, WorkflowAction
<1>3. CASE op = "EDIT" /\ canEdit(role, row)
  BY <1>3 DEF canEdit, Admits, RouteRoles, ReviewOps, WorkflowAction
<1> QED
  BY <1>1, <1>2, <1>3 DEF Shows

LEMMA MoveIsShown ==
  ASSUME NEW op \in WorkflowAction, NEW u, NEW role, NEW row, NEW complete,
         Admits(op, u, role, row, complete)
  PROVE  Shows(op, u, role, row)
<1>1. /\ op \in WorkflowAction => \E r \in TRANSITIONS : r.action = op /\ r.from = row.status /\ role \in r.roles
      /\ op = "SUBMIT_FOR_APPROVAL" => row.owner = u
      /\ op = "MARK_SUBMITTED" => row.approved
  BY DEF Admits
<1>2. \/ op \in {"REVIEW_START", "REVIEW_REJECT"} /\ ReviewTabShows(op, role, row)
      \/ ActionsBarShows(op, u, role, row)
  BY <1>1 DEF ActionsBarShows, ReviewTabShows, TRANSITIONS, Rule, WorkflowAction
<1> QED
  BY <1>2 DEF Shows

\* ActionsBar.tsx, ReviewTab.tsx and TenderDetailsPage.tsx against the guards
\* of the routes, in every state of the tender.
THEOREM PagesMatchRoutes == Spec => []OffersMatch
<1>1. OffersMatch
  BY ShownIsAdmitted, MoveIsShown DEF OffersMatch, AdmitsNow
<1> QED
  BY <1>1, PTL

\* Whoever holds an open tender has it on his dashboard and among his tasks,
\* with a button the API accepts.
LEMMA SomebodyActs ==
  ASSUME RowInv, \E m \in Users : Staff[m] = "MANAGER"
  PROVE  SomebodyIsAsked
<1>0. RowTypeOK /\ HolderCanAct
      /\ Row.status = status /\ Row.owner = owner
  BY DEF RowInv, Row
<1> SUFFICES ASSUME status \notin {"REJECTED", "WON", "LOST"}
             PROVE  \E u \in Users :
                      /\ Cards(u, Staff[u], Row)
                      /\ status = "SUBMITTED" \/ MyTasks(u, Staff[u], Row)
                      /\ \E op \in BarOps \cup ReviewOps : Shows(op, u, Staff[u], Row) /\ AdmitsNow(op, u)
  BY DEF SomebodyIsAsked
<1>1. CASE status = "NEW"
  <2>1. owner \in Users /\ Staff[owner] = "QA"
    BY <1>0, <1>1 DEF HolderCanAct
  <2>2. Cards(owner, Staff[owner], Row) /\ MyTasks(owner, Staff[owner], Row)
    BY <1>0, <1>1, <2>1 DEF Cards, MyTasks
  <2>3. Shows("REVIEW_START", owner, Staff[owner], Row) /\ AdmitsNow("REVIEW_START", owner)
    BY <1>0, <1>1, <2>1
       DEF Shows, ReviewTabShows, AdmitsNow, Admits, RouteRoles, ReviewOps, TRANSITIONS, Rule
  <2> QED
    BY <2>1, <2>2, <2>3 DEF ReviewOps
<1>2. CASE status = "UNDER_REVIEW"
  <2>1. owner \in Users /\ Staff[owner] = "QA"
    BY <1>0, <1>2 DEF HolderCanAct
  <2>2. Cards(owner, Staff[owner], Row) /\ MyTasks(owner, Staff[owner], Row)
    BY <1>0, <1>2, <2>1 DEF Cards, MyTasks
  <2>3. Shows("REVIEW_REJECT", owner, Staff[owner], Row) /\ AdmitsNow("REVIEW_REJECT", owner)
    BY <1>0, <1>2, <2>1
       DEF Shows, ReviewTabShows, AdmitsNow, Admits, RouteRoles, ReviewOps, TRANSITIONS, Rule
  <2> QED
    BY <2>1, <2>2, <2>3 DEF ReviewOps
<1>3. CASE status = "PROPOSAL_PREPARATION"
  <2>1. owner \in Users /\ Staff[owner] = "WRITER"
    BY <1>0, <1>3 DEF HolderCanAct
  <2>2. Cards(owner, Staff[owner], Row) /\ MyTasks(owner, Staff[owner], Row)
    BY <1>0, <1>3, <2>1 DEF Cards, MyTasks
  <2>3. Shows("SUBMIT_FOR_APPROVAL", owner, Staff[owner], Row) /\ AdmitsNow("SUBMIT_FOR_APPROVAL", owner)
    BY <1>0, <1>3, <2>1
       DEF Shows, ActionsBarShows, AdmitsNow, Admits, RouteRoles, ReviewOps, TRANSITIONS, Rule
  <2> QED
    BY <2>1, <2>2, <2>3 DEF BarOps
<1>4. CASE status \in {"PENDING_APPROVAL", "SUBMITTED"}
  <2>1. PICK m \in Users : Staff[m] = "MANAGER"
    OBVIOUS
  <2>2. Cards(m, Staff[m], Row) /\ (status = "SUBMITTED" \/ MyTasks(m, Staff[m], Row))
    BY <1>0, <1>4, <2>1 DEF Cards, MyTasks
  <2> DEFINE op == IF status = "SUBMITTED" THEN "RESULT_WON" ELSE "MANAGER_RETURN"
  <2>3. Shows(op, m, Staff[m], Row) /\ AdmitsNow(op, m)
    BY <1>0, <1>4, <2>1
       DEF Shows, ActionsBarShows, AdmitsNow, Admits, RouteRoles, ReviewOps, TRANSITIONS, Rule
  <2> QED
    BY <2>2, <2>3 DEF BarOps
<1> QED
  BY <1>0, <1>1, <1>2, <1>3, <1>4 DEF RowTypeOK, TENDER_STATUSES

\* M4.6, M4.7, M7.1: with a manager on the staff, no tender that is not decided
\* is stuck or out of everybody's sight.
THEOREM NeverStuck ==
  ASSUME \E m \in Users : Staff[m] = "MANAGER"
  PROVE  Spec => []SomebodyIsAsked
<1>1. IInv => SomebodyIsAsked
  BY SomebodyActs, Parts
<1> QED
  BY <1>1, Invariance, PTL

\* What the tab knows to be done it shows, once no fetch is under way.
THEOREM OwnWritesShow == Spec => []OwnWritesAreShown
<1>1. IInv => OwnWritesAreShown
  BY Parts DEF OwnWritesAreShown
<1> QED
  BY <1>1, Invariance, PTL
=============================================================================
