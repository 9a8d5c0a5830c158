-------------------------------- MODULE Inbox --------------------------------
(***************************************************************************)
(* A browser tab over the users that sign in to it, and their              *)
(* notifications: hooks/useAuth.ts, ProtectedRoute.tsx and LoginPage.tsx   *)
(* with the ['me'] query, NotificationBell.tsx with its polled query, and  *)
(* routes/notifications.ts behind it.  What the tab has cached is of one   *)
(* user and the session may be of another, or over.                        *)
(***************************************************************************)
EXTENDS QueryCache, Naturals, Sequences, FiniteSets

CONSTANTS
  User,
  NoUser,         \* null: nobody is signed in
  RECENT_LIMIT,   \* how many notifications a list has
  MaxNotes        \* bound on the notifications

ASSUME UserAssumption == NoUser \notin User /\ Missing \notin User \cup {NoUser}
ASSUME LimitAssumption == RECENT_LIMIT \in Nat \ {0} /\ MaxNotes \in Nat

VARIABLES
  notes,      \* the Notification rows, in the order of createdAt
  session,    \* the user of the cookie, as the API takes it
  page,       \* "login", or "app" for what is behind ProtectedRoute
  me,         \* the query ['me']
  bell,       \* the query ['notifications']
  leaving,    \* the logout: "no", "sent" or "done"
  read,       \* the mutation of the bell
  uncleared   \* history: a session ended and the cache was not cleared since

tab == <<page, me, bell, leaving, read>>
vars == <<notes, session, tab, uncleared>>

Id == 1..MaxNotes
Somebody == User \cup {NoUser}

\* GET /notifications: `of` is the user it was answered for.
Listing == [of : User, listed : SUBSET Id, unread : SUBSET Id, unreadCount : Nat]

\* A call without a session is answered with 401.
Unauthorized == NoUser

Mutation == [stage : {"idle", "sent", "committed", "refused"}, id : Id \cup {0}, as : Somebody]

NoMutation == [stage |-> "idle", id |-> 0, as |-> NoUser]

\* In `misses`, the notifications the tab knows it has read, and 0 while it
\* does not know yet.
Entry(data) ==
  [data : data \cup {Missing}, answer : data \cup {Missing, Unauthorized},
   failed : BOOLEAN, misses : SUBSET (Id \cup {0})]

TypeOK ==
  /\ notes \in Seq([user : User, isRead : BOOLEAN]) /\ Len(notes) <= MaxNotes
  /\ session \in Somebody
  /\ page \in {"login", "app"}
  /\ me \in Entry(Somebody) /\ bell \in Entry(Listing)
  /\ leaving \in {"no", "sent", "done"}
  /\ read \in Mutation
  /\ uncleared \in BOOLEAN

Init ==
  /\ notes = <<>>
  /\ session \in Somebody
  /\ page \in {"login", "app"}
  /\ me = Fetch(EmptyEntry, session)
  /\ bell = EmptyEntry
  /\ leaving = "no"
  /\ read = NoMutation
  /\ uncleared = FALSE
-----------------------------------------------------------------------------
(* The API *)

OfUser(u) == {k \in DOMAIN notes : notes[k].user = u}

Unread(u) == {k \in OfUser(u) : ~notes[k].isRead}

RecentOf(u) == {k \in OfUser(u) : Cardinality({j \in OfUser(u) : j > k}) < RECENT_LIMIT}

\* listForUserWithUnread: the list is cut, the count is not.
listForUserWithUnread(u) ==
  [of |-> u, listed |-> RecentOf(u), unread |-> RecentOf(u) \cap Unread(u),
   unreadCount |-> Cardinality(Unread(u))]

Notifications == IF session = NoUser THEN Unauthorized ELSE listForUserWithUnread(session)

\* notify, of a handler or of the reminder job.
Notify(u) ==
  /\ Len(notes) < MaxNotes
  /\ notes' = Append(notes, [user |-> u, isRead |-> FALSE])
  /\ UNCHANGED <<session, tab, uncleared>>

\* POST /notifications/:id/read: 401, or 404 for another's notification.
MarkRead ==
  LET k == read.id
  IN /\ read.stage = "sent"
     /\ IF read.as = notes[k].user
        THEN /\ notes' = [notes EXCEPT ![k].isRead = TRUE]
             /\ read' = [read EXCEPT !.stage = "committed"]
             /\ bell' = CommittedAfter(bell, 0)
        ELSE /\ read' = [read EXCEPT !.stage = "refused"]
             /\ UNCHANGED <<notes, bell>>
     /\ UNCHANGED <<session, page, me, leaving, uncleared>>

\* POST /auth/logout: the token is revoked and the cookie cleared.
ServeLogout ==
  /\ leaving = "sent"
  /\ leaving' = "done"
  /\ session' = NoUser
  /\ uncleared' = (uncleared \/ session # NoUser)
  /\ UNCHANGED <<notes, page, me, bell, read>>

\* The token expires or is revoked elsewhere, or the account is disabled.
SessionEnds ==
  /\ session # NoUser
  /\ session' = NoUser
  /\ uncleared' = TRUE
  /\ UNCHANGED <<notes, tab>>
-----------------------------------------------------------------------------
(* Signing in and out *)

isUser(data) == data \in User

\* The layout has the bell while there is a user.
BellMounted == page = "app" /\ isUser(me.data)

\* ProtectedRoute and LoginPage send the user to each other's page: `data` is
\* what ['me'] has now, and the bell is mounted with the page.
Route(data) ==
  /\ page' = IF isUser(data) THEN "app" ELSE IF data = NoUser THEN "login" ELSE page
  /\ bell' = IF isUser(data) /\ ~BellMounted THEN MountEntry(bell, Notifications) ELSE bell

\* A page that mounts ['me'] asks anew when it is stale.
RefreshMe ==
  /\ ~Fetching(me)
  /\ me' = Fetch(me, session)
  /\ UNCHANGED <<notes, session, page, bell, leaving, read, uncleared>>

\* fetchMe makes null of a 401.
MeArrives ==
  /\ Fetching(me)
  /\ me' = Arrived(me)
  /\ Route(me.answer)
  /\ UNCHANGED <<notes, session, leaving, read, uncleared>>

\* Without data the error is taken for nobody.
MeFails ==
  /\ Fetching(me)
  /\ me' = FetchFailed(me)
  /\ page' = IF me.data = Missing THEN "login" ELSE page
  /\ UNCHANGED <<notes, session, bell, leaving, read, uncleared>>

\* onSuccess of useLogin; a fetch of ['me'] that is under way goes on.  A
\* session that was still there is over.
Login(u) ==
  /\ page = "login"
  /\ ~isUser(me.data)
  /\ session' = u
  /\ uncleared' = (uncleared \/ session \notin {NoUser, u})
  /\ me' = [me EXCEPT !.data = u, !.failed = FALSE]
  /\ page' = "app"
  /\ bell' = MountEntry(bell, listForUserWithUnread(u))
  /\ UNCHANGED <<notes, leaving, read>>

\* The button of the layout.
SendLogout ==
  /\ page = "app" /\ isUser(me.data) /\ leaving = "no"
  /\ leaving' = "sent"
  /\ UNCHANGED <<notes, session, page, me, bell, read, uncleared>>

\* Fault: null for the user, and nothing else.
LogoutKeepsCache ==
  /\ leaving = "done"
  /\ leaving' = "no"
  /\ me' = Fetch(EmptyEntry, session)
  /\ page' = "login"
  /\ uncleared' = FALSE
  /\ UNCHANGED <<notes, session, bell, read>>

\* onSuccess of useLogout: clear() drops data and fetches under way, and the
\* page of the login asks for the user.
LogoutSucceeds ==
  /\ leaving = "done"
  /\ leaving' = "no"
  /\ me' = Fetch(EmptyEntry, session)
  /\ bell' = EmptyEntry
  /\ page' = "login"
  /\ uncleared' = FALSE
  /\ UNCHANGED <<notes, session, read>>

\* The call or its answer is lost, and there is no onError.
LogoutFails ==
  /\ leaving # "no"
  /\ leaving' = "no"
  /\ UNCHANGED <<notes, session, page, me, bell, read, uncleared>>
-----------------------------------------------------------------------------
(* The bell *)

\* Fault: no refetchInterval.
PollNever == BellMounted /\ FALSE /\ UNCHANGED vars

\* refetchInterval; a fetch that is under way is enough.
Poll ==
  /\ BellMounted /\ ~Fetching(bell)
  /\ bell' = Fetch(bell, Notifications)
  /\ UNCHANGED <<notes, session, page, me, leaving, read, uncleared>>

\* Fault: api() does not look at the status.
BellArrivesUnchecked ==
  /\ Fetching(bell)
  /\ bell' = Arrived(bell)
  /\ UNCHANGED <<notes, session, page, me, leaving, read, uncleared>>

BellArrives ==
  /\ Fetching(bell)
  /\ bell' = IF bell.answer = Unauthorized THEN FetchFailed(bell) ELSE Arrived(bell)
  /\ UNCHANGED <<notes, session, page, me, leaving, read, uncleared>>

BellFails ==
  /\ Fetching(bell)
  /\ bell' = FetchFailed(bell)
  /\ UNCHANGED <<notes, session, page, me, leaving, read, uncleared>>

\* openNotification: one that is shown as unread is marked.
openNotification(k) ==
  /\ BellMounted /\ bell.data # Missing
  /\ k \in bell.data.unread
  /\ read.stage = "idle"
  /\ read' = [stage |-> "sent", id |-> k, as |-> session]
  /\ UNCHANGED <<notes, session, page, me, bell, leaving, uncleared>>

\* What the bell knows of the call: a list it shows is to have it.
Noted == Renamed(bell, 0, IF BellMounted /\ bell.data # Missing THEN {read.id} ELSE {})

\* Fault: a fetch that is under way is good enough.
ReadSucceedsLazily ==
  /\ read.stage = "committed"
  /\ read' = NoMutation
  /\ bell' = IF BellMounted THEN MountEntry(Noted, Notifications) ELSE Noted
  /\ UNCHANGED <<notes, session, page, me, leaving, uncleared>>

\* onSuccess of readMut.
ReadSucceeds ==
  /\ read.stage = "committed"
  /\ read' = NoMutation
  /\ bell' = IF BellMounted THEN Invalidate(Noted, Notifications) ELSE Noted
  /\ UNCHANGED <<notes, session, page, me, leaving, uncleared>>

\* Refused, or the call or its answer is lost: nothing is shown.
ReadFails ==
  /\ read.stage # "idle"
  /\ read' = NoMutation
  /\ bell' = Renamed(bell, 0, {})
  /\ UNCHANGED <<notes, session, page, me, leaving, uncleared>>
-----------------------------------------------------------------------------
Next ==
  \/ \E u \in User : Notify(u) \/ Login(u)
  \/ MarkRead \/ ServeLogout \/ SessionEnds
  \/ RefreshMe \/ MeArrives \/ MeFails
  \/ SendLogout \/ LogoutSucceeds \/ LogoutFails
  \/ Poll \/ BellArrives \/ BellFails
  \/ \E k \in Id : openNotification(k)
  \/ ReadSucceeds \/ ReadFails

\* The timer of the bell goes off while it is mounted, and the network lets an
\* answer through again and again.  Nobody has to do anything.
Fairness == WF_vars(Poll) /\ SF_vars(BellArrives)

Spec == Init /\ [][Next]_vars /\ Fairness
-----------------------------------------------------------------------------
(* Properties *)

\* M6.4: the bell catches up.  Whatever is lost and whoever comes and goes, a
\* user who stays signed in has, again and again, the list and the count that
\* the API has for him.
CatchesUp ==
  []<>(~BellMounted \/ session # me.data \/ bell.data = listForUserWithUnread(me.data))

\* A notification is not unread again: once the bell knows of one that it is
\* read, and has no fetch under way, it does not show it as unread, for all the
\* fetches that were answered before and arrive after.
ReadStaysRead ==
  BellMounted /\ bell.data # Missing /\ ~Fetching(bell) /\ ~bell.failed =>
    bell.misses \cap bell.data.unread = {}

\* Nobody is shown the notifications of another, unless a session ended
\* otherwise than by the logout of this tab.
ShownIsMine ==
  ~uncleared /\ BellMounted /\ bell.data # Missing => bell.data.of = me.data
=============================================================================
