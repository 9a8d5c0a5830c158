------------------------- MODULE NotificationProofs -------------------------
(***************************************************************************)
(* Proofs about the notifications outside the workflow: Inbox, where they  *)
(* are read, for any users, any number of notifications and any length of  *)
(* the list; and ClosingReminder, one that writes them, for any number of  *)
(* instances, of tenders, of days and of failures.  The two specifications *)
(* share nothing, and no proof uses both.                                  *)
(***************************************************************************)
EXTENDS Inbox, ClosingReminder, FiniteSetTheorems, SequenceTheorems, TLAPS

-----------------------------------------------------------------------------
(* The inbox *)

\* While no session has ended behind the tab's back, what it has cached or is
\* fetching is of the user whose session it is, or of nobody.
CacheIsOfSession ==
  ~uncleared =>
    /\ me.data \in {Missing, NoUser, session}
    /\ me.answer \in {Missing, NoUser, session}
    /\ bell.data = Missing \/ (bell.data \in Listing /\ bell.data.of = session)
    /\ bell.answer \in {Missing, Unauthorized} \/ (bell.answer \in Listing /\ bell.answer.of = session)

\* The bell that knows of a read has given up what was read before it.
NothingKnownIsMissed == bell.misses \subseteq {0}

IInv == TypeOK /\ CacheIsOfSession /\ NothingKnownIsMissed

-----------------------------------------------------------------------------

\* A list is about the notifications there are.
LEMMA ListingType ==
  ASSUME TypeOK, NEW u \in User
  PROVE  listForUserWithUnread(u) \in Listing /\ listForUserWithUnread(u).of = u
<1>1. DOMAIN notes = 1..Len(notes) /\ Len(notes) \in Nat /\ Len(notes) <= MaxNotes
  BY DEF TypeOK
<1>2. RecentOf(u) \subseteq Id /\ RecentOf(u) \cap Unread(u) \subseteq Id
  BY <1>1, LimitAssumption DEF RecentOf, OfUser, Id
<1>3. Unread(u) \subseteq 1..Len(notes)
  BY <1>1 DEF Unread, OfUser
<1>4. Cardinality(Unread(u)) \in Nat
  <2>1. IsFiniteSet(1..Len(notes))
    BY <1>1, FS_Interval
  <2>2. IsFiniteSet(Unread(u))
    BY <1>3, <2>1, FS_Subset
  <2> QED
    BY <2>2, FS_CardinalityType
<1> QED
  BY <1>2, <1>4 DEF listForUserWithUnread, Listing

LEMMA NotificationsType ==
  ASSUME TypeOK
  PROVE  /\ Notifications \in Listing \cup {Unauthorized}
         /\ Notifications = Unauthorized \/ (Notifications \in Listing /\ Notifications.of = session)
  BY ListingType DEF Notifications, TypeOK, Somebody

\* What is done to an entry of the cache.
LEMMA EntrySteps ==
  ASSUME NEW D, NEW e \in Entry(D)
  PROVE  /\ EmptyEntry \in Entry(D)
         /\ EmptyEntry.data = Missing /\ EmptyEntry.answer = Missing /\ EmptyEntry.misses = {}
         /\ \A a \in D \cup {Missing, Unauthorized} :
              /\ Fetch(e, a) \in Entry(D)
              /\ Fetch(e, a).data = e.data /\ Fetch(e, a).answer = a /\ Fetch(e, a).misses = {}
         /\ e.answer \in D \cup {Missing} =>
              /\ Arrived(e) \in Entry(D)
              /\ Arrived(e).data = e.answer /\ Arrived(e).answer = Missing
              /\ Arrived(e).misses = e.misses
         /\ FetchFailed(e) \in Entry(D) /\ FetchFailed(e).data = e.data
         /\ FetchFailed(e).answer = Missing /\ FetchFailed(e).misses = {}
<1>1. EmptyEntry \in Entry(D)
      /\ EmptyEntry.data = Missing /\ EmptyEntry.answer = Missing /\ EmptyEntry.misses = {}
  BY DEF EmptyEntry, Entry
<1>2. ASSUME NEW a \in D \cup {Missing, Unauthorized}
      PROVE  /\ Fetch(e, a) \in Entry(D)
             /\ Fetch(e, a).data = e.data /\ Fetch(e, a).answer = a /\ Fetch(e, a).misses = {}
  BY DEF Fetch, Entry
<1>3. ASSUME e.answer \in D \cup {Missing}
      PROVE  /\ Arrived(e) \in Entry(D)
             /\ Arrived(e).data = e.answer /\ Arrived(e).answer = Missing
             /\ Arrived(e).misses = e.misses
  BY <1>3 DEF Arrived, Entry
<1>4. FetchFailed(e) \in Entry(D) /\ FetchFailed(e).data = e.data
      /\ FetchFailed(e).answer = Missing /\ FetchFailed(e).misses = {}
  BY DEF FetchFailed, Entry
<1> QED
  BY <1>1, <1>2, <1>3, <1>4

LEMMA FetchFields ==
  ASSUME NEW D, NEW e \in Entry(D), NEW a \in D
  PROVE  /\ Fetch(e, a) \in Entry(D)
         /\ Fetch(e, a).data = e.data /\ Fetch(e, a).answer = a /\ Fetch(e, a).misses = {}
  BY EntrySteps

\* What is said of the bell, of an entry and the user of the session.
BellOK(e) ==
  /\ e \in Entry(Listing)
  /\ e.misses \subseteq {0}
  /\ ~uncleared =>
       /\ e.data = Missing \/ (e.data \in Listing /\ e.data.of = session)
       /\ e.answer \in {Missing, Unauthorized} \/ (e.answer \in Listing /\ e.answer.of = session)

\* Asking for the list keeps it so, whether or not it was asked for already.
LEMMA BellFetched ==
  ASSUME TypeOK, NEW e \in Entry(Listing), e.misses \subseteq {0} \/ e.data # Missing,
         BellOK([e EXCEPT !.misses = {}])
  PROVE  /\ BellOK(Fetch(e, Notifications))
         /\ e.misses \subseteq {0} => BellOK(MountEntry(e, Notifications))
         /\ BellOK(Invalidate(e, Notifications))
<1>1. BellOK(Fetch(e, Notifications))
  BY NotificationsType, EntrySteps DEF BellOK, Entry
<1>2. e.misses \subseteq {0} => BellOK(e)
  BY DEF BellOK, Entry
<1> QED
  BY <1>1, <1>2 DEF MountEntry, Invalidate

LEMMA Parts ==
  IInv <=> /\ TypeOK
           /\ BellOK(bell)
           /\ ~uncleared => /\ me.data \in {Missing, NoUser, session}
                            /\ me.answer \in {Missing, NoUser, session}
  BY DEF IInv, BellOK, CacheIsOfSession, NothingKnownIsMissed, TypeOK

LEMMA BellMounts ==
  ASSUME IInv
  PROVE  BellOK(Fetch(bell, Notifications)) /\ BellOK(MountEntry(bell, Notifications))
<1>1. bell \in Entry(Listing) /\ BellOK(bell) /\ TypeOK
  BY Parts DEF BellOK
<1>2. BellOK([bell EXCEPT !.misses = {}])
  BY <1>1 DEF BellOK, Entry
<1> QED
  BY <1>1, <1>2, BellFetched DEF BellOK
-----------------------------------------------------------------------------
\* What is said of ['me'].
MeOK(e) ==
  /\ e \in Entry(Somebody)
  /\ ~uncleared => e.data \in {Missing, NoUser, session} /\ e.answer \in {Missing, NoUser, session}

NotesOK(n) == n \in Seq([user : User, isRead : BOOLEAN]) /\ Len(n) <= MaxNotes

\* A step that leaves the session as it is.
LEMMA SameSession ==
  ASSUME IInv, UNCHANGED <<session, uncleared>>, NotesOK(notes'),
         page' \in {"login", "app"}, leaving' \in {"no", "sent", "done"}, read' \in Mutation,
         MeOK(me'), BellOK(bell')
  PROVE  IInv'
<1>1. session \in Somebody /\ uncleared \in BOOLEAN
  BY Parts DEF TypeOK
<1>2. TypeOK'
  BY <1>1 DEF TypeOK, NotesOK, MeOK, BellOK
<1> QED
  BY <1>2 DEF IInv, CacheIsOfSession, NothingKnownIsMissed, MeOK, BellOK

LEMMA Now ==
  ASSUME IInv
  PROVE  /\ TypeOK /\ NotesOK(notes) /\ MeOK(me) /\ BellOK(bell)
         /\ me \in Entry(Somebody) /\ bell \in Entry(Listing)
  BY Parts DEF TypeOK, NotesOK, MeOK, BellOK

\* Notifications come and are read; the bell learns that a list is behind.
LEMMA NotifyStep ==
  ASSUME IInv, NEW u \in User, Notify(u)
  PROVE  IInv'
<1>1. NotesOK(notes')
  BY Now, LimitAssumption DEF NotesOK, Notify
<1> QED
  BY <1>1, Now, SameSession DEF Notify, tab, TypeOK

LEMMA MarkReadStep ==
  ASSUME IInv, MarkRead
  PROVE  IInv'
<1>0. read \in Mutation /\ UNCHANGED <<session, page, me, leaving, uncleared>>
      /\ page \in {"login", "app"} /\ leaving \in {"no", "sent", "done"}
  BY Now DEF MarkRead, TypeOK
<1>1. CASE read.as = notes[read.id].user
  <2>1. /\ notes' = [notes EXCEPT ![read.id].isRead = TRUE]
        /\ read' = [read EXCEPT !.stage = "committed"] /\ bell' = CommittedAfter(bell, 0)
    BY <1>1 DEF MarkRead
  <2>2. NotesOK(notes')
    <3>1. notes \in [1..Len(notes) -> [user : User, isRead : BOOLEAN]] /\ Len(notes) \in Nat
      <4> DEFINE Note == [user : User, isRead : BOOLEAN]
      <4>1. notes \in Seq(Note)
        BY Now DEF NotesOK
      <4> HIDE DEF Note
      <4>2. notes \in [1..Len(notes) -> Note] /\ Len(notes) \in Nat
        BY <4>1, LenProperties
      <4> QED
        BY <4>2 DEF Note
    <3>2. notes' \in [1..Len(notes) -> [user : User, isRead : BOOLEAN]]
      BY <2>1, <3>1
    <3> QED
      BY <3>1, <3>2, Now DEF NotesOK
  <2>3. BellOK(bell')
    <3>1. bell.misses \cup {0} \in SUBSET (Id \cup {0}) /\ bell.misses \cup {0} \subseteq {0}
      BY Now DEF BellOK, Entry
    <3>2. [bell EXCEPT !.misses = bell.misses \cup {0}] \in Entry(Listing)
      BY <3>1, Now DEF Entry
    <3> QED
      BY <2>1, <3>1, <3>2, Now DEF BellOK, CommittedAfter, Entry
  <2>4. read' \in Mutation
    BY <1>0, <2>1 DEF Mutation
  <2> QED
    BY <1>0, <2>2, <2>3, <2>4, Now, SameSession
<1>2. CASE read.as # notes[read.id].user
  <2>1. read' = [read EXCEPT !.stage = "refused"] /\ UNCHANGED <<notes, bell>>
    BY <1>2 DEF MarkRead
  <2>2. read' \in Mutation
    BY <1>0, <2>1 DEF Mutation
  <2> QED
    BY <1>0, <2>1, <2>2, Now, SameSession
<1> QED
  BY <1>1, <1>2

\* A session that ends behind the tab's back is one more exception.
LEMMA SessionStep ==
  ASSUME IInv, ServeLogout \/ SessionEnds
  PROVE  IInv'
<1>1. UNCHANGED <<notes, page, me, bell, read>> /\ session' = NoUser
      /\ uncleared' = (uncleared \/ session # NoUser)
      /\ leaving' \in {"no", "sent", "done"}
  BY Now DEF ServeLogout, SessionEnds, tab, TypeOK
<1>2. TypeOK'
  BY <1>1, Now DEF TypeOK, Somebody
<1>3. CASE session = NoUser
  BY <1>1, <1>2, <1>3 DEF IInv, CacheIsOfSession, NothingKnownIsMissed
<1>4. CASE session # NoUser
  BY <1>1, <1>2, <1>4 DEF IInv, CacheIsOfSession, NothingKnownIsMissed
<1> QED
  BY <1>3, <1>4
-----------------------------------------------------------------------------
LEMMA MeStep ==
  ASSUME IInv, RefreshMe \/ MeArrives \/ MeFails
  PROVE  IInv'
<1>0. /\ TypeOK /\ session \in Somebody /\ page \in {"login", "app"} /\ read \in Mutation
      /\ leaving \in {"no", "sent", "done"}
  BY Now DEF TypeOK
<1>1. CASE RefreshMe
  <2>1. MeOK(me')
    <3>1. /\ Fetch(me, session) \in Entry(Somebody)
          /\ Fetch(me, session).data = me.data /\ Fetch(me, session).answer = session
      BY <1>0, Now, FetchFields
    <3> QED
      BY <1>1, <3>1, Now DEF RefreshMe, MeOK
  <2> QED
    BY <1>0, <1>1, <2>1, Now, SameSession DEF RefreshMe
<1>2. CASE MeArrives
  <2>1. me.answer \in Somebody \cup {Missing}
    BY Now DEF Entry, Unauthorized, Somebody
  <2>2. MeOK(me')
    BY <1>2, <2>1, Now, EntrySteps DEF MeArrives, MeOK
  <2>3. BellOK(bell') /\ page' \in {"login", "app"}
    BY <1>0, <1>2, Now, BellMounts DEF MeArrives, Route
  <2> QED
    BY <1>0, <1>2, <2>2, <2>3, Now, SameSession DEF MeArrives
<1>3. CASE MeFails
  <2>1. MeOK(me')
    BY <1>3, Now, EntrySteps DEF MeFails, MeOK
  <2> QED
    BY <1>0, <1>3, <2>1, Now, SameSession DEF MeFails
<1> QED
  BY <1>1, <1>2, <1>3

\* Signing in: with a session of another still there, an exception; with none,
\* nothing was cached but that there was nobody.
LEMMA LoginStep ==
  ASSUME IInv, NEW u \in User, Login(u)
  PROVE  IInv'
<1> DEFINE list == listForUserWithUnread(u)
<1>1. /\ session' = u /\ uncleared' = (uncleared \/ session \notin {NoUser, u})
      /\ me' = [me EXCEPT !.data = u, !.failed = FALSE] /\ page' = "app"
      /\ bell' = MountEntry(bell, list) /\ UNCHANGED <<notes, leaving, read>>
  BY DEF Login
<1>2. list \in Listing /\ list.of = u
  BY Now, ListingType
<1> HIDE DEF list
<1>3. me' \in Entry(Somebody) /\ me'.data = u /\ me'.answer = me.answer
  BY <1>1, Now DEF Entry, Somebody
<1>4. bell' \in Entry(Listing) /\ bell'.misses \subseteq {0} /\ bell'.data = bell.data
      /\ bell'.answer \in {bell.answer, list}
  <2>1. /\ Fetch(bell, list) \in Entry(Listing) /\ Fetch(bell, list).data = bell.data
        /\ Fetch(bell, list).answer = list /\ Fetch(bell, list).misses = {}
    BY <1>2, Now, FetchFields
  <2> QED
    BY <1>1, <2>1, Now DEF MountEntry, BellOK
<1>5. TypeOK'
  BY <1>1, <1>3, <1>4, Now DEF TypeOK, Somebody
<1>6. CacheIsOfSession'
  BY <1>1, <1>2, <1>3, <1>4, UserAssumption, Now DEF CacheIsOfSession, BellOK, MeOK, Listing, Unauthorized
<1> QED
  BY <1>4, <1>5, <1>6 DEF IInv, NothingKnownIsMissed

\* The logout clears the cache: what is asked for anew is of the session.
LEMMA LogoutStep ==
  ASSUME IInv, SendLogout \/ LogoutSucceeds \/ LogoutFails
  PROVE  IInv'
<1>0. /\ session \in Somebody /\ page \in {"login", "app"} /\ read \in Mutation
  BY Now DEF TypeOK
<1>1. CASE SendLogout \/ LogoutFails
  BY <1>0, <1>1, Now, SameSession DEF SendLogout, LogoutFails
<1>2. CASE LogoutSucceeds
  <2>1. /\ leaving' = "no" /\ me' = Fetch(EmptyEntry, session) /\ bell' = EmptyEntry
        /\ page' = "login" /\ uncleared' = FALSE /\ UNCHANGED <<notes, session, read>>
    BY <1>2 DEF LogoutSucceeds
  <2>2. EmptyEntry \in Entry(Somebody)
    BY Now, EntrySteps
  <2>3. me' \in Entry(Somebody) /\ me'.data = Missing /\ me'.answer = session
    <3>1. EmptyEntry.data = Missing
      BY DEF EmptyEntry
    <3> QED
      BY <1>0, <2>1, <2>2, <3>1, FetchFields
  <2>4. bell' \in Entry(Listing) /\ bell'.data = Missing /\ bell'.answer = Missing /\ bell'.misses = {}
    BY <2>1, Now, EntrySteps
  <2>5. TypeOK'
    BY <2>1, <2>3, <2>4, Now DEF TypeOK
  <2> QED
    BY <2>1, <2>3, <2>4, <2>5 DEF IInv, CacheIsOfSession, NothingKnownIsMissed
<1> QED
  BY <1>1, <1>2
-----------------------------------------------------------------------------
LEMMA BellStep ==
  ASSUME IInv, Poll \/ BellArrives \/ BellFails
  PROVE  IInv'
<1>0. /\ UNCHANGED <<notes, session, page, me, leaving, read, uncleared>>
      /\ page \in {"login", "app"} /\ read \in Mutation /\ leaving \in {"no", "sent", "done"}
  BY Now DEF TypeOK, Poll, BellArrives, BellFails
<1>1. BellOK(bell')
  <2>1. CASE Poll
    BY <2>1, BellMounts DEF Poll
  <2>2. CASE BellFails
    BY <2>2, Now, EntrySteps DEF BellFails, BellOK
  <2>3. CASE BellArrives
    <3>1. CASE bell.answer = Unauthorized
      BY <2>3, <3>1, Now, EntrySteps DEF BellArrives, BellOK
    <3>2. CASE bell.answer # Unauthorized
      <4>1. bell.answer \in Listing \cup {Missing} /\ bell.answer # Missing
        BY <2>3, <3>2, Now DEF Entry, BellArrives, Fetching
      <4> QED
        BY <2>3, <3>2, <4>1, Now, EntrySteps DEF BellArrives, BellOK
    <3> QED
      BY <3>1, <3>2
  <2> QED
    BY <2>1, <2>2, <2>3
<1> QED
  BY <1>0, <1>1, Now, SameSession

\* The bell learns of a read, and asks anew for the list it shows.
LEMMA ReadStep ==
  ASSUME IInv, (\E k \in Id : openNotification(k)) \/ ReadSucceeds \/ ReadFails
  PROVE  IInv'
<1>0. /\ UNCHANGED <<notes, session, page, me, leaving, uncleared>>
      /\ page \in {"login", "app"} /\ leaving \in {"no", "sent", "done"}
      /\ session \in Somebody /\ read \in Mutation /\ NoMutation \in Mutation
  BY Now DEF TypeOK, openNotification, ReadSucceeds, ReadFails, NoMutation, Mutation, Somebody
<1>1. ASSUME NEW v \in SUBSET (Id \cup {0})
      PROVE  /\ Renamed(bell, 0, v) \in Entry(Listing)
             /\ Renamed(bell, 0, v).data = bell.data /\ Renamed(bell, 0, v).answer = bell.answer
             /\ Renamed(bell, 0, v).misses \subseteq v \cup {0}
             /\ BellOK([Renamed(bell, 0, v) EXCEPT !.misses = {}])
  BY Now DEF Renamed, Entry, BellOK
<1>2. CASE \E k \in Id : openNotification(k)
  <2>1. read' \in Mutation /\ bell' = bell
    BY <1>0, <1>2 DEF openNotification, Mutation
  <2> QED
    BY <1>0, <2>1, Now, SameSession
<1>3. CASE ReadFails
  <2>1. BellOK(Renamed(bell, 0, {}))
    BY <1>1, Now DEF BellOK, Renamed, Entry
  <2> QED
    BY <1>0, <1>3, <2>1, Now, SameSession DEF ReadFails
<1>4. CASE ReadSucceeds
  <2> DEFINE v == IF BellMounted /\ bell.data # Missing THEN {read.id} ELSE {}
  <2>1. v \in SUBSET (Id \cup {0}) /\ (v = {} \/ bell.data # Missing)
    BY <1>0 DEF Mutation
  <2>2. /\ Noted = Renamed(bell, 0, v) /\ Noted.data = bell.data /\ Noted.answer = bell.answer
        /\ Noted \in Entry(Listing) /\ (v = {} => Noted.misses \subseteq {0})
        /\ BellOK([Noted EXCEPT !.misses = {}])
    BY <1>1, <2>1 DEF Noted
  <2>3. BellOK(bell')
    <3>1. CASE BellMounted
      <4>1. BellOK(Invalidate(Noted, Notifications))
        BY <2>1, <2>2, BellFetched, Now
      <4> QED
        BY <1>4, <3>1, <4>1 DEF ReadSucceeds
    <3>2. CASE ~BellMounted
      <4>1. Noted.misses \subseteq {0}
        BY <2>2, <3>2
      <4> QED
        BY <1>4, <2>2, <3>2, <4>1, Now DEF ReadSucceeds, BellOK
    <3> QED
      BY <3>1, <3>2
  <2> QED
    BY <1>0, <1>4, <2>3, Now, SameSession DEF ReadSucceeds
<1> QED
  BY <1>2, <1>3, <1>4
-----------------------------------------------------------------------------
LEMMA InitInvariant == Init => IInv
<1> SUFFICES ASSUME Init
             PROVE  IInv
  OBVIOUS
<1>1. EmptyEntry \in Entry(Somebody) /\ EmptyEntry \in Entry(Listing) /\ session \in Somebody
  BY DEF EmptyEntry, Entry, Init
<1>2. me \in Entry(Somebody) /\ me.data = Missing /\ me.answer = session
  <2>1. me = Fetch(EmptyEntry, session) /\ EmptyEntry.data = Missing
    BY DEF Init, EmptyEntry
  <2> QED
    BY <1>1, <2>1, FetchFields
<1>3. bell \in Entry(Listing) /\ bell.data = Missing /\ bell.answer = Missing /\ bell.misses = {}
  BY <1>1 DEF Init, EmptyEntry
<1>4. notes \in Seq([user : User, isRead : BOOLEAN]) /\ Len(notes) <= MaxNotes
  BY LimitAssumption DEF Init
<1>5. TypeOK
  BY <1>1, <1>2, <1>3, <1>4 DEF Init, TypeOK, NoMutation, Mutation, Somebody
<1> QED
  BY <1>2, <1>3, <1>5 DEF IInv, CacheIsOfSession, NothingKnownIsMissed

LEMMA StepInvariant == IInv /\ [Next]_vars => IInv'
<1> SUFFICES ASSUME IInv, [Next]_vars
             PROVE  IInv'
  OBVIOUS
<1>1. CASE UNCHANGED vars
  BY <1>1 DEF vars, tab, IInv, TypeOK, CacheIsOfSession, NothingKnownIsMissed
<1>2. CASE Next
  BY <1>2, NotifyStep, LoginStep, MarkReadStep, SessionStep, MeStep, LogoutStep, BellStep,
     ReadStep DEF Next
<1> QED
  BY <1>1, <1>2

\* The invariant of the tab: what it has cached is of the session, while none
\* ended behind its back, and a bell that knows of a read is fetched anew.
THEOREM Invariance == Spec => []IInv
<1>1. Init => IInv
  BY InitInvariant
<1>2. IInv /\ [Next]_vars => IInv'
  BY StepInvariant
<1> QED
  BY <1>1, <1>2, PTL DEF Spec

\* The queries of useAuth.ts and NotificationBell.tsx hold what the API sends
\* and nothing else, least of all the refusal of a call without a session.
THEOREM TypeCorrectness == Spec => []TypeOK
<1>1. IInv => TypeOK
  BY DEF IInv
<1> QED
  BY <1>1, Invariance, PTL

\* NotificationBell.tsx:34-38: a notification that the bell knows to be read is
\* never shown as unread again by a list that was read before.
THEOREM ReadsStay == Spec => []ReadStaysRead
<1>1. IInv => ReadStaysRead
  <2> SUFFICES ASSUME IInv, bell.data # Missing
               PROVE  bell.misses \cap bell.data.unread = {}
    BY DEF ReadStaysRead
  <2>1. bell.misses \subseteq {0}
    BY DEF IInv, NothingKnownIsMissed
  <2>2. bell.data.unread \subseteq Id /\ 0 \notin Id
    BY Now DEF Entry, Listing, Id
  <2> QED
    BY <2>1, <2>2
<1> QED
  BY <1>1, Invariance, PTL

\* useAuth.ts:38-46: nobody is shown the notifications of another, unless a
\* session ended otherwise than by the logout of this tab.
THEOREM BellIsMine == Spec => []ShownIsMine
<1>1. IInv => ShownIsMine
  <2> SUFFICES ASSUME IInv, ~uncleared, isUser(me.data), bell.data # Missing
               PROVE  bell.data.of = me.data
    BY DEF ShownIsMine, BellMounted
  <2>1. me.data = session
    BY Now, UserAssumption DEF MeOK, isUser
  <2> QED
    BY <2>1, Now DEF BellOK
<1> QED
  BY <1>1, Invariance, PTL
-----------------------------------------------------------------------------
(* The closing reminders *)

\* What a step that moves one run on leaves of the others.
LEMMA RunUpdate ==
  ASSUME ReminderTypeOK, NEW i \in Instances, NEW r \in Run, run' = [run EXCEPT ![i] = r]
  PROVE  /\ run' \in [Instances -> Run]
         /\ \A j \in Instances : run'[j] = IF j = i THEN r ELSE run[j]
  BY DEF ReminderTypeOK

\* Every run is one, with its fields.
LEMMA RunFields ==
  ASSUME ReminderTypeOK, NEW i \in Instances
  PROVE  /\ run[i] \in Run
         /\ run[i].pc \in Step
         /\ run[i].days \in Nat
         /\ run[i].todo \subseteq Tenders
         /\ run[i].at \in Tenders \cup {None}
         /\ run[i].late \in BOOLEAN
  BY DEF ReminderTypeOK, Run

\* Where a list leads.
LEMMA OnwardsIsStep ==
  ASSUME NEW todo \in SUBSET Tenders
  PROVE  /\ Onwards(todo) \in {"look", "release", "done"}
         /\ Onwards(todo) \in {"release", "done"} => todo = {}
         /\ Onwards(todo) = "release" => HasRedis
         /\ Onwards(todo) = "done" => ~HasRedis
  BY DEF Onwards

\* Taking the lock, or going ahead without Redis, preserves the invariant.
LEMMA AcquireStep ==
  ASSUME ReminderInv, NEW i \in Instances, Acquire(i)
  PROVE  ReminderInv'
<1> DEFINE r == [run[i] EXCEPT !.pc = "settings"]
<1>1. r \in Run
  BY RunFields DEF ReminderInv, Run, Step
<1>2. run' = [run EXCEPT ![i] = r]
  BY DEF Acquire, ReminderInv, ReminderTypeOK
<1>3. \A j \in Instances : run'[j] = IF j = i THEN r ELSE run[j]
  BY <1>1, <1>2, RunUpdate DEF ReminderInv
<1>r. /\ r.pc = "settings" /\ r.days = run[i].days /\ r.todo = run[i].todo
      /\ r.at = run[i].at /\ r.late = run[i].late
  BY RunFields DEF ReminderInv, Run
<1> HIDE DEF r
<1>4. ReminderTypeOK'
  BY <1>1, <1>2, RunUpdate DEF ReminderInv, ReminderTypeOK, world, Acquire
<1>5. LockIsMine'
  BY <1>3, <1>r, DeploymentAssumption
     DEF ReminderInv, ReminderTypeOK, world, Acquire, LockIsMine, AtWork
<1>6. NobodyLate'
  BY <1>3, <1>r, RunFields
     DEF ReminderInv, ReminderTypeOK, world, Acquire, NobodyLate
<1>7. OneReminderEach'
  BY <1>3, <1>r, RunFields
     DEF ReminderInv, ReminderTypeOK, world, Acquire, OneReminderEach, PickedHasNone
<1>8. PickedHasNone'
  BY <1>3, <1>r, RunFields
     DEF ReminderInv, ReminderTypeOK, world, Acquire, PickedHasNone, OneReminderEach
<1>9. WindowsAreSet'
  BY <1>3, <1>r, RunFields
     DEF ReminderInv, ReminderTypeOK, world, Acquire, WindowsAreSet
<1>10. OwedIsListed'
  BY <1>3, <1>r, RunFields
     DEF ReminderInv, ReminderTypeOK, world, Acquire, OwedIsListed, OwedToday
<1>11. EndIsEmpty'
  BY <1>3, <1>r, RunFields
     DEF ReminderInv, ReminderTypeOK, world, Acquire, EndIsEmpty
<1>12. SkippedForSomebody'
  BY <1>3, <1>r, RunFields
     DEF ReminderInv, ReminderTypeOK, world, Acquire, SkippedForSomebody
<1>13. MissedDaysAreLost'
  BY DEF ReminderInv, ReminderTypeOK, world, Acquire, MissedDaysAreLost
<1> QED
  BY <1>4, <1>5, <1>6, <1>7, <1>8, <1>9, <1>10, <1>11, <1>12, <1>13 DEF ReminderInv

\* A run that finds the lock taken preserves the invariant.
LEMMA SkipStep ==
  ASSUME ReminderInv, NEW i \in Instances, Skip(i)
  PROVE  ReminderInv'
<1> DEFINE r == [run[i] EXCEPT !.pc = "skipped"]
<1>1. r \in Run
  BY RunFields DEF ReminderInv, Run, Step
<1>2. run' = [run EXCEPT ![i] = r]
  BY DEF Skip, ReminderInv, ReminderTypeOK
<1>3. \A j \in Instances : run'[j] = IF j = i THEN r ELSE run[j]
  BY <1>1, <1>2, RunUpdate DEF ReminderInv
<1>r. /\ r.pc = "skipped" /\ r.days = run[i].days /\ r.todo = run[i].todo
      /\ r.at = run[i].at /\ r.late = run[i].late
  BY RunFields DEF ReminderInv, Run
<1> HIDE DEF r
<1>4. ReminderTypeOK'
  BY <1>1, <1>2, RunUpdate DEF ReminderInv, ReminderTypeOK, world, Skip
<1>5. LockIsMine'
  BY <1>3, <1>r, RunFields
     DEF ReminderInv, ReminderTypeOK, world, Skip, LockIsMine, AtWork
<1>6. NobodyLate'
  BY <1>3, <1>r, RunFields
     DEF ReminderInv, ReminderTypeOK, world, Skip, NobodyLate
<1>7. OneReminderEach'
  BY <1>3, <1>r, RunFields
     DEF ReminderInv, ReminderTypeOK, world, Skip, OneReminderEach, PickedHasNone
<1>8. PickedHasNone'
  BY <1>3, <1>r, RunFields
     DEF ReminderInv, ReminderTypeOK, world, Skip, PickedHasNone, OneReminderEach
<1>9. WindowsAreSet'
  BY <1>3, <1>r, RunFields
     DEF ReminderInv, ReminderTypeOK, world, Skip, WindowsAreSet
<1>10. OwedIsListed'
  BY <1>3, <1>r, RunFields
     DEF ReminderInv, ReminderTypeOK, world, Skip, OwedIsListed, OwedToday
<1>11. EndIsEmpty'
  BY <1>3, <1>r, RunFields
     DEF ReminderInv, ReminderTypeOK, world, Skip, EndIsEmpty
<1>12. SkippedForSomebody'
  BY <1>3, <1>r, RunFields
     DEF ReminderInv, ReminderTypeOK, world, Skip, SkippedForSomebody
<1>13. MissedDaysAreLost'
  BY DEF ReminderInv, ReminderTypeOK, world, Skip, MissedDaysAreLost
<1> QED
  BY <1>4, <1>5, <1>6, <1>7, <1>8, <1>9, <1>10, <1>11, <1>12, <1>13 DEF ReminderInv

\* Releasing preserves the invariant: the token keeps it to one's own lock.
LEMMA ReleaseStep ==
  ASSUME ReminderInv, NEW i \in Instances, Release(i)
  PROVE  ReminderInv'
<1> DEFINE r == [run[i] EXCEPT !.pc = "done"]
<1>1. r \in Run
  BY RunFields DEF ReminderInv, Run, Step
<1>2. run' = [run EXCEPT ![i] = r]
  BY DEF Release, ReminderInv, ReminderTypeOK
<1>3. \A j \in Instances : run'[j] = IF j = i THEN r ELSE run[j]
  BY <1>1, <1>2, RunUpdate DEF ReminderInv
<1>r. /\ r.pc = "done" /\ r.days = run[i].days /\ r.todo = run[i].todo
      /\ r.at = run[i].at /\ r.late = run[i].late
  BY RunFields DEF ReminderInv, Run
<1> HIDE DEF r
<1>4. ReminderTypeOK'
  BY <1>1, <1>2, RunUpdate DEF ReminderInv, ReminderTypeOK, world, Release
<1>5. LockIsMine'
  BY <1>3, <1>r, RunFields
     DEF ReminderInv, ReminderTypeOK, world, Release, LockIsMine, AtWork
<1>6. NobodyLate'
  BY <1>3, <1>r, RunFields
     DEF ReminderInv, ReminderTypeOK, world, Release, NobodyLate
<1>7. OneReminderEach'
  BY <1>3, <1>r, RunFields
     DEF ReminderInv, ReminderTypeOK, world, Release, OneReminderEach, PickedHasNone
<1>8. PickedHasNone'
  BY <1>3, <1>r, RunFields
     DEF ReminderInv, ReminderTypeOK, world, Release, PickedHasNone, OneReminderEach
<1>9. WindowsAreSet'
  BY <1>3, <1>r, RunFields
     DEF ReminderInv, ReminderTypeOK, world, Release, WindowsAreSet
<1>10. OwedIsListed'
  BY <1>3, <1>r, RunFields
     DEF ReminderInv, ReminderTypeOK, world, Release, OwedIsListed, OwedToday
<1>11. EndIsEmpty'
  BY <1>3, <1>r, RunFields
     DEF ReminderInv, ReminderTypeOK, world, Release, EndIsEmpty
<1>12. SkippedForSomebody'
  BY <1>3, <1>r, RunFields
     DEF ReminderInv, ReminderTypeOK, world, Release, SkippedForSomebody
<1>13. MissedDaysAreLost'
  BY DEF ReminderInv, ReminderTypeOK, world, Release, MissedDaysAreLost
<1> QED
  BY <1>4, <1>5, <1>6, <1>7, <1>8, <1>9, <1>10, <1>11, <1>12, <1>13 DEF ReminderInv

\* Reading the window preserves the invariant.
LEMMA ReadSettingStep ==
  ASSUME ReminderInv, NEW i \in Instances, ReadSetting(i)
  PROVE  ReminderInv'
<1> DEFINE r == [run[i] EXCEPT !.pc = "list", !.days = getReminderDays]
<1>0. getReminderDays \in Nat
  BY DEF ReminderInv, ReminderTypeOK, getReminderDays, DEFAULT_REMINDER_DAYS
<1>1. r \in Run
  BY <1>0, RunFields DEF ReminderInv, Run, Step
<1>2. run' = [run EXCEPT ![i] = r]
  BY DEF ReadSetting, ReminderInv, ReminderTypeOK
<1>3. \A j \in Instances : run'[j] = IF j = i THEN r ELSE run[j]
  BY <1>1, <1>2, RunUpdate DEF ReminderInv
<1>r. /\ r.pc = "list" /\ r.days = getReminderDays /\ r.todo = run[i].todo
      /\ r.at = run[i].at /\ r.late = run[i].late
  BY RunFields DEF ReminderInv, Run
<1> HIDE DEF r
<1>4. ReminderTypeOK'
  BY <1>1, <1>2, RunUpdate DEF ReminderInv, ReminderTypeOK, world, ReadSetting
<1>5. LockIsMine'
  BY <1>3, <1>r, RunFields
     DEF ReminderInv, ReminderTypeOK, world, ReadSetting, LockIsMine, AtWork
<1>6. NobodyLate'
  BY <1>3, <1>r, RunFields
     DEF ReminderInv, ReminderTypeOK, world, ReadSetting, NobodyLate
<1>7. OneReminderEach'
  BY <1>3, <1>r, RunFields
     DEF ReminderInv, ReminderTypeOK, world, ReadSetting, OneReminderEach, PickedHasNone
<1>8. PickedHasNone'
  BY <1>3, <1>r, RunFields
     DEF ReminderInv, ReminderTypeOK, world, ReadSetting, PickedHasNone, OneReminderEach
<1>9. WindowsAreSet'
  <2>1. getReminderDays \in Windows \cup {DEFAULT_REMINDER_DAYS}
    BY WindowsAssumption DEF getReminderDays, ReminderInv, WindowsAreSet
  <2> QED
    BY <2>1, <1>3, <1>r, RunFields DEF ReminderInv, ReminderTypeOK, WindowsAreSet, ReadSetting, world
<1>10. OwedIsListed'
  BY <1>3, <1>r, RunFields
     DEF ReminderInv, ReminderTypeOK, world, ReadSetting, OwedIsListed, OwedToday
<1>11. EndIsEmpty'
  BY <1>3, <1>r, RunFields
     DEF ReminderInv, ReminderTypeOK, world, ReadSetting, EndIsEmpty
<1>12. SkippedForSomebody'
  BY <1>3, <1>r, RunFields
     DEF ReminderInv, ReminderTypeOK, world, ReadSetting, SkippedForSomebody
<1>13. MissedDaysAreLost'
  BY DEF ReminderInv, ReminderTypeOK, world, ReadSetting, MissedDaysAreLost
<1> QED
  BY <1>4, <1>5, <1>6, <1>7, <1>8, <1>9, <1>10, <1>11, <1>12, <1>13 DEF ReminderInv

\* Listing the tenders preserves the invariant: all that are owed are listed.
LEMMA ListStep ==
  ASSUME ReminderInv, NEW i \in Instances, List(i)
  PROVE  ReminderInv'
<1> DEFINE due == {t \in Tenders : tender[t].state = "active" /\ InWindow(t, run[i].days)}
<1> DEFINE r == [run[i] EXCEPT !.pc = Onwards(due), !.todo = due]
<1>w. /\ Onwards(due) \in {"look", "release", "done"}
      /\ Onwards(due) \in {"release", "done"} => due = {}
      /\ Onwards(due) = "release" => HasRedis
  BY RunFields, OnwardsIsStep DEF ReminderInv
<1>1. r \in Run
  BY <1>w, RunFields DEF ReminderInv, Run, Step
<1>2. run' = [run EXCEPT ![i] = r]
  BY DEF List, ReminderInv, ReminderTypeOK
<1>3. \A j \in Instances : run'[j] = IF j = i THEN r ELSE run[j]
  BY <1>1, <1>2, RunUpdate DEF ReminderInv
<1>r. /\ r.pc = Onwards(due) /\ r.days = run[i].days /\ r.todo = due
      /\ r.at = run[i].at /\ r.late = run[i].late
  BY RunFields DEF ReminderInv, Run
<1> HIDE DEF r, due
<1>4. ReminderTypeOK'
  BY <1>1, <1>2, RunUpdate DEF ReminderInv, ReminderTypeOK, world, List
<1>5. LockIsMine'
  BY <1>w, <1>3, <1>r, DeploymentAssumption DEF ReminderInv, LockIsMine, AtWork, List
<1>6. NobodyLate'
  BY <1>w, <1>3, <1>r, DeploymentAssumption DEF ReminderInv, NobodyLate, List
<1>7. OneReminderEach'
  BY DEF ReminderInv, OneReminderEach, List
<1>8. PickedHasNone'
  <2>1. r.pc # "insert"
    BY <1>w, <1>r
  <2> QED
    BY <2>1, <1>3 DEF ReminderInv, PickedHasNone, List
<1>9. WindowsAreSet'
  BY <1>w, <1>3, <1>r, DeploymentAssumption DEF ReminderInv, WindowsAreSet, List, world
<1>10. OwedIsListed'
  <2>1. ASSUME NEW t \in Tenders, OwedToday(t)
        PROVE  t \in due
    <3>1. PICK n \in Windows \cup {DEFAULT_REMINDER_DAYS} :
            ShortestWindow(n) /\ tender[t].closing < today + n
      BY <2>1 DEF OwedToday
    <3>2. n <= run[i].days
      BY <3>1 DEF ReminderInv, WindowsAreSet, ShortestWindow, List
    <3>3. n \in Nat /\ run[i].days \in Nat /\ today \in Nat /\ tender[t].closing \in Nat
      BY RunFields, WindowsAssumption DEF ReminderInv, ReminderTypeOK, DEFAULT_REMINDER_DAYS
    <3> QED
      BY <2>1, <3>1, <3>2, <3>3 DEF OwedToday, InWindow, due
  <2>2. \A t \in Tenders : OwedToday(t)' <=> OwedToday(t)
    BY DEF List, world, OwedToday, ShortestWindow
  <2>3. ASSUME NEW j \in Instances, NEW t \in Tenders, today \notin lost, OwedToday(t),
               run'[j].pc \in {"look", "insert", "release", "done"}
        PROVE  t \in run'[j].todo \/ (run'[j].pc = "insert" /\ t = run'[j].at)
    <3>1. CASE j = i
      BY <3>1, <2>1, <2>3, <1>3, <1>r
    <3>2. CASE j # i
      BY <3>2, <2>3, <1>3 DEF ReminderInv, OwedIsListed
    <3> QED
      BY <3>1, <3>2
  <2> QED
    BY <2>2, <2>3 DEF OwedIsListed, List, world
<1>11. EndIsEmpty'
  BY <1>w, <1>3, <1>r, DeploymentAssumption DEF ReminderInv, EndIsEmpty, List
<1>12. SkippedForSomebody'
  BY <1>w, <1>3, <1>r, DeploymentAssumption DEF ReminderInv, ReminderTypeOK, SkippedForSomebody, List, world
<1>13. MissedDaysAreLost'
  BY DEF ReminderInv, ReminderTypeOK, world, List, MissedDaysAreLost
<1> QED
  BY <1>4, <1>5, <1>6, <1>7, <1>8, <1>9, <1>10, <1>11, <1>12, <1>13 DEF ReminderInv

\* Passing over a reminded tender preserves the invariant.
LEMMA PassOverStep ==
  ASSUME ReminderInv, NEW i \in Instances, NEW t \in Tenders, PassOver(i, t)
  PROVE  ReminderInv'
<1> DEFINE r == [run[i] EXCEPT !.pc = Onwards(run[i].todo \ {t}), !.todo = @ \ {t}]
<1>w. /\ Onwards(run[i].todo \ {t}) \in {"look", "release", "done"}
      /\ Onwards(run[i].todo \ {t}) \in {"release", "done"} => (run[i].todo \ {t}) = {}
      /\ Onwards(run[i].todo \ {t}) = "release" => HasRedis
  BY RunFields, OnwardsIsStep DEF ReminderInv
<1>1. r \in Run
  BY <1>w, RunFields DEF ReminderInv, Run, Step
<1>2. run' = [run EXCEPT ![i] = r]
  BY DEF PassOver, ReminderInv, ReminderTypeOK
<1>3. \A j \in Instances : run'[j] = IF j = i THEN r ELSE run[j]
  BY <1>1, <1>2, RunUpdate DEF ReminderInv
<1>r. /\ r.pc = Onwards(run[i].todo \ {t}) /\ r.days = run[i].days /\ r.todo = run[i].todo \ {t}
      /\ r.at = run[i].at /\ r.late = run[i].late
  BY RunFields DEF ReminderInv, Run
<1> HIDE DEF r
<1>4. ReminderTypeOK'
  BY <1>1, <1>2, RunUpdate DEF ReminderInv, ReminderTypeOK, world, PassOver
<1>5. LockIsMine'
  BY <1>w, <1>3, <1>r, RunFields
     DEF ReminderInv, ReminderTypeOK, world, PassOver, LockIsMine, AtWork
<1>6. NobodyLate'
  BY <1>w, <1>3, <1>r, RunFields
     DEF ReminderInv, ReminderTypeOK, world, PassOver, NobodyLate
<1>7. OneReminderEach'
  BY <1>w, <1>3, <1>r, RunFields
     DEF ReminderInv, ReminderTypeOK, world, PassOver, OneReminderEach, PickedHasNone
<1>8. PickedHasNone'
  BY <1>w, <1>3, <1>r, RunFields
     DEF ReminderInv, ReminderTypeOK, world, PassOver, PickedHasNone, OneReminderEach
<1>9. WindowsAreSet'
  BY <1>w, <1>3, <1>r, RunFields
     DEF ReminderInv, ReminderTypeOK, world, PassOver, WindowsAreSet
<1>10. OwedIsListed'
  BY <1>w, <1>3, <1>r, RunFields
     DEF ReminderInv, ReminderTypeOK, world, PassOver, OwedIsListed, OwedToday
<1>11. EndIsEmpty'
  BY <1>w, <1>3, <1>r, RunFields
     DEF ReminderInv, ReminderTypeOK, world, PassOver, EndIsEmpty
<1>12. SkippedForSomebody'
  BY <1>w, <1>3, <1>r, RunFields
     DEF ReminderInv, ReminderTypeOK, world, PassOver, SkippedForSomebody
<1>13. MissedDaysAreLost'
  BY DEF ReminderInv, ReminderTypeOK, world, PassOver, MissedDaysAreLost
<1> QED
  BY <1>4, <1>5, <1>6, <1>7, <1>8, <1>9, <1>10, <1>11, <1>12, <1>13 DEF ReminderInv

\* Picking a tender without reminder preserves the invariant.
LEMMA PickStep ==
  ASSUME ReminderInv, NEW i \in Instances, NEW t \in Tenders, Pick(i, t)
  PROVE  ReminderInv'
<1> DEFINE r == [run[i] EXCEPT !.pc = "insert", !.todo = @ \ {t}, !.at = t]
<1>1. r \in Run
  BY RunFields DEF ReminderInv, Run, Step
<1>2. run' = [run EXCEPT ![i] = r]
  BY DEF Pick, ReminderInv, ReminderTypeOK
<1>3. \A j \in Instances : run'[j] = IF j = i THEN r ELSE run[j]
  BY <1>1, <1>2, RunUpdate DEF ReminderInv
<1>r. /\ r.pc = "insert" /\ r.days = run[i].days /\ r.todo = run[i].todo \ {t}
      /\ r.at = t /\ r.late = run[i].late
  BY RunFields DEF ReminderInv, Run
<1> HIDE DEF r
<1>4. ReminderTypeOK'
  BY <1>1, <1>2, RunUpdate DEF ReminderInv, ReminderTypeOK, world, Pick
<1>5. LockIsMine'
  BY <1>3, <1>r, RunFields
     DEF ReminderInv, ReminderTypeOK, world, Pick, LockIsMine, AtWork
<1>6. NobodyLate'
  BY <1>3, <1>r, RunFields
     DEF ReminderInv, ReminderTypeOK, world, Pick, NobodyLate
<1>7. OneReminderEach'
  BY <1>3, <1>r, RunFields
     DEF ReminderInv, ReminderTypeOK, world, Pick, OneReminderEach, PickedHasNone
<1>8. PickedHasNone'
  BY <1>3, <1>r, RunFields
     DEF ReminderInv, ReminderTypeOK, world, Pick, PickedHasNone, OneReminderEach
<1>9. WindowsAreSet'
  BY <1>3, <1>r, RunFields
     DEF ReminderInv, ReminderTypeOK, world, Pick, WindowsAreSet
<1>10. OwedIsListed'
  BY <1>3, <1>r, RunFields
     DEF ReminderInv, ReminderTypeOK, world, Pick, OwedIsListed, OwedToday
<1>11. EndIsEmpty'
  BY <1>3, <1>r, RunFields
     DEF ReminderInv, ReminderTypeOK, world, Pick, EndIsEmpty
<1>12. SkippedForSomebody'
  BY <1>3, <1>r, RunFields
     DEF ReminderInv, ReminderTypeOK, world, Pick, SkippedForSomebody
<1>13. MissedDaysAreLost'
  BY DEF ReminderInv, ReminderTypeOK, world, Pick, MissedDaysAreLost
<1> QED
  BY <1>4, <1>5, <1>6, <1>7, <1>8, <1>9, <1>10, <1>11, <1>12, <1>13 DEF ReminderInv

\* Inserting the reminder preserves the invariant: nobody else is at work on it.
LEMMA InsertStep ==
  ASSUME ReminderInv, NEW i \in Instances, Insert(i)
  PROVE  ReminderInv'
<1> DEFINE r == [run[i] EXCEPT !.pc = Onwards(run[i].todo), !.at = None]
<1>w. /\ Onwards(run[i].todo) \in {"look", "release", "done"}
      /\ Onwards(run[i].todo) \in {"release", "done"} => run[i].todo = {}
      /\ Onwards(run[i].todo) = "release" => HasRedis
  BY RunFields, OnwardsIsStep DEF ReminderInv
<1>1. r \in Run
  BY <1>w, RunFields DEF ReminderInv, Run, Step
<1>2. run' = [run EXCEPT ![i] = r]
  BY DEF Insert, ReminderInv, ReminderTypeOK
<1>3. \A j \in Instances : run'[j] = IF j = i THEN r ELSE run[j]
  BY <1>1, <1>2, RunUpdate DEF ReminderInv
<1>r. /\ r.pc = Onwards(run[i].todo) /\ r.days = run[i].days /\ r.todo = run[i].todo
      /\ r.at = None /\ r.late = run[i].late
  BY RunFields DEF ReminderInv, Run
<1> HIDE DEF r
<1>4. ReminderTypeOK'
  <2>1. run[i].at \in Tenders
    BY DEF ReminderInv, PickedHasNone, Insert
  <2>2. reminders' \in [Tenders -> Nat]
    BY <2>1 DEF ReminderInv, ReminderTypeOK, Insert
  <2> QED
    BY <1>1, <1>2, <2>2, RunUpdate DEF ReminderInv, ReminderTypeOK, world, Insert
<1>5. LockIsMine'
  BY <1>w, <1>3, <1>r, RunFields
     DEF ReminderInv, ReminderTypeOK, world, Insert, LockIsMine, AtWork, NobodyLate
<1>6. NobodyLate'
  BY <1>w, <1>3, <1>r, RunFields
     DEF ReminderInv, ReminderTypeOK, world, Insert, NobodyLate, AtWork, LockIsMine
<1>7. OneReminderEach'
  BY <1>w, <1>3, <1>r, RunFields
     DEF ReminderInv, ReminderTypeOK, world, Insert, OneReminderEach, PickedHasNone, AtWork, LockIsMine, NobodyLate
<1>8. PickedHasNone'
  BY <1>w, <1>3, <1>r, DeploymentAssumption
     DEF ReminderInv, ReminderTypeOK, world, Insert, PickedHasNone, OneReminderEach, AtWork, LockIsMine, NobodyLate
<1>9. WindowsAreSet'
  BY <1>w, <1>3, <1>r, RunFields
     DEF ReminderInv, ReminderTypeOK, world, Insert, WindowsAreSet, AtWork, LockIsMine, NobodyLate
<1>10. OwedIsListed'
  BY <1>w, <1>3, <1>r, RunFields
     DEF ReminderInv, ReminderTypeOK, world, Insert, OwedIsListed, OwedToday, AtWork, LockIsMine, NobodyLate
<1>11. EndIsEmpty'
  BY <1>w, <1>3, <1>r, RunFields
     DEF ReminderInv, ReminderTypeOK, world, Insert, EndIsEmpty, AtWork, LockIsMine, NobodyLate
<1>12. SkippedForSomebody'
  BY <1>w, <1>3, <1>r, RunFields
     DEF ReminderInv, ReminderTypeOK, world, Insert, SkippedForSomebody, AtWork, LockIsMine, NobodyLate
<1>13. MissedDaysAreLost'
  BY DEF ReminderInv, ReminderTypeOK, world, Insert, MissedDaysAreLost
<1> QED
  BY <1>4, <1>5, <1>6, <1>7, <1>8, <1>9, <1>10, <1>11, <1>12, <1>13 DEF ReminderInv

\* A run that ends before its time preserves the invariant: the day is lost, or
\* its work was done.
LEMMA EndedRun ==
  ASSUME ReminderInv, NEW i \in Instances, NEW pc \in {"release", "done", "down"}, Fails(i, pc),
         UNCHANGED <<world, reminders, lock, overruns>>,
         \/ lost' = lost \cup {today}
         \/ run[i].pc = "release" /\ pc = "done" /\ lost' = lost,
         pc = "release" => AtWork(i)
  PROVE  ReminderInv'
<1> DEFINE r == [run[i] EXCEPT !.pc = pc, !.todo = {}, !.at = None]
<1>1. r \in Run
  BY RunFields DEF ReminderInv, Run, Step
<1>2. run' = [run EXCEPT ![i] = r]
  BY DEF Fails, ReminderInv, ReminderTypeOK
<1>3. \A j \in Instances : run'[j] = IF j = i THEN r ELSE run[j]
  BY <1>1, <1>2, RunUpdate DEF ReminderInv
<1>r. r.pc = pc /\ r.todo = {} /\ r.late = run[i].late /\ r.days = run[i].days
  BY RunFields DEF ReminderInv, Run
<1>4. ReminderTypeOK'
  BY <1>1, <1>2, RunUpdate DEF ReminderInv, ReminderTypeOK, Fails, world
<1>5. LockIsMine'
  BY <1>3, <1>r, RunFields
     DEF ReminderInv, ReminderTypeOK, world, LockIsMine, AtWork
<1>6. NobodyLate'
  BY <1>3, <1>r, RunFields
     DEF ReminderInv, ReminderTypeOK, world, NobodyLate
<1>7. OneReminderEach'
  BY <1>3, <1>r, RunFields
     DEF ReminderInv, ReminderTypeOK, world, OneReminderEach, PickedHasNone
<1>8. PickedHasNone'
  BY <1>3, <1>r, RunFields
     DEF ReminderInv, ReminderTypeOK, world, PickedHasNone, OneReminderEach
<1>9. WindowsAreSet'
  BY <1>3, <1>r, RunFields
     DEF ReminderInv, ReminderTypeOK, world, WindowsAreSet
<1>10. OwedIsListed'
  <2>1. \A t \in Tenders : OwedToday(t)' <=> OwedToday(t)
    BY DEF OwedToday, ShortestWindow, world
  <2>2. CASE lost' = lost \cup {today}
    BY <2>2 DEF OwedIsListed, world
  <2>3. CASE run[i].pc = "release" /\ pc = "done" /\ lost' = lost
    BY <2>1, <2>3, <1>3, <1>r DEF ReminderInv, OwedIsListed, EndIsEmpty, world
  <2> QED
    BY <2>2, <2>3
<1>11. EndIsEmpty'
  BY <1>3, <1>r, RunFields
     DEF ReminderInv, ReminderTypeOK, world, EndIsEmpty
<1>12. SkippedForSomebody'
  BY <1>3, <1>r, RunFields
     DEF ReminderInv, ReminderTypeOK, world, SkippedForSomebody
<1>13. MissedDaysAreLost'
  BY <1>3, <1>r, RunFields
     DEF ReminderInv, ReminderTypeOK, world, MissedDaysAreLost
<1> QED
  BY <1>4, <1>5, <1>6, <1>7, <1>8, <1>9, <1>10, <1>11, <1>12, <1>13 DEF ReminderInv

\* A query that throws preserves the invariant.
LEMMA QueryFailsStep ==
  ASSUME ReminderInv, NEW i \in Instances, QueryFails(i)
  PROVE  ReminderInv'
  BY EndedRun DEF QueryFails

\* A call of Redis that throws preserves the invariant.
LEMMA RedisFailsStep ==
  ASSUME ReminderInv, NEW i \in Instances, RedisFails(i)
  PROVE  ReminderInv'
  BY EndedRun DEF RedisFails, world

\* The end of a process preserves the invariant: its lock stays behind.
LEMMA CrashStep ==
  ASSUME ReminderInv, NEW i \in Instances, Crash(i)
  PROVE  ReminderInv'
  BY EndedRun DEF Crash, world

\* The expiry of a lock preserves the invariant.
LEMMA ExpireStep ==
  ASSUME ReminderInv, Expire
  PROVE  ReminderInv'
<1>1. lock \in Instances
  BY DEF Expire, ReminderInv, ReminderTypeOK
<1>2. CASE AtWork(lock) \/ run[lock].pc = "release"
  <2> DEFINE r == [run[lock] EXCEPT !.late = TRUE]
  <2>1. r \in Run
    BY <1>1, RunFields DEF ReminderInv, Run
  <2>2. run' = [run EXCEPT ![lock] = r]
    BY <1>2 DEF Expire, ReminderInv, ReminderTypeOK
  <2>3. \A j \in Instances : run'[j] = IF j = lock THEN r ELSE run[j]
    BY <1>1, <2>1, <2>2, RunUpdate DEF ReminderInv
  <2>4. /\ r.pc = run[lock].pc /\ r.todo = run[lock].todo /\ r.at = run[lock].at
        /\ r.days = run[lock].days /\ r.late
    BY <1>1, RunFields DEF ReminderInv, Run
  <2>5. overruns' = overruns + 1 /\ overruns' # 0
    BY <1>2 DEF Expire, ReminderInv, ReminderTypeOK
  <2>6. ReminderTypeOK'
    BY <1>1, <1>2, <2>1, <2>2, <2>5, RunUpdate DEF ReminderInv, ReminderTypeOK, Expire, world
  <2>7. LockIsMine'
    BY <1>1, <1>2, <2>3, <2>4, <2>5 DEF ReminderInv, ReminderTypeOK, Expire, world, LockIsMine, AtWork
  <2>8. NobodyLate'
    BY <1>1, <1>2, <2>3, <2>4, <2>5 DEF ReminderInv, ReminderTypeOK, Expire, world, NobodyLate
  <2>9. OneReminderEach'
    BY <1>1, <1>2, <2>3, <2>4, <2>5 DEF ReminderInv, ReminderTypeOK, Expire, world, OneReminderEach, PickedHasNone
  <2>10. PickedHasNone'
    BY <1>1, <1>2, <2>3, <2>4, <2>5 DEF ReminderInv, ReminderTypeOK, Expire, world, PickedHasNone, OneReminderEach
  <2>11. WindowsAreSet'
    BY <1>1, <1>2, <2>3, <2>4, <2>5 DEF ReminderInv, ReminderTypeOK, Expire, world, WindowsAreSet
  <2>12. OwedIsListed'
    <3>1. \A t \in Tenders : OwedToday(t)' <=> OwedToday(t)
      BY DEF OwedToday, ShortestWindow, Expire, world
    <3>2. \A j \in Instances : /\ run'[j].pc = run[j].pc
                               /\ run'[j].todo = run[j].todo
                               /\ run'[j].at = run[j].at
      BY <2>3, <2>4
    <3> QED
      BY <3>1, <3>2 DEF ReminderInv, OwedIsListed, Expire, world
  <2>13. EndIsEmpty'
    BY <1>1, <1>2, <2>3, <2>4, <2>5 DEF ReminderInv, ReminderTypeOK, Expire, world, EndIsEmpty
  <2>14. SkippedForSomebody'
    BY <1>1, <1>2, <2>3, <2>4, <2>5 DEF ReminderInv, ReminderTypeOK, Expire, world, SkippedForSomebody
  <2>15. MissedDaysAreLost'
    BY <1>1, <1>2, <2>3, <2>4, <2>5 DEF ReminderInv, ReminderTypeOK, Expire, world, MissedDaysAreLost
  <2> QED
    BY <2>6, <2>7, <2>8, <2>9, <2>10, <2>11, <2>12, <2>13, <2>14, <2>15 DEF ReminderInv
<1>3. CASE ~(AtWork(lock) \/ run[lock].pc = "release")
  <2>1. ReminderTypeOK'
    BY <1>1, <1>3 DEF ReminderInv, ReminderTypeOK, Expire, world
  <2>2. LockIsMine'
    BY <1>1, <1>3 DEF ReminderInv, ReminderTypeOK, Expire, world, LockIsMine, AtWork
  <2>3. NobodyLate'
    BY <1>1, <1>3 DEF ReminderInv, ReminderTypeOK, Expire, world, NobodyLate
  <2>4. OneReminderEach'
    BY <1>1, <1>3 DEF ReminderInv, ReminderTypeOK, Expire, world, OneReminderEach, PickedHasNone
  <2>5. PickedHasNone'
    BY <1>1, <1>3 DEF ReminderInv, ReminderTypeOK, Expire, world, PickedHasNone, OneReminderEach
  <2>6. WindowsAreSet'
    BY <1>1, <1>3 DEF ReminderInv, ReminderTypeOK, Expire, world, WindowsAreSet
  <2>7. OwedIsListed'
    BY <1>1, <1>3 DEF ReminderInv, ReminderTypeOK, Expire, world, OwedIsListed, OwedToday
  <2>8. EndIsEmpty'
    BY <1>1, <1>3 DEF ReminderInv, ReminderTypeOK, Expire, world, EndIsEmpty
  <2>9. SkippedForSomebody'
    BY <1>1, <1>3 DEF ReminderInv, ReminderTypeOK, Expire, world, SkippedForSomebody
  <2>10. MissedDaysAreLost'
    BY <1>1, <1>3 DEF ReminderInv, ReminderTypeOK, Expire, world, MissedDaysAreLost
  <2> QED
    BY <2>1, <2>2, <2>3, <2>4, <2>5, <2>6, <2>7, <2>8, <2>9, <2>10 DEF ReminderInv
<1> QED
  BY <1>2, <1>3

\* A day that ends preserves the invariant: who is done has reminded of all that
\* was owed, and without a failure somebody is done.
LEMMA NextDayStep ==
  ASSUME ReminderInv, NextDay
  PROVE  ReminderInv'
<1>1. run' = [i \in Instances |-> Due] /\ today' = today + 1 /\ today \in Nat /\ lock' = None
  BY DEF NextDay, ReminderInv, ReminderTypeOK
<1>2. \A i \in Instances : run'[i] = Due
  BY <1>1
<1>3. Due \in Run /\ Due.pc = "due" /\ ~Due.late
  BY DEF Due, Run, Step
<1>4. ReminderTypeOK'
  BY <1>1, <1>3 DEF ReminderInv, ReminderTypeOK, NextDay
<1>5. LockIsMine'
  BY <1>1, <1>2, <1>3, RunFields
     DEF ReminderInv, ReminderTypeOK, world, NextDay, LockIsMine, AtWork
<1>6. NobodyLate'
  BY <1>1, <1>2, <1>3, RunFields
     DEF ReminderInv, ReminderTypeOK, world, NextDay, NobodyLate
<1>7. OneReminderEach'
  BY <1>1, <1>2, <1>3, RunFields
     DEF ReminderInv, ReminderTypeOK, world, NextDay, OneReminderEach, PickedHasNone
<1>8. PickedHasNone'
  BY <1>1, <1>2, <1>3, RunFields
     DEF ReminderInv, ReminderTypeOK, world, NextDay, PickedHasNone, OneReminderEach
<1>9. WindowsAreSet'
  BY <1>1, <1>2, <1>3, RunFields
     DEF ReminderInv, ReminderTypeOK, world, NextDay, WindowsAreSet
<1>10. OwedIsListed'
  BY <1>1, <1>2, <1>3, RunFields
     DEF ReminderInv, ReminderTypeOK, world, NextDay, OwedIsListed, OwedToday
<1>11. EndIsEmpty'
  BY <1>1, <1>2, <1>3, RunFields
     DEF ReminderInv, ReminderTypeOK, world, NextDay, EndIsEmpty
<1>12. SkippedForSomebody'
  BY <1>1, <1>2, <1>3, RunFields
     DEF ReminderInv, ReminderTypeOK, world, NextDay, SkippedForSomebody
<1>13. MissedDaysAreLost'
  <2>1. SUFFICES ASSUME NEW t \in Tenders, tender[t].state = "active", reminders[t] = 0,
                        NEW n \in Windows \cup {DEFAULT_REMINDER_DAYS}, NEW d \in Day,
                        ShortestWindow(n), since[t] < d, d < today + 1,
                        d <= tender[t].closing, tender[t].closing < d + n,
                        d \notin lost
                 PROVE  FALSE
    BY <1>1 DEF NextDay, MissedDaysAreLost, ShortestWindow
  <2>2. ~ d < today
    BY <2>1 DEF ReminderInv, MissedDaysAreLost
  <2>3. d = today
    BY <2>1, <2>2, <1>1 DEF Day
  <2>4. OwedToday(t)
    BY <2>1, <2>3 DEF OwedToday
  <2>5. PICK j \in Instances : run[j].pc = "done"
    BY <2>1, <2>3, DeploymentAssumption DEF ReminderInv, SkippedForSomebody, NextDay
  <2>6. t \in run[j].todo
    BY <2>1, <2>3, <2>4, <2>5 DEF ReminderInv, OwedIsListed
  <2> QED
    BY <2>5, <2>6 DEF ReminderInv, EndIsEmpty
<1> QED
  BY <1>4, <1>5, <1>6, <1>7, <1>8, <1>9, <1>10, <1>11, <1>12, <1>13 DEF ReminderInv

\* A new closing date preserves the invariant: the tender is as of today.
LEMMA SetClosingStep ==
  ASSUME ReminderInv, NEW t \in Tenders, NEW d \in Day, SetClosing(t, d)
  PROVE  ReminderInv'
<1>1. /\ tender' = [tender EXCEPT ![t] = [state |-> "active", closing |-> d]]
      /\ since' = [since EXCEPT ![t] = today]
      /\ today \in Nat /\ d \in Nat
  BY DEF SetClosing, ReminderInv, ReminderTypeOK, Day
<1>2. \A s \in Tenders : s # t => tender'[s] = tender[s] /\ since'[s] = since[s]
  BY <1>1 DEF ReminderInv, ReminderTypeOK
<1>3. since'[t] = today
  BY <1>1 DEF ReminderInv, ReminderTypeOK
<1>4. ReminderTypeOK'
  BY <1>1, <1>2, <1>3, RunFields
     DEF ReminderInv, ReminderTypeOK, world, SetClosing
<1>5. LockIsMine'
  BY <1>1, <1>2, <1>3, RunFields
     DEF ReminderInv, ReminderTypeOK, world, SetClosing, LockIsMine, AtWork
<1>6. NobodyLate'
  BY <1>1, <1>2, <1>3, RunFields
     DEF ReminderInv, ReminderTypeOK, world, SetClosing, NobodyLate
<1>7. OneReminderEach'
  BY <1>1, <1>2, <1>3, RunFields
     DEF ReminderInv, ReminderTypeOK, world, SetClosing, OneReminderEach, PickedHasNone
<1>8. PickedHasNone'
  BY <1>1, <1>2, <1>3, RunFields
     DEF ReminderInv, ReminderTypeOK, world, SetClosing, PickedHasNone, OneReminderEach
<1>9. WindowsAreSet'
  BY <1>1, <1>2, <1>3, RunFields
     DEF ReminderInv, ReminderTypeOK, world, SetClosing, WindowsAreSet
<1>10. OwedIsListed'
  <2>1. ASSUME NEW s \in Tenders, OwedToday(s)'
        PROVE  OwedToday(s)
    <3>1. s # t
      BY <2>1, <1>1, <1>3 DEF OwedToday, SetClosing
    <3> QED
      BY <2>1, <3>1, <1>2 DEF OwedToday, SetClosing, ShortestWindow
  <2> QED
    BY <2>1 DEF ReminderInv, OwedIsListed, SetClosing
<1>11. EndIsEmpty'
  BY <1>1, <1>2, <1>3, RunFields
     DEF ReminderInv, ReminderTypeOK, world, SetClosing, EndIsEmpty
<1>12. SkippedForSomebody'
  BY <1>1, <1>2, <1>3, RunFields
     DEF ReminderInv, ReminderTypeOK, world, SetClosing, SkippedForSomebody
<1>13. MissedDaysAreLost'
  <2>1. SUFFICES ASSUME NEW s \in Tenders, (tender[s].state)' = "active", reminders[s] = 0,
                        NEW n \in Windows \cup {DEFAULT_REMINDER_DAYS}, NEW e \in Day,
                        ShortestWindow(n), since'[s] < e, e < today,
                        e <= (tender[s].closing)', (tender[s].closing)' < e + n
                 PROVE  e \in lost
    BY DEF SetClosing, MissedDaysAreLost, ShortestWindow
  <2>2. s # t
    BY <2>1, <1>1, <1>3 DEF Day
  <2> QED
    BY <2>1, <2>2, <1>2 DEF ReminderInv, MissedDaysAreLost
<1> QED
  BY <1>4, <1>5, <1>6, <1>7, <1>8, <1>9, <1>10, <1>11, <1>12, <1>13 DEF ReminderInv

\* A tender that leaves the active statuses preserves the invariant.
LEMMA CloseStep ==
  ASSUME ReminderInv, NEW t \in Tenders, Close(t)
  PROVE  ReminderInv'
<1>1. \A s \in Tenders : /\ tender'[s].closing = tender[s].closing
                         /\ tender'[s].state = "active" => tender[s].state = "active"
  BY DEF Close, ReminderInv, ReminderTypeOK
<1>2. ReminderTypeOK'
  BY <1>1, RunFields
     DEF ReminderInv, ReminderTypeOK, world, Close
<1>3. LockIsMine'
  BY <1>1, RunFields
     DEF ReminderInv, ReminderTypeOK, world, Close, LockIsMine, AtWork
<1>4. NobodyLate'
  BY <1>1, RunFields
     DEF ReminderInv, ReminderTypeOK, world, Close, NobodyLate
<1>5. OneReminderEach'
  BY <1>1, RunFields
     DEF ReminderInv, ReminderTypeOK, world, Close, OneReminderEach, PickedHasNone
<1>6. PickedHasNone'
  BY <1>1, RunFields
     DEF ReminderInv, ReminderTypeOK, world, Close, PickedHasNone, OneReminderEach
<1>7. WindowsAreSet'
  BY <1>1, RunFields
     DEF ReminderInv, ReminderTypeOK, world, Close, WindowsAreSet
<1>8. OwedIsListed'
  BY <1>1, RunFields
     DEF ReminderInv, ReminderTypeOK, world, Close, OwedIsListed, OwedToday
<1>9. EndIsEmpty'
  BY <1>1, RunFields
     DEF ReminderInv, ReminderTypeOK, world, Close, EndIsEmpty
<1>10. SkippedForSomebody'
  BY <1>1, RunFields
     DEF ReminderInv, ReminderTypeOK, world, Close, SkippedForSomebody
<1>11. MissedDaysAreLost'
  BY <1>1, RunFields
     DEF ReminderInv, ReminderTypeOK, world, Close, MissedDaysAreLost
<1> QED
  BY <1>2, <1>3, <1>4, <1>5, <1>6, <1>7, <1>8, <1>9, <1>10, <1>11 DEF ReminderInv

\* A new window preserves the invariant.
LEMMA SetDaysStep ==
  ASSUME ReminderInv, NEW n \in Windows, SetDays(n)
  PROVE  ReminderInv'
<1>1. ReminderTypeOK'
  BY WindowsAssumption
     DEF ReminderInv, ReminderTypeOK, world, SetDays
<1>2. LockIsMine'
  BY RunFields
     DEF ReminderInv, ReminderTypeOK, world, SetDays, LockIsMine, AtWork
<1>3. NobodyLate'
  BY RunFields
     DEF ReminderInv, ReminderTypeOK, world, SetDays, NobodyLate
<1>4. OneReminderEach'
  BY RunFields
     DEF ReminderInv, ReminderTypeOK, world, SetDays, OneReminderEach, PickedHasNone
<1>5. PickedHasNone'
  BY RunFields
     DEF ReminderInv, ReminderTypeOK, world, SetDays, PickedHasNone, OneReminderEach
<1>6. WindowsAreSet'
  BY RunFields
     DEF ReminderInv, ReminderTypeOK, world, SetDays, WindowsAreSet
<1>7. OwedIsListed'
  BY RunFields
     DEF ReminderInv, ReminderTypeOK, world, SetDays, OwedIsListed, OwedToday
<1>8. EndIsEmpty'
  BY RunFields
     DEF ReminderInv, ReminderTypeOK, world, SetDays, EndIsEmpty
<1>9. SkippedForSomebody'
  BY RunFields
     DEF ReminderInv, ReminderTypeOK, world, SetDays, SkippedForSomebody
<1>10. MissedDaysAreLost'
  BY RunFields
     DEF ReminderInv, ReminderTypeOK, world, SetDays, MissedDaysAreLost
<1> QED
  BY <1>1, <1>2, <1>3, <1>4, <1>5, <1>6, <1>7, <1>8, <1>9, <1>10 DEF ReminderInv

\* The first morning satisfies the invariant.
LEMMA InitIInv == ReminderInit => ReminderInv
<1> SUFFICES ASSUME ReminderInit PROVE ReminderInv
  OBVIOUS
<1>1. \A i \in Instances : run[i] = Due
  BY DEF ReminderInit
<1>2. Due \in Run /\ Due.pc = "due" /\ ~Due.late
  BY DEF Due, Run, Step
<1>3. ReminderTypeOK
  BY <1>1, <1>2 DEF ReminderInit, ReminderTypeOK
<1>4. LockIsMine
  BY <1>1, <1>2 DEF ReminderInit, LockIsMine, AtWork
<1>5. NobodyLate
  BY <1>1, <1>2 DEF ReminderInit, NobodyLate
<1>6. OneReminderEach
  BY <1>1, <1>2 DEF ReminderInit, OneReminderEach, PickedHasNone
<1>7. PickedHasNone
  BY <1>1, <1>2 DEF ReminderInit, PickedHasNone, OneReminderEach
<1>8. WindowsAreSet
  BY <1>1, <1>2 DEF ReminderInit, WindowsAreSet
<1>9. OwedIsListed
  BY <1>1, <1>2 DEF ReminderInit, OwedIsListed, OwedToday
<1>10. EndIsEmpty
  BY <1>1, <1>2 DEF ReminderInit, EndIsEmpty
<1>11. SkippedForSomebody
  BY <1>1, <1>2 DEF ReminderInit, SkippedForSomebody
<1>12. MissedDaysAreLost
  BY <1>1, <1>2 DEF ReminderInit, MissedDaysAreLost, Day
<1> QED
  BY <1>3, <1>4, <1>5, <1>6, <1>7, <1>8, <1>9, <1>10, <1>11, <1>12 DEF ReminderInv

\* Every step preserves the invariant.
LEMMA StepIInv == ReminderInv /\ [ReminderNext]_reminderVars => ReminderInv'
<1> SUFFICES ASSUME ReminderInv, [ReminderNext]_reminderVars PROVE ReminderInv'
  OBVIOUS
<1>1. ASSUME NEW i \in Instances, Proceed(i) PROVE ReminderInv'
  BY <1>1, AcquireStep, SkipStep, ReadSettingStep, ListStep, PassOverStep, PickStep,
     InsertStep, ReleaseStep DEF Proceed
<1>2. ASSUME NEW i \in Instances, QueryFails(i) \/ RedisFails(i) \/ Crash(i) PROVE ReminderInv'
  BY <1>2, QueryFailsStep, RedisFailsStep, CrashStep
<1>3. CASE UNCHANGED reminderVars
  BY <1>3 DEF ReminderInv, ReminderTypeOK, reminderVars, world, LockIsMine, AtWork, NobodyLate, OneReminderEach,
     PickedHasNone, WindowsAreSet, OwedIsListed, OwedToday, EndIsEmpty, SkippedForSomebody,
     MissedDaysAreLost, ShortestWindow
<1> QED
  BY <1>1, <1>2, <1>3, ExpireStep, NextDayStep, SetClosingStep, CloseStep, SetDaysStep DEF ReminderNext
-----------------------------------------------------------------------------
(* Theorems *)

\* The inductive invariant holds in every reachable state.
THEOREM ReminderInvariance == ReminderSpec => []ReminderInv
  BY InitIInv, StepIInv, PTL DEF ReminderSpec

\* Every variable keeps its type.
THEOREM ReminderTypeCorrectness == ReminderSpec => []ReminderTypeOK
<1>1. ReminderInv => ReminderTypeOK
  BY DEF ReminderInv
<1> QED
  BY <1>1, ReminderInvariance, PTL

\* lib/lock.ts: a run whose lock has not expired under it still holds it.
THEOREM LockDiscipline == ReminderSpec => []LockIsMine
<1>1. ReminderInv => LockIsMine
  BY DEF ReminderInv
<1> QED
  BY <1>1, ReminderInvariance, PTL

\* BR-009: no second reminder of a tender while no run outlives its lock.
THEOREM NoDuplicateReminder == ReminderSpec => []OneReminderEach
<1>1. ReminderInv => OneReminderEach
  BY DEF ReminderInv
<1> QED
  BY <1>1, ReminderInvariance, PTL

\* FR-JOB-01: no tender goes through its window without a reminder, unless on
\* each of its days some run failed.
THEOREM NoReminderMissed == ReminderSpec => []NoneMissed
<1>1. ReminderInv => NoneMissed
  <2> SUFFICES ASSUME ReminderInv,
                      NEW t \in Tenders, tender[t].state = "active",
                      today > tender[t].closing, reminders[t] = 0,
                      NEW n \in Windows \cup {DEFAULT_REMINDER_DAYS}, NEW d \in Day,
                      ShortestWindow(n), since[t] < d,
                      d <= tender[t].closing, tender[t].closing < d + n
               PROVE  d \in lost
    BY DEF NoneMissed
  <2>1. d < today
    BY DEF ReminderInv, ReminderTypeOK, Day
  <2> QED
    BY <2>1 DEF ReminderInv, MissedDaysAreLost
<1> QED
  BY <1>1, ReminderInvariance, PTL
=============================================================================
