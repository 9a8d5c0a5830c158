--------------------------- MODULE ClosingReminder ---------------------------
(***************************************************************************)
(* The daily closing reminder (apps/api/src/services/closingReminder.ts)   *)
(* as every instance of the API runs it, behind the Redis lock of          *)
(* lib/lock.ts: who gets the lock, what is read before each insert, what   *)
(* an expired lock, a failing query or a dying process leaves behind, and  *)
(* the days that pass with tenders changing meanwhile.                     *)
(*                                                                         *)
(* Day d begins at its 08:00.  A tender whose closing is d closes between  *)
(* the runs of day d and day d + 1: it is in a window of n days on the     *)
(* days d - n + 1 to d.                                                    *)
(***************************************************************************)
EXTENDS Naturals, FiniteSets

CONSTANTS
  Instances,     \* the running copies of the API; each one's lock token too
  None,          \* no lock key, no tender
  Tenders,
  HasRedis,      \* is REDIS_URL set
  LastDay,       \* bound on the days
  Windows,       \* what an administrator sets closingReminderDays to
  MaxFailures,   \* bound on the runs that fail
  MaxOverruns    \* bound on the runs that outlive the expiry of their lock

\* lib/redis.ts: a deployment of several instances has Redis.
ASSUME DeploymentAssumption ==
  /\ None \notin Instances \cup Tenders
  /\ HasRedis \in BOOLEAN
  /\ HasRedis \/ \A i, j \in Instances : i = j
  /\ Instances # {}
ASSUME WindowsAssumption == LastDay \in Nat /\ Windows \subseteq Nat \ {0}
ASSUME FailuresAssumption == MaxFailures \in Nat /\ MaxOverruns \in Nat

VARIABLES
  today,
  tender,      \* the Tender rows: is the status an active one, and closingDate
  since,       \* history: the day a tender last changed
  setting,     \* SystemSetting closingReminderDays, 0 when there is no row
  reminders,   \* how many CLOSING_SOON notifications each tender has
  lock,        \* the token stored under lock:cron:closing-reminder
  run,         \* today's run of each instance
  lost,        \* history: the days on which a run failed before its end
  failures, overruns

reminderVars == <<today, tender, since, setting, reminders, lock, run, lost, failures, overruns>>

Day == 1..LastDay

Step == {"due", "settings", "list", "look", "insert", "release", "done", "skipped", "down"}

\* The local variables of runClosingReminders: the window, the tenders it found
\* and has not come to yet, the one it is about to remind of.  `late` is
\* history: the lock expired under this run.
Run == [pc : Step, days : Nat, todo : SUBSET Tenders, at : Tenders \cup {None}, late : BOOLEAN]

Due == [pc |-> "due", days |-> 0, todo |-> {}, at |-> None, late |-> FALSE]

ReminderTypeOK ==
  /\ today \in Nat
  /\ tender \in [Tenders -> [state : {"none", "active", "closed"}, closing : Nat]]
  /\ since \in [Tenders -> Nat]
  /\ setting \in Nat
  /\ reminders \in [Tenders -> Nat]
  /\ lock \in Instances \cup {None}
  /\ run \in [Instances -> Run]
  /\ lost \subseteq Nat
  /\ failures \in Nat
  /\ overruns \in Nat

ReminderInit ==
  /\ today = 1
  /\ tender = [t \in Tenders |-> [state |-> "none", closing |-> 0]]
  /\ since = [t \in Tenders |-> 0]
  /\ setting = 0
  /\ reminders = [t \in Tenders |-> 0]
  /\ lock = None
  /\ run = [i \in Instances |-> Due]
  /\ lost = {}
  /\ failures = 0
  /\ overruns = 0

world == <<today, tender, since, setting>>
-----------------------------------------------------------------------------
(* withLock *)

\* The cron task fires and SET ... PX NX succeeds, or there is no Redis to ask.
Acquire(i) ==
  /\ run[i].pc = "due"
  /\ HasRedis => lock = None
  /\ lock' = IF HasRedis THEN i ELSE lock
  /\ run' = [run EXCEPT ![i].pc = "settings"]
  /\ UNCHANGED <<world, reminders, lost, failures, overruns>>

\* Another instance holds the lock: no run here today.
Skip(i) ==
  /\ run[i].pc = "due"
  /\ lock # None
  /\ run' = [run EXCEPT ![i].pc = "skipped"]
  /\ UNCHANGED <<world, reminders, lock, lost, failures, overruns>>

\* Fault: DEL without looking at the token.
ReleaseAny(i) ==
  /\ run[i].pc = "release"
  /\ lock' = None
  /\ run' = [run EXCEPT ![i].pc = "done"]
  /\ UNCHANGED <<world, reminders, lost, failures, overruns>>

\* RELEASE_SCRIPT: the key goes only if it still carries the run's token.
Release(i) ==
  /\ run[i].pc = "release"
  /\ lock' = IF lock = i THEN None ELSE lock
  /\ run' = [run EXCEPT ![i].pc = "done"]
  /\ UNCHANGED <<world, reminders, lost, failures, overruns>>
-----------------------------------------------------------------------------
(* runClosingReminders *)

DEFAULT_REMINDER_DAYS == 3

getReminderDays == IF setting > 0 THEN setting ELSE DEFAULT_REMINDER_DAYS

\* Where the run is when `todo` is left of its tenders.
Onwards(todo) == IF todo # {} THEN "look" ELSE IF HasRedis THEN "release" ELSE "done"

ReadSetting(i) ==
  /\ run[i].pc = "settings"
  /\ run' = [run EXCEPT ![i].pc = "list", ![i].days = getReminderDays]
  /\ UNCHANGED <<world, reminders, lock, lost, failures, overruns>>

\* Fault: `lt` for `lte` at the near end of the window.
InWindowTooLate(t, days) == today < tender[t].closing /\ tender[t].closing < today + days

InWindow(t, days) == today <= tender[t].closing /\ tender[t].closing < today + days

\* Fault: a run that finds nothing leaves its lock to expire.
ListAndLeave(i) ==
  /\ run[i].pc = "list"
  /\ LET due == {t \in Tenders : tender[t].state = "active" /\ InWindow(t, run[i].days)}
     IN  run' = [run EXCEPT ![i].pc = IF due = {} THEN "skipped" ELSE "look", ![i].todo = due]
  /\ UNCHANGED <<world, reminders, lock, lost, failures, overruns>>

\* findMany: the rows the run will work from, whatever happens to them later.
List(i) ==
  /\ run[i].pc = "list"
  /\ LET due == {t \in Tenders : tender[t].state = "active" /\ InWindow(t, run[i].days)}
     IN  run' = [run EXCEPT ![i].pc = Onwards(due), ![i].todo = due]
  /\ UNCHANGED <<world, reminders, lock, lost, failures, overruns>>

\* Fault: `break` for `continue`.
GiveUp(i, t) ==
  /\ run[i].pc = "look"
  /\ t \in run[i].todo
  /\ reminders[t] > 0
  /\ run' = [run EXCEPT ![i].pc = Onwards({}), ![i].todo = {}]
  /\ UNCHANGED <<world, reminders, lock, lost, failures, overruns>>

\* findFirst: a tender that has its reminder is passed over.
PassOver(i, t) ==
  /\ run[i].pc = "look"
  /\ t \in run[i].todo
  /\ reminders[t] > 0
  /\ run' = [run EXCEPT ![i].pc = Onwards(run[i].todo \ {t}), ![i].todo = @ \ {t}]
  /\ UNCHANGED <<world, reminders, lock, lost, failures, overruns>>

\* Fault: the look-up is dropped.
PickAny(i, t) ==
  /\ run[i].pc = "look"
  /\ t \in run[i].todo
  /\ run' = [run EXCEPT ![i].pc = "insert", ![i].todo = @ \ {t}, ![i].at = t]
  /\ UNCHANGED <<world, reminders, lock, lost, failures, overruns>>

\* findFirst: a tender that has none is next.
Pick(i, t) ==
  /\ run[i].pc = "look"
  /\ t \in run[i].todo
  /\ reminders[t] = 0
  /\ run' = [run EXCEPT ![i].pc = "insert", ![i].todo = @ \ {t}, ![i].at = t]
  /\ UNCHANGED <<world, reminders, lock, lost, failures, overruns>>

\* notify: the row for the responsible user the run read with the tender.
Insert(i) ==
  /\ run[i].pc = "insert"
  /\ reminders' = [reminders EXCEPT ![run[i].at] = @ + 1]
  /\ run' = [run EXCEPT ![i].pc = Onwards(run[i].todo), ![i].at = None]
  /\ UNCHANGED <<world, lock, lost, failures, overruns>>
-----------------------------------------------------------------------------
(* Failures *)

AtWork(i) == run[i].pc \in {"settings", "list", "look", "insert"}

Fails(i, pc) ==
  /\ failures < MaxFailures
  /\ failures' = failures + 1
  /\ run' = [run EXCEPT ![i].pc = pc, ![i].todo = {}, ![i].at = None]

\* A query throws: `finally` still gives the lock back.
QueryFails(i) ==
  /\ AtWork(i)
  /\ Fails(i, IF HasRedis THEN "release" ELSE "done")
  /\ lost' = lost \cup {today}
  /\ UNCHANGED <<world, reminders, lock, overruns>>

\* SET throws, and with it the job; EVAL throws, which withLock swallows.
RedisFails(i) ==
  /\ HasRedis
  /\ \/ run[i].pc = "due" /\ Fails(i, "down") /\ lost' = lost \cup {today}
     \/ run[i].pc = "release" /\ Fails(i, "done") /\ UNCHANGED lost
  /\ UNCHANGED <<world, reminders, lock, overruns>>

\* The process ends, or is not there at 08:00: its lock stays behind.
Crash(i) ==
  /\ \/ /\ run[i].pc = "due" \/ AtWork(i)
        /\ Fails(i, "down")
        /\ lost' = lost \cup {today}
     \/ run[i].pc = "release" /\ Fails(i, "done") /\ UNCHANGED lost
  /\ UNCHANGED <<world, reminders, lock, overruns>>

\* The lock's ttlMs has passed, whether its run is gone or only slow.
Expire ==
  /\ lock # None
  /\ IF AtWork(lock) \/ run[lock].pc = "release"
     THEN /\ overruns < MaxOverruns
          /\ overruns' = overruns + 1
          /\ run' = [run EXCEPT ![lock].late = TRUE]
     ELSE UNCHANGED <<overruns, run>>
  /\ lock' = None
  /\ UNCHANGED <<world, reminders, lost, failures>>
-----------------------------------------------------------------------------
(* The world around the job *)

\* Fault: SET without PX, and a lock left behind stays.
NextDayKeepsLock ==
  /\ today <= LastDay
  /\ \A i \in Instances : run[i].pc \in {"done", "skipped", "down"}
  /\ today' = today + 1
  /\ run' = [i \in Instances |-> Due]
  /\ UNCHANGED <<tender, since, setting, reminders, lock, lost, failures, overruns>>

\* The next 08:00, long after any lock of five minutes has expired.
NextDay ==
  /\ today <= LastDay
  /\ \A i \in Instances : run[i].pc \in {"done", "skipped", "down"}
  /\ today' = today + 1
  /\ lock' = None
  /\ run' = [i \in Instances |-> Due]
  /\ UNCHANGED <<tender, since, setting, reminders, lost, failures, overruns>>

\* POST /tenders, and PATCH /tenders/:id while the status is an active one.
SetClosing(t, d) ==
  /\ tender[t].state # "closed"
  /\ tender' = [tender EXCEPT ![t] = [state |-> "active", closing |-> d]]
  /\ since' = [since EXCEPT ![t] = today]
  /\ UNCHANGED <<today, setting, reminders, lock, run, lost, failures, overruns>>

\* The workflow takes the tender out of the active statuses.
Close(t) ==
  /\ tender[t].state = "active"
  /\ tender' = [tender EXCEPT ![t].state = "closed"]
  /\ UNCHANGED <<today, since, setting, reminders, lock, run, lost, failures, overruns>>

\* PATCH /admin/settings.
SetDays(n) ==
  /\ setting' = n
  /\ UNCHANGED <<today, tender, since, reminders, lock, run, lost, failures, overruns>>
-----------------------------------------------------------------------------
Proceed(i) ==
  \/ Acquire(i) \/ Skip(i) \/ ReadSetting(i) \/ List(i)
  \/ \E t \in Tenders : PassOver(i, t) \/ Pick(i, t)
  \/ Insert(i) \/ Release(i)

ReminderNext ==
  \/ \E i \in Instances : Proceed(i) \/ QueryFails(i) \/ RedisFails(i) \/ Crash(i)
  \/ Expire
  \/ NextDay
  \/ \E t \in Tenders : Close(t) \/ \E d \in Day : SetClosing(t, d)
  \/ \E n \in Windows : SetDays(n)

ReminderSpec == ReminderInit /\ [][ReminderNext]_reminderVars
-----------------------------------------------------------------------------
(* Properties *)

\* The lock does what it is for: a run whose lock has not expired under it
\* still holds it, whatever the runs whose lock did expire do when they end.
LockIsMine ==
  \A i \in Instances :
    HasRedis /\ ~run[i].late /\ (AtWork(i) \/ run[i].pc = "release") => lock = i

\* BR-009: no tender is reminded of twice, over all days, changes of its dates
\* and failures, as long as no run outlives the expiry of its lock: the look
\* before each insert has nothing but the lock to make it safe.
OneReminderEach ==
  overruns = 0 => \A t \in Tenders : reminders[t] <= 1

\* FR-JOB-01: a tender that went through its window unchanged and still
\* active was reminded of, unless on every one of its days some run failed.
ShortestWindow(n) ==
  /\ n \in Windows \cup {DEFAULT_REMINDER_DAYS}
  /\ \A m \in Windows \cup {DEFAULT_REMINDER_DAYS} : n <= m

NoneMissed ==
  \A t \in Tenders :
    tender[t].state = "active" /\ today > tender[t].closing /\ reminders[t] = 0 =>
      \A n \in Windows \cup {DEFAULT_REMINDER_DAYS}, d \in Day :
        ShortestWindow(n) /\ since[t] < d /\ d <= tender[t].closing /\ tender[t].closing < d + n
          => d \in lost

-----------------------------------------------------------------------------
(* Why they hold: the parts of the inductive invariant *)

\* A run about to insert works on a tender nobody has reminded of: nobody else
\* is at work.
PickedHasNone ==
  \A i \in Instances : run[i].pc = "insert" =>
    /\ run[i].at \in Tenders
    /\ overruns = 0 => reminders[run[i].at] = 0

NobodyLate == overruns = 0 => \A i \in Instances : ~run[i].late

\* Every run works with a window that was set, or with the default.
WindowsAreSet ==
  /\ setting \in Windows \cup {0}
  /\ \A i \in Instances : run[i].pc \in {"list", "look", "insert"} =>
       run[i].days \in Windows \cup {DEFAULT_REMINDER_DAYS}

\* The tenders the runs of today owe a reminder, if they do not fail.
OwedToday(t) ==
  /\ tender[t].state = "active"
  /\ since[t] < today
  /\ today \in Day
  /\ today <= tender[t].closing
  /\ \E n \in Windows \cup {DEFAULT_REMINDER_DAYS} :
       ShortestWindow(n) /\ tender[t].closing < today + n
  /\ reminders[t] = 0

\* On a day without failures whoever has read its list still has every tender
\* that is owed a reminder before it, so that nothing is owed once one is done.
OwedIsListed ==
  today \in lost
    \/ \A i \in Instances, t \in Tenders :
         run[i].pc \in {"look", "insert", "release", "done"} /\ OwedToday(t) =>
           t \in run[i].todo \/ (run[i].pc = "insert" /\ t = run[i].at)

\* Whoever is finished has come to the end of its list.
EndIsEmpty ==
  \A i \in Instances : run[i].pc \in {"release", "done"} => run[i].todo = {}

\* On a day without failures nobody is skipped but for another who works.
SkippedForSomebody ==
  today \in lost
    \/ /\ \A i \in Instances : run[i].pc # "down"
       /\ lock # None => run[lock].pc \notin {"due", "skipped"}
       /\ (\E i \in Instances : run[i].pc = "skipped") =>
            \E j \in Instances : run[j].pc \notin {"due", "skipped"}

\* NoneMissed, day by day.
MissedDaysAreLost ==
  \A t \in Tenders :
    tender[t].state = "active" /\ reminders[t] = 0 =>
      \A n \in Windows \cup {DEFAULT_REMINDER_DAYS}, d \in Day :
        /\ ShortestWindow(n) /\ since[t] < d /\ d < today
        /\ d <= tender[t].closing /\ tender[t].closing < d + n
        => d \in lost

ReminderInv ==
  /\ ReminderTypeOK
  /\ LockIsMine /\ NobodyLate
  /\ OneReminderEach /\ PickedHasNone
  /\ WindowsAreSet /\ OwedIsListed /\ EndIsEmpty /\ SkippedForSomebody
  /\ MissedDaysAreLost
=============================================================================
