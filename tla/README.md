# Tender X in TLA+

This directory models the tender management system of this repository: the API
(`src/apps/api`, Express and Prisma on PostgreSQL, with Redis where it is
configured) that takes a tender from its creation to its result, and the part of
the web client (`src/apps/web`, React with TanStack Query) that keeps state of its
own. The models are written from the source; `tlc` checks them on small instances
and `tlapm` proves the main safety properties for every value of the constants.

    tlc -workers 2 -config TenderConcurrent.cfg MCTender.tla
    tlc -workers 2 -config Accounts.cfg MCAccounts.tla
    tlapm TenderProofs.tla

`PROJECT.json` lists which configuration goes with which module. The proof modules
are `TenderProofs`, `NotificationProofs`, `AttachmentProofs`, `ChecklistProofs`,
`AccountProofs`, `ApiProofs`, `IntakeProofs` and `PageProofs`.

## 1. The system

The API is stateless: several instances may run behind a load balancer
(`docker-compose.prod.yml`, `lib/lock.ts`), and what they share is PostgreSQL
and Redis. Within an instance Node runs one callback at a time; every `await` of
a handler lets others run, so what must be atomic has to be one query or one
transaction (`repositories/transaction.ts`, at PostgreSQL's default isolation,
READ COMMITTED). A tab of the web client has a query cache, its forms and the
calls under way; it holds no authority.

| Component | Source | State | Operations | What makes it correct |
|---|---|---|---|---|
| Tender workflow table | `services/tenderWorkflow.ts`, `shared/.../schemas/tender.ts` | none | resolve an action, may an action apply, may fields be edited | the mandatory status model |
| Tender handlers | `routes/tenders/{crud,review,workflow}.ts`, `services/tender{Assignment,Decision}.ts`, `lib/statusChange.ts` | `Tender`, `TenderStatusHistory`, `AuditLog`, `TenderChecklistAnswer` | create, edit, start review, checklist, reject, approve review, assign, submit for approval, approve / return / stop, mark submitted, result | status, history and responsible user stay consistent; BR-001..004, BR-011; the edit lock; no unknown duplicate |
| Notifications | `services/notifications.ts`, `routes/notifications.ts` | `Notification` | notify a user, notify a role, list, mark read | nobody is told of what did not happen; everybody concerned is told, and sees it |
| Login, sessions, administration | `routes/auth.ts`, `services/loginThrottle.ts`, `repositories/tokenRepository.ts`, `middleware/auth.ts`, `routes/adminUsers.ts`, `routes/settings.ts` | `User` with its failure counter and lock, `RevokedToken`, tokens in cookies, `SystemSetting`, `AuditLog` | login, logout, purge, check a request, create and change users, set the window | a lock is earned and lasts; a token that was logged out stays useless; the role of the moment decides; changes are recorded |
| Closing reminders | `services/closingReminder.ts`, `lib/lock.ts`, `index.ts` | `Notification`, the Redis lock, the cron task of each instance | daily run | one reminder per tender, on some day of its window |
| Attachments | `routes/tenders/attachments.ts`, `routes/attachments.ts`, `services/*torage.ts` | `Attachment`, stored objects, temporary files | upload, download | versions are distinct; a row has its object, where the instance that is asked can read it |
| Checklist templates | `routes/checklistTemplates.ts`, `services/checklistCompletion.ts` | `ChecklistTemplate`, `ChecklistItem` | create, edit, choose the active one | an edit does not turn an unfinished review into a finished one |
| Rate limiter | `lib/rateLimit.ts`, `app.ts` | Redis counters | count, expire | it limits, and no counter blocks a client for ever |
| Shutdown | `lib/shutdown.ts`, `index.ts` | one flag, the server, the pools | stop tasks, server, database, Redis | once, in that order, without cutting requests, and to an end |
| A tender's page | `TenderDetailsPage.tsx`, `ActionsBar.tsx`, `ReviewTab.tsx` | cached queries, ticks, a dialog, mutations under way | fetch, tick, click, confirm, invalidate | its buttons agree with the routes; what it shows is not from before its own writes |
| Forms, tasks, sign-in, bell | `TenderFormPage.tsx`, `MyTasksPage.tsx`, `DashboardPage.tsx`, `useAuth.ts`, `NotificationBell.tsx` | a form, the user, the cached notifications | create in spite of a warning, sign in and out, poll, mark as read | no tender is forced unwarned; nobody works unseen; nobody sees another's data |
| Statistics cache, statistics, reports, lists, validation, logging, deployment | see `PROJECT.json` | | | not modelled, section 6 |

How they meet: a request passes rate limiter, authentication and role check, then
one handler; a handler reads the tender, decides by the table, commits one
transaction that writes row, history and audit log, and after that creates its
notifications. The reminder job runs in every instance and writes the same
`Notification` table. The page of a tender shows buttons by conditions of its own,
sends what the user clicks, and fetches again after the answer; the bell polls.

What is hard: handlers of the same tender interleave (the checks are made on a row
read before the transaction, and the update has no condition on it); logins of one
account overlap across `bcrypt.compare`; administration changes users in the middle
of requests; a process may die between a commit and its notifications, between a
counter and its expiry, between a change and its audit row; jobs of several
instances overlap when a lock expires; answers reach a tab late, out of order or
not at all, and its cache outlives the session it was filled in. `PROJECT.json`
lists these hazards at the lines where they bite.

## 2. Modules

| Module | What it is |
|---|---|
| `TenderWorkflow` | statuses, roles, the transition table, `resolveTransition`, the edit lock |
| `TenderLifecycle` | abstract specification: one tender as a row that moves in atomic steps, with BR-001, BR-003, BR-004 and BR-011 in its guards |
| `TenderHandlers` | the handlers as they run: requests in flight, reads, checks, transactions, notifications, crashes, user administration |
| `TenderProperties` | what the handlers guarantee, and the mapping to `TenderLifecycle` |
| `TenderInvariant`, `TenderProofs` | the inductive invariant and its parts, and the proofs about the handlers |
| `TenderIntake`, `IntakeProofs` | creations with their check for duplicates, the form in front of them, lost answers |
| `ClosingReminder` | the daily job of every instance behind its Redis lock |
| `Attachments`, `AttachmentProofs` | an upload as three resources: temporary file, stored object, row |
| `ChecklistTemplates`, `ChecklistProofs` | templates that are edited while a review is marked and decided |
| `Accounts`, `AccountProofs` | logins, locks, tokens, the deny-list, the check of requests, administration |
| `RateLimit` | the fixed-window counters in Redis |
| `Shutdown` | the life of an API process |
| `ApiInstances`, `ApiProofs` | the composition of the two with the requests that pass through both |
| `PageOffers` | the buttons of the client against the guards of the routes |
| `QueryCache` | an entry of the client's query cache |
| `TenderPages`, `PageProofs` | a tab on the page of a tender: composes `TenderLifecycle`, `PageOffers` and `QueryCache` |
| `Inbox` | a tab over the users that sign in to it, and their notifications; uses `QueryCache` |
| `NotificationProofs` | the proofs about `Inbox` and about `ClosingReminder`, which share nothing; hence the names `ReminderSpec`, `ReminderInit`, `ReminderTypeOK` of the latter |
| `MCTender`, `MCIntake`, `MCReminder`, `MCAttachments`, `MCChecklist`, `MCAccounts`, `MCApi`, `MCPages`, `MCInbox` | the instances for TLC |

How they are composed. `ApiInstances` joins `RateLimit` and `Shutdown`: their steps
on their own variables become parts of the steps of a request or of a process.
`TenderPages` has `TenderLifecycle` for its API, the specification `TenderHandlers`
is shown to implement when requests do not overlap (`serial`), so that a tab is
checked against what the handlers promise and not against all their steps.
`TenderHandlers` and `ClosingReminder` share no variable: the handlers reach the
job only by what they do to status and closing date between two of its queries
(`SetClosing`, `Close`, at any moment), and the job writes notifications of a type
of its own. `Attachments` shares nothing with either. `ChecklistTemplates` opens up
what `TenderHandlers` takes in one step, `CheckChecklist`, over a fixed template;
`TenderIntake` what `TenderHandlers` leaves out of a creation, the other tenders;
`Accounts` what it takes in one step, `Begin`.

Definitions marked "Fault" are slips a change of the code could make. No
specification uses them; each breaks one of the properties and shows that it is
about the code.

### TenderHandlers and the code

The state is one tender and what refers to it. The rows of other tenders are
untouched by these handlers, whose queries all go by the tender's id.

| Variable | Code |
|---|---|
| `tender` | the `Tender` row: status (`Absent` before the insert), `currentAssigneeId`, `managerApprovedAt`, `rejectionReason` (set or not), its editable fields as one value |
| `history` | `TenderStatusHistory`, in commit order (`findLastStatusEvent` orders by `createdAt`, set in the transaction that appends the row) |
| `audit` | the `AuditLog` rows of the two approvals, the only operations that leave no history row |
| `checked` | `TenderChecklistAnswer` rows with `isChecked` for the active template, which is fixed here |
| `account` | `User.role` and `User.isActive` |
| `inbox` | `Notification` rows; `row` is the newest history row at the commit they announce |
| `slot` | a request in flight: `pc` and the local variables of its handler |
| `crashes` | a counter for the bound |

`managerApprovedAt` is a time stamp the code only compares with null. It is kept
as the number of history rows when the approving manager's handler read the
tender, so that a property can ask *which* submission was approved.

A request goes through `Begin` (`requireAuth` and `requireRole` read the account),
`Read` (`findByIdOrThrow`, the handler's own checks, `resolveTransition`),
`CheckChecklist`, `CheckWriter` or `FindLastSubmit` where the handler has such a
read, one of thirteen transaction actions (`CreateTender` ... `EditTender`), and
`FindRecipients` and `Deliver` for the notifications. Each is one database round
trip, the points between them are the handler's `await`s. `Refuse` is every
4xx answer. A transaction is one step: PostgreSQL makes it atomic, the handlers
write absolute values to a row they address by id, and no handler reads inside its
transaction what it uses afterwards. `Crash` ends a handler at any point.

### TenderIntake and the code

| Variable | Code |
|---|---|
| `tenders` | the `Tender` rows by what `findDuplicate` compares: title with entity, and source URL; history: forced or not, what its check had seen, whether a PATCH changed it |
| `form` | `TenderFormPage` of each user: its fields, `duplicateWarning`, the request its mutation follows |
| `req` | a creation from the click to the answer: before its check, before its insert, done, and who still listens |

`submit` is the button of the form, and with `force` the one of the warning.
`Check` is `findDuplicate`; `Insert` the transaction; `ServerFails` a query that
throws, before or after it. `ConnectionLost` is the client's `onError` while the
handler goes on, so that a second submission can overlap the first. `AnswerCreated`
leaves the form from wherever the user is, as `navigate` does; `AnswerError` shows
the warning for a 409 to a form that is still there. `Patch` may make two tenders
alike, since PATCH checks nothing.

### ClosingReminder and the code

| Variable | Code |
|---|---|
| `today` | the clock, in days |
| `tender` | of each `Tender` row, whether its status is in `ACTIVE_STATUSES`, and its `closingDate` |
| `setting` | the `SystemSetting` row `closingReminderDays`, 0 without one |
| `reminders` | how many `CLOSING_SOON` notifications each tender has |
| `lock` | the token under `lock:cron:closing-reminder` |
| `run` | the run of each instance today: where it is, the window it read, the tenders it listed and has not come to, the one it is about to remind of |
| `since`, `lost`, `run[i].late` | history: when a tender last changed, the days on which a run failed, whether a lock expired under its run |
| `failures`, `overruns` | counters for the bounds |

A run goes `Acquire` (`SET PX NX`, or nothing to ask without Redis) or `Skip`,
`ReadSetting`, `List` (`findMany`), for each row `PassOver` or `Pick` (`findFirst`)
and `Insert`, then `Release` (the Lua script, by token). Each is one query or one
Redis call; the instances interleave between them. `QueryFails` is a query that
throws, with the `finally` of `withLock`; `RedisFails` a lock call that throws;
`Crash` a process that ends, killed or shut down (`lib/shutdown.ts` stops the cron
task and does not wait for its run), or is not there at 08:00. `Expire` is the
lock's `ttlMs`, under a dead run or, counted by `overruns`, under a slow one.
`NextDay` finds the lock expired: five minutes have passed since the last run.

Day `d` begins at its 08:00, when cron fires (`index.ts:19`), and a tender whose
closing is `d` closes between the runs of `d` and `d + 1`, so that `gte: now, lte:
threshold` is `today <= closing < today + days`. Several instances imply Redis
(`DeploymentAssumption`): without it `withLock` lets every caller through, and
`lib/lock.ts:49` takes that for a single instance. The recipient of a reminder is
left out; it is a field of the row the run has listed.

### Attachments and the code

| Variable | Code |
|---|---|
| `storage` | which adapter `createStorage` chose |
| `upload` | each `POST /tenders/:id/attachments` in flight: where it is, the instance that took it, its file name, the version it counted |
| `temp` | the files in `tmpUploadDir`, by upload (`crypto.randomUUID`) |
| `stored` | the objects, by upload (the key has a UUID of its own) and place: the bucket, or the directory (`Disk`) of the instance that stored it |
| `rows` | the `Attachment` rows of the tender, in commit order |
| `missing` | the last download answered with `FILE_MISSING`: of which row, by which instance, and (history) whether its read threw |
| `left`, `upload[s].before`, `rows[i].on`, `uploads`, `failures` | history: uploads whose cleaning up was cut short, rows there were when the version was counted; counters for the bounds |

`Receive` is multer's work, `CountVersions` the two reads, `Save` the storage call: a
PUT on S3, on the disk a rename or, across disks, a copy with `RemoveSource` after
it. `InsertRow` is the transaction. A call that fails leads to `Cleanup`, the catch
block; where its effect may have happened all the same (a PUT or a commit whose
answer is lost) the model allows both. `Abandon` is a process that dies, or a removal
in the catch block that fails and is ignored. `Download` is asked of any instance and
reads in that instance's place; `DownloadFails` is the stream's error of any other kind
(a failing `GetObject`, a read error), which the handler answers alike. `Disk` says
which directory each instance has for `UPLOADS_DIR`: the code does not keep several
instances from local storage (`storage.ts:81` goes by `S3_BUCKET` alone, and
`s3Storage.ts:18-19` says what comes of it), and neither does the model.

### ChecklistTemplates and the code

| Variable | Code |
|---|---|
| `item` | the `ChecklistItem` rows: the template each belongs to, or not created yet, or deleted |
| `template` | the `ChecklistTemplate` rows in the order of `createdAt`, and `isActive` |
| `checked` | the tender's `TenderChecklistAnswer` rows with `checked` |
| `request` | a reviewer's PUT, assignment or decision in flight and what it has read |
| `watched` | history: for a decision under way, the items that have belonged to the active template, unmarked, all the time since it began |

An edit is one step, its transaction; what the client sends in it (`keep`) are any
ids, so that it may have been read long before. An edit that names an id that is gone
fails as a whole and is no step. `isChecklistComplete` is three: Prisma reads the
template and the included items in two queries, and the answers come after.
A request that dies in between writes nothing. Texts and order are left out.

### Accounts and the code

| Variable | Code |
|---|---|
| `now` | the clock, in ticks |
| `registered`, `users` | the `User` rows: `isActive`, `role`, `failedLoginAttempts`, `lockedUntil` (0 for null) |
| `tokens`, `issued` | the JWTs issued, with their `jti`, subject, role and expiry; a client may present any of them |
| `revoked` | the `RevokedToken` rows |
| `req` | a request in flight: where its handler is, and what it has read |
| `audits` | how many `AuditLog` rows of users and settings there are |
| `since`, `wrong`, `loggedOut`, `changes`, `unaudited`, `req[r].held`, `late`, `expired` | history |
| `failures` | a counter for the bound |

A login is `BeginLogin` (the row, and its lock), `Compare` (bcrypt, at whose end the
clock may have moved), then `StoreFailure`, or `ResetFailures` where there is
something to reset, and `IssueToken`. `StoreFailure` writes absolute values computed
from the row that was read. `lockDurationMs` is translated with its cut exponent and
its cap. A logout is `Revoke` (an upsert) and `PurgeExpired`. Every other request is
`BeginCall` (the signature and expiry of the token), `CheckRevoked`, `FindUser`, and a
handler. Administration is a read and a write (`BeginCreate` and `InsertUser` with the
unique column, `BeginPatch` and `UpdateUser`, `UpsertSetting`), then `WriteAudit`,
outside any transaction. `Fails` ends a request at any query.

### ApiInstances, RateLimit, Shutdown and the code

`counter` has the Redis keys with the ticks they have left, `Forever` without an
expiry, which is what a crash between `INCR` and `PEXPIRE` leaves; `recent` is history:
`recent[l][k]` is how many requests were let through in the last `k` ticks, the present
one included. `Increment` is the `MULTI` with
`INCR` and `PTTL`, `NeedsExpiry` and `SetExpiry` the `PEXPIRE` that follows a negative
`PTTL`. `phase` is where `createGracefulShutdown` is in each process: `Signal` (with `started`
for the second one), `ServerClosed` once nothing is under way, `Disconnect`,
`CloseRedis`, and `CloseFails` and `DisconnectFails` the errors that lead to `exit(1)`; `Start` is the orchestrator's restart. `req` joins them: a request
arrives at an instance that accepts it, is counted by the global limiter and, if it is
a login, by the other, and is handled. A call of Redis that throws ends the request
with a 500, as `express-rate-limit` passes the error on.

### TenderPages, PageOffers, QueryCache and the code

| Variable | Code |
|---|---|
| `status`, `owner`, `approved`, `author`, `ready` | the tender, as `TenderLifecycle` has it |
| `me`, `page` | the user of the tab and the route it is at |
| `entry` | the cached queries of the tender and of its checklist: data, the fetch under way, an error |
| `items` | `ReviewTab`'s ticks, which an effect replaces when the checklist comes |
| `dialog` | the dialog of `ActionsBar` or `ReviewTab` that is open |
| `mutation` | what the tab has sent: on its way, committed or refused, and whether the component that sent it is still there |
| `others` | a counter for the bound |

`QueryCache` is TanStack Query with the defaults of `main.tsx`: a mount fetches what
is stale, an invalidation fetches anew and gives up a fetch under way unless it is the
first, data stay beside an error. What a fetch will bring is the state of the tender
when it starts, the oldest it can be. `misses` is history: the writes an entry was read
before, and by their names what the tab knows of them: a slot as long as it waits for
the answer; then `acked`, or `slipped` where the answer found the query mounted nowhere
and with a fetch under way, which the invalidation leaves alone and the next mount
waits for. `PageOffers` has the conditions of the buttons (`ActionsBarShows`,
`ReviewTabShows`, `canEdit`) and of the routes (`Admits`), and the filters of the
dashboard's cards and of My Tasks.

### Inbox and the code

| Variable | Code |
|---|---|
| `notes` | the `Notification` rows: whose, and read or not |
| `session` | whose cookie the tab has, as the API takes it |
| `page`, `me` | login or the app behind `ProtectedRoute`; the query `['me']`, whose 401 is null |
| `bell` | the query `['notifications']` with its list and unread count |
| `leaving`, `read` | the logout and the mark-as-read under way |
| `uncleared` | history: a session ended, or was replaced, and the cache was not cleared since |

`Login` writes `['me']` and mounts the bell; `LogoutSucceeds` is `clear()` with
everything it drops; `SessionEnds` a token that expires, is revoked or whose user is
disabled. `Poll` is `refetchInterval`. `MarkRead` and `ReadSucceeds` are the API's and
the tab's part of a read notification. The list is cut after `RECENT_LIMIT`, the count
is not, in the model as in the code.

## 3. Runs

| Run | Instance | What it shows |
|---|---|---|
| `serial` | one slot, five users, 59 150 states | requests on the tender do not overlap: the handlers implement `TenderLifecycle`; the history chains; the approval on the row is of the very submission at hand; the role that can go on holds the tender; edits respect the lock; every request ends and every submission reaches every manager |
| `concurrent` | two slots, three users, one crash, a writer who may be deactivated, 341 086 states | what survives every interleaving: row and history agree, no status is skipped, no submission without approval, no open tender without a responsible user, no rejection without a reason, no notice of what did not happen |
| `race_status` | two slots | finding: a rejected tender is reopened by a review start that read it before |
| `reminders` | two instances, two tenders, two days, one failure, one overrun, 871 545 states | a run whose lock has not expired under it still holds it; no tender is reminded of twice while no run outlives its lock; a tender is missed only through a failure on each of its days |
| `uploads` | two slots, three uploads, two names, two instances with a directory each, two failures, either storage, 618 349 states | `FILE_MISSING` is answered for a listed attachment only when the read fails or, on local storage, at an instance with another directory; versions grow from an upload to any that counts after it; local storage leaves no temporary file |
| `uploads_versions` | two slots, two uploads | finding: overlapping uploads of one name get the same version |
| `checklist` | two slots, three items, two templates, 146 243 states | no decision passes over an item that was open all the time; no answer outlives its item |
| `accounts` | two accounts, two requests, a clock, one token, one change, one failure, 3 686 528 states | however attempts overlap, a lock is there exactly when the counter is at the limit, for as long as the counter gives, and never after fewer wrong passwords than the limit; a lock in force is left alone; a token that was logged out is refused whatever was purged; no handler goes by a role or an account that was taken away before the request; changes and audit rows add up |
| `api` | one instance, two requests, two limiters, two signals, one failure, 414 648 states | no client gets more than two windows' worth of requests in the time of a window; a client that was refused is served again whatever died between increment and expiry; a shutdown cuts no request and ends |
| `pages` | a tab of each of three roles, one change by others, 1 056 141 states | the buttons agree with the routes; every open tender is before somebody who can move it; a page shows no tender from before a write its tab knows of, unless the user had left it with an older fetch under way |
| `intake` | a user, two requests, two names, a URL, two tenders, 2 016 073 states | two tenders alike are there only because one was forced, was edited, or was inserted after the other's check; nothing is forced from a form that had no warning |
| `inbox` | two users, two notifications, a list of one, 1 335 078 states | the bell catches up; what was read stays read; nobody is shown another's notifications after a logout; a 401 never gets into the list |

Deadlock is checked in every run: there is always something a client, an
administrator or the clock may do, and once the history of a tender is full the
operations that append nothing remain.

### Bounds

Tender handlers. `MaxHistory` 8 lets a tender be created, reviewed, assigned,
submitted, returned, submitted again, marked as submitted and get its result (eight
rows): every operation, and an approval that could leak from one round into the next.
Six rows, with two slots, reach the same races one return earlier. Two slots are
enough for every pair of handlers; that three could not break more is what the
proof says, for the properties of `concurrent`. Two writers and two managers
(`serial`) tell "the writer who sent it" from "a writer" and "the manager who
approved" from "a manager". One checklist item is complete or not. Slots race without
`EDIT` and `REVIEW_APPROVE` in `concurrent`: they write the data and the log of
review approvals, which none of its properties reads; the proof includes them.

Reminders. Two tenders, so that a run has a look after an insert and after a tender
passed over, and an overrun, so that a late run meets the lock of another. A window of
two days and the default of three (`DEFAULT_REMINDER_DAYS`) tell the shortest window
from the one in force. One failure spoils one of two days. Larger instances are the
proof's.

Uploads and checklist. Three uploads let two overlap and a third count between their
rows or after them, with two names of which only one repeats; two failures take a file
and a row from one upload, or one from each of two, or a row and a later read. Two
instances with directories of their own are the case `s3Storage.ts:18-19` warns of; one
directory for both is what S3 is in the same run. Two templates tell the newest
active one from another, and three items let an edit keep one, drop one and add one;
ids are not used twice, so they bound the edits.

Accounts. Two requests give every pair of steps: two logins of one account, a logout
against a call, a change of a user against a call of his. A limit of two failures, a
base window of two ticks and a cap of three are the smallest numbers with which the
window is none, the base and the cap; tokens live for a tick, so that a purge meets
expired entries. One token and one change at a time; after `MaxChanges` no other change
begins, and the two that may have begun together both end. The proof has no such bounds.

Instances. One process suffices for every order of signals, steps and requests, and
the counters are in Redis whoever counts. Two signals are a first and a repeated one.
The global limit of two is above the login limit of one, so that each refuses alone.
`windowMs` of two ticks lets two fixed windows straddle a stretch as long as one.

Pages. A user of each role is in `Users`, and `me` is any of them; one write slot has a
mutation under way while the page is left, others act (`MaxOthers` 1 while the tab has
data, without bound before), and fetches start, arrive, fail or are given up.

Intake. One user is enough: by `Cancel`, a form opened anew and a connection that is
lost, his requests overlap as those of two would. Two names and a URL make tenders
alike by one and not by the other.

Inbox. Two users share the tab; with two notifications and a list of one, the count and
the list differ.

Symmetry is used in the runs without liveness properties alone, on values that no
definition tells apart.

### Fairness

- Handlers: `WF(Proceed(h))`. An admitted request is served to its end, because the
  event loop runs every callback whose promise has settled, and no handler waits for
  another (there are no application locks; a row lock lasts one transaction). Clients,
  administrators and crashes owe nothing. `SubmissionsAreAnnounced` needs `MaxCrashes =
  0`: notifications come after the commit, and the code keeps nothing from which a
  restarted process could send the missing ones.
- `ApiInstances`: weak fairness of each request's next step and of each step of a
  shutdown but the signal (`createGracefulShutdown` awaits one after the other), of the clock,
  and strong fairness of a client that asks; strong, because with two request slots a
  request may stand in the way of another for a moment, which is the model's doing.
  `ShutdownEnds` does not say that a server with a
  connection that is kept alive and busy closes: it need not.
- `Inbox`: weak fairness of `Poll`, the timer of `refetchInterval` while the bell is
  mounted, and strong fairness of `BellArrives`: a network that lets an answer through
  again and again. Users owe nothing; `CatchesUp` has them stay, or not.
- The other specifications are safety alone. In particular nothing says that the
  reminder job runs: an instance may be down every morning, and `NoneMissed` counts
  those days.

## 4. Proofs

Theorems are of the form `Spec => []P` or `Spec => [][A]_vars`, for any values of the
constants that satisfy the assumptions of the module, by an inductive invariant (`IInv`,
and `ReminderInv`, `WindowsInv`, `LockInv`, `InTurnInv`, `HeldInv` where one is added to
it or stands for it). TLC checks each of these invariants on the instance of its run
before it is proved. Where the code promises something only under a condition, the
condition is a hypothesis of the theorem and stands in the table.

| Module | Theorems (properties) |
|---|---|
| `TenderProofs` | `Invariance`, `TypeCorrectness`, `RowAgreesWithHistory` (`StatusIsLastRow`), `NoStatusSkipped` (`NothingSkipped`), `NoSubmissionUnapproved` (`SubmissionWasApproved`, BR-004), `NoOrphanTender` (`OpenTenderHasOwner`, BR-003), `NoRejectionWithoutReason` (`RejectionHasReason`, BR-002), `NoUnbackedNotice` (`NoticesAreBacked`) |
| `TenderProofs`, with `[]DecisionsInTurn` | `InTurnInvariance`, `HistoryIsAChain` (`HistoryChains`), `ApprovalBelongs` (`ApprovalIsOfThisSubmission`), `HandlersImplementLifecycle` (`ImplementsLifecycle`: the refinement), `LockedFieldsStay` (`EditsRespectLock`), `StatusMovesAlongTable` (what `race_status` refutes without the hypothesis); with `AccountsStay` besides, `RightRoleHolds` (`HeldByTheRightRole`); when the hypotheses hold, `OneAtATime` and `UnmanagedAccountsStay` |
| `NotificationProofs`, of `ClosingReminder` | `ReminderInvariance`, `ReminderTypeCorrectness` (`ReminderTypeOK`), `LockDiscipline` (`LockIsMine`), `NoDuplicateReminder` (`OneReminderEach`, BR-009), `NoReminderMissed` (`NoneMissed`, FR-JOB-01) |
| `NotificationProofs`, of `Inbox` | `Invariance`, `TypeCorrectness` (`TypeOK`), `ReadsStay` (`ReadStaysRead`), `BellIsMine` (`ShownIsMine`) |
| `AttachmentProofs` | `Invariance`, `TypeCorrectness`, `RowsCanBeDownloaded` (`MissingIsElsewhere`), `VersionsGrow` (`LaterIsNewer`), `NoTempLeftLocally` (`LocalLeavesNoTemp`) |
| `ChecklistProofs` | `Invariance`, `TypeCorrectness`, `NoItemPassedOver` (`NothingLeftOpen`, BR-001), `NoMarkOutlivesItem` (`MarksAreOfItems`) |
| `AccountProofs` | `Invariance`, `LogoutHolds` (`LogoutIsFinal`), `RolesAreCurrent` (`RoleIsCurrent`), `AuditsKeepUp` (`AuditKeepsUp`, BR-008), `LocksStay` (`LocksOutlast`), `LocksAreEarned` (`LockIsEarned`) |
| `ApiProofs` | `Invariance`, `TypeCorrectness`, `NobodyIsCut` (`NoRequestCut`), `WindowsInvariance`, `TwoWindowsAtMost` (`AtMostTwoWindows`) |
| `IntakeProofs` | `Invariance`, `NoUnknownDuplicate` (`DuplicatesAreKnown`), `NoForceUnwarned` (`ForceFollowsWarning`) |
| `PageProofs` | `Invariance`, `TypeCorrectness` (`TypeOK`), `PagesMatchRoutes` (`OffersMatch`), `OwnWritesShow` (`OwnWritesAreShown`); with a manager on the staff, `NeverStuck` (`SomebodyIsAsked`) |

Tender handlers. Assumptions: `UsersAssumption` (null is no user; roles are roles) and
`BoundsAssumption` (the bounds are naturals); nothing is assumed of the number of users,
slots or roles. What a transaction writes was decided by reads that may be stale, so
the database alone does not say why the write is right. `IInv` adds what each local
variable of a request still means after others have committed: `ReadWhatWas` (the status
a handler read is that of the history row numbered `round`, and the status it will write
is a move of the table from there; a handler that saw an approval implies one in the
log), `KnowsWhom` (whoever will be made responsible is a user) and `AnnouncesWhatIs` (a
notification under way points at a committed row of its kind). History rows are only
appended, which is why these facts survive other handlers' commits (`SlotInvGrows`),
whereas "the status is still what I read" would not. `NewestSubmission` stands for an
induction over the history: whenever a proposal was submitted there is a newest
submission, so that `LastSubmitter` is a user. `ExistsIffHistory` ties the row to its
history, and `CreatedOnce` says that one request creates it.

Decisions in turn. What a handler promises of the tender as it is, and not as it read
it, needs that nobody else commits in between. `DecisionsInTurn` says just that: at most
one handler is between its read and its commit; any number may be admitted, announce or
be refused meanwhile, and may crash. It is weaker than one request at a time, and
`OneAtATime` shows that a single slot, as in `serial`, has it. `InTurnInv` then adds
`StillTrue`: the row has the status the deciding handler read, its last history row is
the one it read, and the owner, the approval or the checklist it went by is as it was;
when it commits, the guards it evaluated hold of the row it writes to. With this every
transaction is the step of `TenderLifecycle` it stands for, and every other step leaves
the mapped variables alone, which is the refinement. `HeldByTheRightRole` needs more,
that no administrator takes a role away from who holds the tender (`AccountsStay`;
`UnmanagedAccountsStay` shows it where nobody is managed): `HeldInv` carries that
whoever submitted is an active writer and that a checked writer still is one.

Reminders. Assumptions: `DeploymentAssumption` (null is no instance and no tender;
several instances have Redis), `WindowsAssumption` (windows are positive, as `PATCH
/admin/settings` validates), `FailuresAssumption`; the invariant is `ReminderInv`.
`LockIsMine` makes runs that are not late exclude each other, and with `NobodyLate` all
of them while `overruns = 0`. Hence `PickedHasNone`: nobody inserts between a run's look
and its insert, and `OneReminderEach` follows. For `NoneMissed` the invariant follows
one day without failure: whoever has listed its tenders still has every tender that is
owed a reminder before it (`OwedIsListed`, with `WindowsAreSet` for the window and
`EndIsEmpty` for the end), and whoever was skipped was skipped for somebody at work
(`SkippedForSomebody`); so when the day ends nothing is owed, and `MissedDaysAreLost`
collects the days. Changes of a tender reset its `since`, which is why they cannot break
it.

Uploads (`UploadsAssumption`, `StoragesAssumption`, `NamesAssumption`,
`InstancesAssumption`; nothing is assumed of `Disk`). `RowsHaveObjects` says that a row
has its object in the place of the instance that took the upload, and needs that a
request about to insert has stored it there (`InsertsWhatIsStored`); so a download that
finds nothing looks in another place, which on S3 there is not. `LaterIsNewer` needs `VersionsAreCounted`: no version exceeds
the number of rows of its name, although versions may repeat and leave gaps, so whoever
counts later gets more than all it counted; rows are never deleted, which the proof uses
as the growth of a cardinality (`CountGrows`).

Checklist (`TemplatesAssumption`). `OpenIsNeeded` says that what is still open has been
read as needed by every decision: the newest active template is unique, and an item
never moves between templates (`ItemsStay`).

Accounts. Assumptions: `UsersAssumption`, `LimitAssumption`, `LockAssumption` (the cap
is not below the base window), `LifeAssumption`, `BoundsAssumption`, `ReqAssumption`
(finitely many requests, for the cardinality in `AuditKeepsUp`). `RequestOK` says what a
request may rely on while others commit: a login works on a row that was not locked when
it was read, which gives `LocksOutlast`, since any other writer of that date would have
to be a row that is not there (`OnlyRowsAreLocked`); a request that began after the
logout of its token meets an entry or an expired token, which is `LogoutIsFinal`.
`LoggedOutIsListed` carries it across `PurgeExpired`, by `EntriesAreOfTokens` and
`TokensAreNumbered`: the entry that is purged has the expiry of the very token it is
about. `held` grows by every role an update gives, so that what `FindUser` reads is in
it.

`LockIsEarned` compares the lock that `lockDurationMs` computes, a power of two with its
exponent cut and the result capped, with `Window`, which doubles failure by failure.
This is an induction over the failures, and it is carried out on sets and functions, as
the library's theorems with an operator for parameter cannot be used: `Induction` is
about a set of naturals that has 0 and is closed under successor, and rests on the least
element of what is not in it; `Recursion` builds the function that a recursive
definition names. `Powers` and `CapExponent` follow for `PowerOfTwo`, and `WindowIsLock`
for all counts of failures. The state part is `LockInv`: the lock on a row is the one
its counter gives, a login below the limit read no lock, and what a login read was at
most what had been given in wrong passwords (`ReadEarned`; `wrong` counts them up to the
limit), so that what it stores, computed from a stale row, is earned as well.

Instances. `NoRequestCut` with the types is inductive as it stands.
`InstanceAssumption`, `LimitersAssumption`, `LimitsAssumption`, `WindowAssumption` and
the bounds are assumed. `AtMostTwoWindows` is about a stretch of `windowMs` ticks that
may begin anywhere. `TwoKeys` says why two limits are enough: a key that expires lives
`windowMs` ticks, so that the stretch meets at most the present key and the one it
followed. It names the age `a` of the present key: what was let through in the last `a`
ticks was counted by it, the rest of the stretch by its predecessor, and each let
through no more than the limit. A key that was left without an expiry, and gets one
later, only lives longer.

Pages. Assumptions: `UsersAssumption` and `WriteAssumption`. `HolderCanAct` ties the
life cycle to the roles: who holds an open tender may take its next step, which with
`OffersMatch`, for any user and any row, is what `SomebodyIsAsked` needs; at
`PENDING_APPROVAL` it takes a manager, and no operation of the model makes one, so
`NeverStuck` has one among its hypotheses. `OwnWritesAreShown` follows from
`WritesAreOwed`: a write is missed by the data it changed alone, and those were in the
cache when it was sent, as the page has no button before; hence the invalidation that
comes with its answer gives up whatever fetch began before the write, if the query is
mounted. If it is not, the write is `acked` and missed until the next mount fetches
(`AckedIsOffPage`: neither mounted nor being fetched), or `slipped` where a fetch is
under way, and then nothing is claimed of it.

Intake. `CheckedIsUnlike` says that a request about to insert is unlike all the tenders
its check saw, unless they were edited since, and `WarningIsOfRefusal` that a form shows
the warning only after a 409 since it was opened.

Inbox. `CacheIsOfSession`: until a session ends behind the tab's back, what is cached or
being fetched, of the user and of the bell, is of the session or of nobody; a sign-in
without an exception finds no session before it, hence nothing cached.
`NothingKnownIsMissed`: the bell that learns of a read is fetched anew in the same step.

Only model-checked: the liveness properties (`EveryRequestEnds`,
`SubmissionsAreAnnounced`, `ShutdownEnds`, `LimitedIsServedAgain`, `CatchesUp`), as
liveness under fairness is out of the prover's reach; every other property of a passing
run is a theorem. Those that need decisions in turn are checked by TLC where there is one
slot, in `serial`; the violations in `race_status` and `uploads_versions` are TLC's.

## 5. Reading the results

The transitions table is enforced on what a handler *read*. With one request at a
time the code does what its documents say. When two overlap, each commits what it
had decided: the history then shows two moves from the same status, and the
last writer's status stands (`race_status`). The same stale read lets an edit land on a
locked tender, and an approval on a proposal that was returned meanwhile. What is
guaranteed even then is weaker and is what `concurrent` states: no status that was never
legal, no submission that no manager approved. An update conditioned on the status
(`where: { id, status: from }`) in `recordStatusChange`, `approve` and the PATCH handler
would turn these into refusals.

The lock of the reminder job keeps runs from overlapping; it does not make the job
run once. It is released when the run ends, within moments, and an instance whose
clock or event loop is a little behind runs the job again, which `index.ts:18` and
`lib/lock.ts:39` seem to exclude. It does no harm: the look before each insert finds the
reminders of the first run. That look is safe only under the lock, so that a run that
outlives `ttlMs` (five minutes) can double a reminder; this is what `overruns = 0` in
`OneReminderEach` says.

Version numbers are not distinct when uploads overlap (`uploads_versions`), and may
skip a number after that; they order uploads that do not. On S3 a successful upload
leaves its temporary file on the disk of the API, since `S3Storage.saveFromFile`
(`s3Storage.ts:50-60`) reads it and nobody removes it; `LocalLeavesNoTemp` is about the
disk alone. An object whose row was never inserted stays too; no document promises
otherwise.

`FILE_MISSING` does not mean that a file is lost: the download answers it for every
error of the stream before the headers are sent (`routes/attachments.ts:97-103`), a
moment's failure of S3 included, and on local storage for every attachment that another
instance with a directory of its own took (`s3Storage.ts:18-19`). `MissingIsElsewhere`
says that there is no other reason.

BR-001 holds in the form `NothingLeftOpen` gives it. An item that is added, or
unmarked, between the queries and the commit does not stop an assignment.

A writer who is deactivated while preparing a proposal keeps it (`PATCH
/admin/users/:id` does not look at tenders), and no operation moves the tender on:
`HeldByTheRightRole` therefore holds without administration only, and `SomebodyIsAsked`
is about users whose role nobody changes.

Failed logins that overlap count once, since each writes what it computed from the row
it had read: a limit of `n` is one of `n` rounds, not of `n` guesses. For the same
reason a login that succeeds may clear, and one that fails may restore, what another
wrote meanwhile; `LocksOutlast` names these logins and allows no other change, and
`LockIsEarned` says that counter and lock agree all the same and that nobody is locked
after fewer wrong passwords than the limit. That they came in a row it does not say, and
it is not so. A logout answers "ok" when
its query fails, and then revokes nothing. `AuditKeepsUp` counts the changes whose
request died before its audit row.

The check for duplicates is a look before an insert without any constraint behind it.
`DuplicatesAreKnown` says how far it goes. The button that creates in spite of the
warning stays while the fields change, so that what it creates may never have been
looked up; a PATCH may make two tenders alike.

The limiter's fixed windows let twice the limit through in the time of one
(`AtMostTwoWindows`), and with Redis away its requests end with a 500.

In the client, only a logout clears the cache. After a session that expired, or was ended
elsewhere, the next user of the tab sees what is cached until it is fetched anew, and an
answer of `/auth/me` that is late overwrites the user who has signed in; `ShownIsMine`
excepts the former, and has the latter in its steps. A first fetch is not given up by an
invalidation, so that a write that ends before it may be missing from it;
`OwnWritesAreShown` holds because a page has no button before that fetch is over. And
`invalidateQueries` fetches nothing, and gives up nothing, for a query that no page has
mounted (`ActionsBar.tsx:29-32`): who clicks while a background fetch is under way,
leaves, and is back after the answer to his click and before that fetch's, is shown the
tender from before his own write until something else fetches it. The property makes
this one exception (`slipped`). The
bell's list is cut at fifty and its count is not, so that older unread notifications
count and cannot be reached.

## 6. Not modelled, and why

Within modelled components: lists and details of tenders only read; the bodies of
requests are checked by their schemas before a handler runs, and a refused body changes
nothing (among what that leaves out: an empty optional field becomes `undefined`, so
that an edit cannot clear it); My Tasks shows its first twenty rows, and paging is left
out of `MyTasks`; a query of the client that is not about the tender, its checklist, the
user or the notifications is not followed.

Components left out, with the reasons in `PROJECT.json`: the cache of the dashboard's
statistics (nothing ever invalidates it: its figures may be as old as its expiry, and
that is all there is to say); statistics, reports and dashboard queries (reads, whose
content is SQL); the lists and the administration pages of the client (they show what
the API has and send single calls, which `Accounts` and `ChecklistTemplates` have);
validation schemas (predicates on single bodies); logging, metrics, OpenAPI and health
(no state anybody depends on); deployment, CI, seeds and scripts.

Not composed: `ChecklistTemplates` with `TenderHandlers` (the decision's checks on the
tender are in the latter, those on the template in the former), and the tab with the
overlapping handlers: `TenderPages` has the atomic life cycle for its API, so what it
shows of races is the tab's part alone.

The order of work was: the tender handlers first, because every business rule goes
through them; then the reminder job, the uploads and the checklist; then accounts and
sessions, the instances behind the limiter, and the client. What could still be proved
is how models meet: that each call the tab of `TenderPages` sends is admitted by
`TenderHandlers` when `PageOffers` shows it, and that what `TenderIntake` and `Accounts`
open up is a step of what `TenderHandlers` has in one.
