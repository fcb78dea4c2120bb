# SuperTakt: a verification project

SuperTakt ("Takt") is a local time tracker.  A Node service on the user's own
computer (`apps/local-api`) keeps todos, time entries and one running timer in
a SQLite file, notices absences, and exports bookings to JSON files for
billing.  A web interface, a Tauri desktop shell and an Outlook add-in are its
clients.

This directory holds TLA+ modules translated from that code, TLC runs that
check them on small instances, and theorems checked by TLAPS.  References like
`timer.ts:659` are to files of the repository; names like A-24.6, E-036, R-10
are the requirements, decisions and risks its documents and comments cite.

## 1. Inventory

### 1.1 The parts of the system

| Part | State | Operations | Properties that make it correct |
|---|---|---|---|
| Transaction queue (`storage/src/sqlite/unit-of-work.ts`) | one connection, a chain of promises | `inTransaction` | one at a time, in order, whole or not at all, always answered; the caller goes on before the next one begins |
| Timer (`features/timer/timer.ts`, `repo-time.ts`) | the open time entry, ended entries, heartbeat, recovery snapshot in memory | start, stop, switch, heartbeat, resolve a found entry | no second booked twice; a found entry is booked to its last heartbeat at most; nothing over 24 hours |
| Idle phase (`features/timer/idle.ts`, `repo-idle.ts`, `domain/idle.ts`) | one row `timer_idle` with earlier periods | begin, return, resolve | the timer stays while the phase is undecided; every absent second is allocated once; the phase is decided in the end |
| Bookings (`features/timer/bookings.ts`) | ended entries with export status and count | create, update, remove | an exported booking does not change |
| Export (`features/export/*.ts`, `repo-export.ts`, `file-port.ts`) | runs, audit trail, files, temporary files, directory setting | run, reset, not billed, sweep | a marked booking has its file; the trail explains the status; no second bill without a reset |
| Export plan (`packages/export`) | none (pure) | group, round, merge, render | sums and rounding per day group |
| Data archive (`features/data-transfer`, `repo-data-archive.ts`) | all tables, images, files | export, import | import replaces all or nothing; the timer it brings counts as found |
| Attachments (`features/todos/*sweep*.ts`, `access/attachment-store.ts`) | rows and files | upload, remove, sweep at start | no file without a row stays, no file with a row goes |
| Add-in routes (`routes/addin`) | mail assignments, receipts | assign a mail, create a todo from one | a repeated request has one effect |
| Structure (`features/structure`, `board`, `pool-movement.ts`, `domain/pool.ts`) | tags, folders, pools with their rules, statuses | create, move, reorder, remove; draw the board; announce what moved | folders form a tree; query and domain agree about a rule; no removal widens a pool; what is announced has happened |
| Settings, version check | rows, a timer, the last request in memory | update; ask at most every 60 minutes | the floor holds while the service runs (since T-285 it does not outlive a restart) |
| Migrations (`migration-runner.ts`) | rows of `schema_migration`, copies of the database | migrate, back up | each migration once, whole and in order; a copy before the first; nobody serves a schema he does not know |
| Access (`access/*.ts`) | token, session secret, throttle window | check a request; the handshake with the shell | the service ends with its shell |
| Desktop shell (`apps/desktop/src-tauri`) | the service it started, a lock, a reason to show | start the service, stop it, note its end | one service at a time; an open window has a service or a reason |
| Web interface (`apps/web`) | the timer as last read, operations under way, messages with a way back | start, stop, switch, take back, poll | what it shows catches up; operations end; offers stay |
| Task pane (`apps/outlook-addin`) | the mail in hand, the request and its answer | send, give up, send again | what it shows is what was sent |

`PROJECT.json` lists them with their status.

### 1.2 How they interact

Clients call the service over HTTP; each handler reads the clock and then calls
`inTransaction` with the work to do.  The queue runs one work at a time.  Most
handlers consist of that single transaction.  The exceptions are where the
hard behaviour is:

- `runExport` reads the settings in one transaction, checks the directory
  outside of any, plans, writes a file and marks bookings in a second one, and
  removes the file after that transaction when it fails.
- `importDataArchive` assigns the recovery snapshot, and restores files, after
  its transaction.
- attachments: files are written before the transaction with their rows and
  removed after the one that deletes them; the mail assignment writes files
  inside of its transaction.  No transaction spans files and rows.
- the web interface makes several calls for one intent: a switch is a stop and
  a start, taking back a start is a stop, a deletion and a completion mark.
- the task pane may have given up when the answer comes, and sends again under
  the identity of the same request.
- the desktop shell starts the service in a thread of its own, speaks to it
  over a pipe and may be killed without a word to it.

The service may die at any point.  SQLite rolls an open transaction back; the
disk stays as it is; what is only in memory (`context.timerRecovery`, the
local variables of a run) is gone.  The clock of the computer may be set back,
and archives bring times from other clocks.

### 1.3 What is hard

Handlers suspended at an await; a timer found open after a restart and the many
ways to end it; an absence that begins on one computer and is decided on
another; heartbeats from a clock that was ahead; a file that is renamed before
a commit that may fail; two runs at the same time; names and orders derived
from seconds of a clock.  `PROJECT.json` has these as hazards, at the line
where each bites, with the properties that would catch it going wrong.

## 2. The modules

```
SerialTransactions         what the queue promises            (abstract)
   ^ refinement: safety proved, liveness checked by TLC
TransactionQueue           how inTransaction keeps it
                           MCTransactionQueue, TransactionQueueProofs

IdleSections               what an allocation cuts absent periods into
   ^ EXTENDS      ^ EXTENDS
Timer          IdlePlan    Timer: what may be booked;  IdlePlan: the loop
                           that produces it, shown to cut as IdleSections does
                           MCTimer, TimerProofs, ListProofs

Export                     MCExport, ExportProofs
Attachments                MCAttachments, AttachmentsProofs

RequestEffects             a request takes effect once        (abstract)
   ^ refinement: checked by TLC and proved
MailAssignment             receipts, retries, lost answers
                           MCMailAssignment, MailAssignmentProofs

PoolRules                  what a rule means, to the query and to the domain
   ^ EXTENDS
Structure                  folders, tags, statuses, pools, todos, the board
                           MCStructure, StructureProofs

ToastStack                 the messages of a window
   ^ EXTENDS
WebTimer                   the timer as a window shows and works it
                           ListProofs

ServiceLife                shell, service, migrations
                           ServiceLifeProofs
```

Timer, Export, Attachments, MailAssignment and Structure are written against
SerialTransactions: a handler that is one transaction is one action.  IdleSections ties Timer to IdlePlan: Timer lets
`ResolveIdle` book any cuts of the absent periods; IdlePlan shows
(`SectionsAreCuts`) that cuts are what `planIdlePeriods` produces.

Times are whole seconds and one unit of the clock is one second.  A call that
is refused changes nothing and is a stuttering step: the refusals are the
guards.  Each `Faulty...` operator is a mistake the code could have made; no
definition uses it.  Put in the place of the operator it precedes, it breaks the
property `PROJECT.json` names with it, which shows that the property bites.

### 2.1 TransactionQueue

`state`, `chain`, `freed`, `micro`, `open` and `db` are a call's progress, the
chain of `queue` promises, those fulfilled, the microtask queue of the event
loop, the writes since `BEGIN` and the committed writes.  `Call` is
`inTransaction` outside of a transaction (`queue.then(run)`), `NestedCall` the
refused call inside of one, `Start` is `run` up to `BEGIN IMMEDIATE` (which may
fail), `Write`, `Commit` and `Rollback` the work and its end.  `Derive` and
`Continue` are the two microtasks that the end of a call queues, in this order:
the promise derived with `next.then(ignore, ignore)`, and the code behind the
caller's await.  The start of the next call is queued only by the first, so it
comes after the second: that is `ContinuationFirst`, which the comment at
unit-of-work.ts:193-215 claims and `importDataArchive` depends on.

The refinement takes `chain` without the calls already answered (`Waiting`) for
the queue of SerialTransactions and `db` for its database; a call takes effect
with its COMMIT.

The engine's adoption of a promise returned by `run` costs further microtasks
that are the same for both reactions and are left out.

### 2.2 Timer

`running`, `booked`, `heartbeat`, `idle`, `done` are rows of the database (the
entry whose `ended_at` is NULL, ended entries, `timer_heartbeat`, `timer_idle`,
todos with `completed_at`), `recovery` is `context.timerRecovery`, `clock` the
clock of the computer.  `witness` is a history variable: how far a found entry
and a found phase had been witnessed when they were found.

| Action | Code |
|---|---|
| `StartTimer` | `startTimer`, timer.ts:428, with the switch from a running timer |
| `StopTimer` | `stopTimer`, timer.ts:659, now or with a named end |
| `TouchHeartbeat` | `touchHeartbeat`, timer.ts:766 |
| `ResolveOrphanedTimer` | `resolveOrphanedTimer`, timer.ts:835, book or discard |
| `BeginIdle`, `ReturnFromIdle`, `ResolveIdle` | idle.ts:138, 185, 202 |
| `Restart` | `captureTimerRecovery`, timer.ts:158, at the start of the service |
| `ImportArchive` | `importDataArchive` as far as it concerns the timer, `replaceAll` |
| `SetDone` | `markDone` of repo-todos.ts |
| `Tick`, `SetClock` | the clock |

A handler reads the clock before it queues up, and handlers run in the order
they queued up; so taking the whole handler as one step at the time of its call
loses nothing.  Hand edits (bookings.ts) never touch the running entry
(`loadOne` finds ended rows only) and are in Export.

### 2.3 IdlePlan

A step is a round of the loops of `planIdlePeriods` (idle.ts:31-66), on every
input up to the bounds, also unsorted, overlapping and empty ones.  The
reference is `OwnerOf`: of the absent seconds in order, each allocation has
those after the seconds of the allocations before it.  `Sums` are the sums
`reduce` forms of a list, written as a recursive function, about which the
provers can reason.  Its names begin with `Plan`, since one module of proofs
extends it together with WebTimer.

### 2.4 Export

`entry`, `audit`, `runs`, `noExport`, `directory` are rows; `request` is, per
call of `runExport`, how far it is and its local variables; `files` and `tmp`
are the disk.  `asked` is a history variable: the seconds runs were asked for.

| Action | Code |
|---|---|
| `AskExport`, `CheckDirectory` | export.ts:285-305: the time is noted, then the settings are read in a transaction of their own |
| `WriteTemporary`, `PlaceFile` | export.ts:315-374, file-port.ts:98-160: the plan, the temporary file, the rename |
| `RecordRun` | `recordRun` and COMMIT, repo-export.ts:176 |
| `RollBack`, `RemoveFile` | a failure after the rename, and the catch block, export.ts:407-414 |
| `CreateBooking`, `UpdateBooking`, `RemoveBooking` | bookings.ts, repo-time.ts, the foreign key of `export_audit` |
| `ResetStatus`, `MarkNotBilled` | repo-export.ts:357, 425, with `trg_time_entry_exported_needs_provenance` |
| `SetNoExport`, `SetDirectory` | `PATCH /todos/{id}`, `PATCH /settings` |
| `Crash`, `Startup` | the death of the process; the sweep in main.ts:327-338 |

While a run is between `WriteTemporary` and the end of its transaction it holds
the queue, which is the guard `Free` of everybody else.  `PlaceFile` overwrites
a file that is there, as `rename` does.  What a row of the file says is a
model value (`note`): rounding and templates are left out, and a plan is any
non-empty set of billable bookings, because the caller chooses bookings and a
group that cannot be rendered is skipped.

### 2.5 Attachments

`todos`, `rows` are the database, `files` the names in the two folders of the
service, `archive` the last archive the user took.  `call` is, per call under
way, what it still has to do and for which files; `service` and `victims` are
the start with its two sweeps.  `excused` and `lost` are history
variables: the files that may lie there without a row, and those that could not
be brought back from an archive.

| Action | Code |
|---|---|
| `CopyImage`, `InsertImage` | `addAttachment`, attachments.ts:263-306, attachment-store.ts:374 |
| `TakeFiles`, `InsertFiles` | `attachEmailToNewTodo`, email-attachments.ts:350-700 |
| `StoreInside`, `EndAssignment` | `createMailAssignment`, mail-assignment.ts:81-164, files inside of an open transaction |
| `AddPath` | a file attachment, attachments.ts:254 |
| `RemoveRow`, `RemoveTodo`, `AskOwners`, `RemoveFile` | attachments.ts:491, todos.ts:385, `releaseUnclaimedBlobs`, attachments.ts:392-446 |
| `TakeArchive`, `ImportArchive`, `RestoreFile` | data-transfer.ts:585, 765, 965-998 |
| `Sweep`, `SweepFile` | main.ts:372-462, `sweepOrphanedBlobs`, orphan-sweep.ts:303 |
| `Crash` | the death of the process |

A sweep is one step up to its answer, because nobody else runs before the
service listens; its removals are steps of their own.  Links have no file and
are left out, as are the neighbours (`.tmp`) a crash in the middle of a write
leaves, which no sweep takes for a file of its own.  A todo with bookings cannot
be removed; the todos here are those without.  The files of rows a mail
assignment had refused are removed here just after its COMMIT and in the code
just before.

### 2.6 MailAssignment and RequestEffects

`todos`, `entries`, `receipts` are the tables `todo`, `todo_mail` and
`addin_mail_receipt`, the latter two with the request that wrote a row;
`archive` is the last archive.  `posts` are requests on their way or waiting in
the service, `answers` what is on its way back, `pane` the task panes with the
mail in hand, the identity of the request, the form sent and what is shown.
`born` and `asked` are history variables: identities (random UUIDs) are never
given twice.

| Action | Code |
|---|---|
| `OpenMail`, `Submit`, `GiveUp`, `Receive`, `Again` | `TaskPane.tsx`: a mail is opened, the form sent, the wait given up, the answer taken, another todo made of the same mail |
| `AssignMail` | `createMailAssignment`, mail-assignment.ts:81: a request with a receipt is answered from it (`AnswerRepeated`), a mail that is on the todo already is answered without a write (`AnswerPresent`), else `Append` or `Create` |
| `CreateTodo`, `EditCall`, `RemoveTodo`, `TakeArchive`, `ImportArchive` | what others do to the same tables |
| `Crash` | the service dies: requests and answers on their way are lost |

A request may arrive after its sender has given up, so two requests of one
identity may wait at the same time.  RequestEffects is the promise: a request
is in effect once at most, an effect ends with its todo, an archive brings back
the effects it was taken with.

### 2.7 WebTimer and ToastStack

`running`, `booked`, `done` are the service as the window sees it, `view` the
timer the window shows, `reads` the answers under way, `op` the operation of
the user under way, `undos` the starts being taken back, `stack` the messages.
`Other...` is another client.  `ClickStart`, `ClickStop`, `Confirm`, `Cancel`,
`ClickUndo`, `Close` are the user; `Look`, `CallStop`, `Stopped`, `CallStart`,
`Started`, `Reported`, `AskEnd`, `NotStopped`, `NotStarted` are the steps of
`TimerContext.tsx` between two awaits; `UndoStop`, `UndoDiscard`, `UndoMark`, `Undone` those of
`useReactivation.ts`; `Poll`, `AnswerRead`, `ShowRead`, `LoseRead` the question
for the running timer, which may overtake each other.  `Lose...` is a call that
is refused, or whose answer is lost after it took effect.  ToastStack is
`ToastContext.tsx`: the limit of messages, those with an offer, the timers.
`Evict` says at once what the loop of `evict` leaves: it takes the messages
without an offer whose rank among these is low enough (`Rank`, and `Nth` for the
message of a rank).  That this is what the loop does is a theorem,
`EvictIsTheLoop`.
Whether a timer is over 24 hours is any choice of `CallStop`.  Left out: absence
phases, and messages that replace an earlier one of their key.

### 2.8 ServiceLife

`shell` is the window (`lib.rs`, `sidecar.rs`) with its worker thread, the lock
and the child it knows of; `procs` are the services with how far their start
is; `applied` and `copies` are `schema_migration` and the copies of the
database; `changes` is a history variable, what the migrations have done to the
data in order.

| Action | Code |
|---|---|
| `OpenShell`, `Spawn`, `SpawnFails`, `HandOver`, `Stop`, `NoteExit` | lib.rs, sidecar.rs:160-300: the worker holds the lock from the spawn to the hand-over |
| `EndShell`, `KillShell`, `Install` | the window is closed; the shell is killed; another release is installed |
| `Handshake`, `NoHandshake` | session-secret.ts: the lines come, or do not in time |
| `ReadState`, `BeginBackup`, `EndBackup`, `BeginMigration`, `EndMigration` | migration-runner.ts:215-420 |
| `Listen`, `Watch`, `Lost`, `Signal`, `Close` | main.ts, `watchParentLink`: the port, the pipe, the shutdown |
| `Die` | a step of the start fails, or the process is ended from outside |

Two services are on one database once a shell was killed and opened again
before its service has noticed; the actions are those of each of them.  The
copies hold versions, not data.  A kill is immediate, and a release is
installed only while no service runs (the installer closes the window and
waits).  Left out: checksums, `migrateDownTo`, which nothing in the product
calls, and what the sweeps of a start do (Attachments, Export).

### 2.9 PoolRules and Structure

`parent`, `home`, `statuses`, `isDefault`, `rules` are the rows of folders,
tags, statuses and pools; `todos` gives per todo what a rule can ask for (tags,
status, completion mark, whether it has open and exported bookings), `running`
is the todo of the running entry, `said` the movement the last answer announced.
A rule is written twice in the code, and so it is here: `MatchesPool` is the
domain's (`pool.ts`), `RowMatches` the SQL of `buildConditions`
(repo-todos.ts:103-309).  `Resolved`, `EmptyFolders`, `Unresolved` are
`resolvePoolAxis`, with the folders that contribute no tag (E-057).  `Loaded`,
`CardRead`, `NamedIn` and `Appearances` are `loadBoard`.

| Action | Code |
|---|---|
| `CreateFolder`, `MoveFolder`, `RemoveFolder`, `CreateTag`, `MoveTag`, `RemoveTag`, `CreatePool`, `UpdatePool`, `RemovePool` | repo-tags.ts with the foreign keys of the migrations |
| `CreateStatus`, `MakeDefault`, `RemoveStatus` | repo-statuses.ts |
| `CreateTodo`, `UpdateTodo`, `RemoveTodo`, `SwitchDone` | todos.ts, repo-todos.ts |
| `StartTimer`, `StopTimer`, `CreateTimeEntry`, `BookingsChange` | timer.ts, bookings.ts and the export, as far as rules and announcements see them |

A switch announces the movement of the todo that is started; the one it
displaces may move too and is not announced, since an answer carries one
movement.  Left out: names and colours, positions and reorderings, priorities,
default tags, search and paging, the appointments of cards.

## 3. The runs

| Run | Instance | What it shows |
|---|---|---|
| `timer_core` | one computer whose clock goes forward, three entries, short maximum and threshold | no double booking by any mixture of starts, stops, switches, absences, allocations and restarts; no booking over the maximum; a phase keeps its timer until its return; a phase is decided, or is one of the finding of `timer_orphan` |
| `timer_travel` | six archives, clock set back, restarts | found entries and found absences end at their witness; nothing is booked beyond the clock |
| `timer_orphan` | restart with a returned phase | **violation**: the finding of section 4 |
| `export_core` | two bookings, two runs at a time, one reset, clock set back, failures and crashes everywhere | five properties of runs, files, statuses and trail |
| `export_seconds` | the same with `SharedSeconds` TRUE | **violation**: the second finding of section 4 |
| `attachments_core` | two calls, a copy and two e-mail files, a path onto one of them, an archive, crashes and failures everywhere | no sweep, release, clearing up or import removes a file a row names; rows have their files, orphans their reason |
| `idle_plan` | all lists of up to 2 periods and 3 allocations within 5 seconds | the loop hands out every absent second to its owner and ends |
| `transaction_queue` | four calls of up to two writes | transactions apart, continuations first, the refinement of SerialTransactions, liveness included |
| `mail_assignment` | one pane, one mail, two requests, three attempts, two todos, two forms, one archive | repeated, late, lost and edited requests have one effect; receipts stand with what they witness; the pane shows what was sent; the refinement of RequestEffects |
| `web_timer` | two todos (one done), two operations, one interference or loss, two reads under way | offers stay, the stack is in order; the view catches up with the service; every operation ends |
| `service_life` | two services at a time, three releases, three openings, two deaths, kills without limit | migrations apply once, after a copy; who serves knows the schema; one service unless a shell was killed; services end with their shell; a start is decided |
| `structure` | two folders, tags, statuses and pools, one todo, four rules | folders form a tree; board and query agree; removals widen nothing; announcements are true |

**Bounds.**  In Timer three entries are enough for a booking, one that is open and one
that follows; a clock of a few seconds with a maximum and a threshold below it
lets every comparison of the handlers go both ways, and equal, and has room for
two phases with a timer that goes on between them.  The six
archives of MCTimer each have one shape of what may be found: a heartbeat
before, at and beyond the clock, an absence witnessed or not, with and without
an earlier period, one that begins in the future.  With archives, bookings are
bounded by a state constraint (`FewBookings`): the properties of that run are
about the bookings one step adds.  In Export the trail has at most three rows
per booking: exported, reset, exported again; two requests are the fewest that
interfere; `SharedSeconds` is FALSE, so that no two of them are asked for in one
second, which is the question of `export_seconds`.  IdlePlan needs two periods
for a gap and three allocations for one that lies within a period, one that
crosses its end and one after.  In Attachments
two todos are the fewest of which one may own what the other has removed, and
two names in one folder the fewest for which the sweep's two counter-questions
matter.  `Overlapping` is FALSE: a path onto a stored file and an import wait
until no other call is under way (section 4); all other calls interleave.  Four
calls in the queue are one running, one nested, and two waiting in order.  In
MailAssignment three attempts let a request be under way, given up and sent
again, with an edited form or for a new request.  In WebTimer two operations
with one interference are the fewest for a switch that meets another client and
for an undo that comes after it; two reads are the fewest that overtake each
other; a message lives one tick and two messages fill the stack, so that both
limits are met.  Three releases are two migrations after the first,
so that a crash lies between them; two services are the fewest that meet.  In
Structure two folders can be moved below each other; the four rules of
MCStructure ask each axis in each of its ways, with folders that are empty,
nested or named beside a tag.  One todo is enough for its properties, each of
which is about one todo at a time; the theorems are for any number.

**Symmetry** is used where identities are interchangeable and only in runs
without liveness (entries of this computer in `timer_travel`; bookings, todos, texts
and calls in MCExport; todos and calls in MCAttachments; requests, todos, panes,
mails and texts in MCMailAssignment; pools in MCStructure).  **Deadlock** is
checked except where the system may stop: a call of `planIdlePeriods` that has
returned, timers whose bounded supply of identities is spent, and a shell that
is closed after its last opening, when nothing runs.

**Fairness.**  `TransactionQueue`: weak fairness of the microtasks (Node runs
them until none is left) and of the end of each work (no handler waits for
anything but the file system and the database, both of which answer or fail).
`timer_core`: weak fairness of the clock and of the user's return and decision.
The idle dialog cannot be left (A-24.8) and the shell reports the return of
itself, so it is the user who makes progress, and the question is whether the
service lets him: `PhaseIsDecided` says that there is one dead end only for a
user who keeps answering, the phase whose timer `resolveOrphanedTimer` has ended
(`Orphaned`, the first finding).  No fairness is assumed of starts, stops,
restarts or imports.
`WebTimer`: calls that are under way end, in an answer or without one; the
minute's poll, the reads and the timers of messages go on.  The user, who may
leave a dialog open for ever, other clients and losses are not fair.
`ServiceLife`: programs that run go on (the waits of the start are bounded:
`busy_timeout` of 5 s, the deadline of the handshake, that of the shutdown);
nobody has to open, close or kill anything.
MailAssignment and Structure state safety only: whether an add-in asks again is
up to its user.

## 4. Findings

**A returned phase loses its timer after a restart** (timer.ts:845, run
`timer_orphan`).  `resolveOrphanedTimer` refuses only while the phase has no
return.  Afterwards it closes the entry of the phase; `resolveIdle` refuses
for want of a running entry, start and stop refuse because of the phase.
A-24.6 says that the timer is locked until the decision.  For a user who decides
the phase first there is no such end: `PhaseFirstKeepsTheTimer` (section 5).

**Two runs in one second share a file** (export.ts:434, run `export_seconds`).
The name of the file bears the second of the call.  A second run, asked for in
the same second and kept waiting by the first, renames its file over the one of
the first and, failing, removes it; the bookings of the first stay marked.  The
comment at export.ts:430 says that the time in the name keeps two runs of a day
from overwriting each other, the one at export.ts:44 that marks without a file
are excluded (A-8.8).

**Smaller disagreements**, met while modelling, which no run is spent on.
Where a constant keeps a run clear of one of them, it is named.

- *The provenance trigger goes by the clock* (migration 0007, line 71).  After
  the clock was set back an open booking cannot be marked as not billed.
- *The directory of a run is stale* (main.ts:330).  A run that read the export
  directory before it was changed, and is broken off while writing, leaves a
  temporary file that no start sweeps, since the sweep is of the current
  directory (`SetDirectory` between `AskExport` and `WriteTemporary`, then
  `Crash`).  Rounding mode and template are read in that earlier transaction too.
- *The phase of an older archive can never be decided* (idle.ts:210).
  `replaceAll` accepts a successor timer beside a returned phase; `resolveIdle`
  never does.  `PhaseIsDecided` of `timer_core` is violated with
  `Ids = {e1, x1, x2}` and `Archives <- SuccessorArchives` (MCTimer).
- *A file is released although somebody owns it* (attachments.ts:445 and 323;
  `Overlapping`).  The owners are asked for in one transaction; a path
  attachment added before the removal is not among them.  With `Overlapping`
  TRUE, `NoOwnedFileRemoved` is violated.
- *A refused copy stays* (attachments.ts:235).  `addAttachment` removes its copy
  when the row is refused and not when the transaction throws (the last case of
  `InsertImage`); the comment says the copy goes, the next start sweeps it.
- *"Es ist kein Todo entstanden."* (the task pane, TaskPane.tsx:782 and
  texts.ts:19) is also shown when an answer of success did not arrive whole,
  and a todo exists.  After turning to another mail and back, the form has a new
  request, which makes a second todo of the same mail.
- *Taking back a start stops whichever timer runs* (useReactivation.ts:66).  The
  stop names no entry.  After a switch in between, it is the timer of another
  todo that is stopped and whose booking is discarded, while texts.ts:168 says
  of the first "… ist wieder erledigt, die eben entstandene Buchung wurde
  verworfen."  When the answer of one of the three calls is lost, the message
  says less than has happened (useReactivation.ts:95).
- *A switch without a timer to stop* (`performSwitch` in TimerContext.tsx) goes
  on when the window shows none, and is refused by the service when one runs;
  the message speaks of a stop that did not take place.
- *Two services on one database* (orphan-sweep.ts:72-79, lib.rs:109).  Both
  places say that the single instance prevents it.  A shell that is killed and
  opened at once starts a second service while the first has not seen the end
  of its pipe: it sweeps and captures the recovery snapshot before it finds the
  port taken.  The copy `vor-migration-N` may then hold a later version than N.
- *A refused move renames all the same* (`updateTag` in structure.ts): the name
  is written before the move is tried, and stays when the move is refused.
- *A chain of more than 1000 folders* is above the limit of the recursive
  queries (repo-tags.ts), so that a move could close a circle; A-4.3 says the
  depth is unlimited.

## 5. The proofs

All theorems are for every value of the constants, under the assumptions named
in the modules, which only say what the constants are (that the tags are
finitely many, that `None` is not one of the values, and the like).

**TimerProofs.**  `TypeCorrect`: `Spec => []TypeOK`, action by action.
`TimerInvariant`: `OneComputer => (Spec => []TimerInv)`, where `OneComputer` is
a system without archives and without steps of the clock (bookings of other
computers and hand-made ones may well overlap).  `NoDoubleBooking` alone is not
inductive: that a stop books nothing twice needs that every booking ends before
the open entry starts (`BookedBeforeRunning`), and that an allocation does not
needs that the phase lies within its entry and has no earlier periods
(`PhaseWithinTimer`).  `TimerInv` is their conjunction and is inductive; `NothingBookedTwice` follows.  The lemmas about
`Sections` (they lie within their period and are disjoint) carry the
allocation.  `NoBookingIsTooLong` and `OpenPhaseKeepsItsTimer` follow from
`TimerInv` too, under the same hypothesis: the active part of an allocation is
bounded only because the phase names the timer it lies in.
`OpenPhaseKeepsItsTimer` reaches until the return is recorded.
`PhaseFirstKeepsTheTimer` reaches until the decision, in the behaviours without
the step of the first finding (`PhaseFirst`): no other step of the system takes
the timer from a phase.

The other three are action properties with archives and clock steps, for all
parameters.  `FoundEntriesEndAtTheirWitness`: the heartbeat of the found entry
is never beyond the witness noted when it was found.
`FoundAbsencesEndAtTheirWitness` needs `AbsenceInv`: no heartbeat reaches the
timer a found phase names, since that timer is itself found, and no new entry
takes its identity.  `NothingAheadIsBooked` needs `EarlierInv`: the earlier
periods of a phase lie apart and before its start, so that every section of an
allocation ends by the return, the one moment the handler compares with the
clock.

**ListProofs.**  Two parts that work on lists, of any length.  Of IdlePlan:
`RoundsHandOut`,
`SecondsHaveTheirOwner` (the reference `OwnerOf`) and `PlanCutsPeriods` (the
link to `Sections`).  The inductive invariant has six parts.  `LoopInv`: what
the allocations have given, less what is left of the present one, is what the
periods were handed out; since the totals agree, the last allocation cannot run
out before the last period, so a round always hands out something.
`PartsInv`: a section lies in one period, and its seconds are its allocation's.
`CoverInv` and `OrderInv`: the sections cover all up to the cursor, one after
the other.  `BorderInv` and `CountInv`: they begin at a border and each round
ends a period or an allocation.  The facts about sums (they exist, rise, agree
on equal beginnings and gain nothing from zeros) are inductions.  The library's
theorem of induction takes an operator and cannot be instantiated;
`NatSets` states induction of a *set* of naturals, from the least element of
its complement (`WFMin`, `NatLessThanWellFounded`).

Of WebTimer and ToastStack: `StackStaysInOrder`, `OffersAreKept`,
`WebTypeCorrect` and `EvictIsTheLoop`.  The lemmas about `Rank` and `Nth` say
that ranks rise one by one and that `Nth` is their inverse, so that `Without`
keeps exactly the other messages, in their order (`WithoutIs`);
`CountsAsNth` is the converse: whatever lists the places of a set in order is
`Nth`.  `EvictMakesRoom` counts: `Evict` leaves fewer than `MaxToasts`, or
offers only.  `EvictIsTheLoop` takes one round of the loop, `findIndex` and the
two slices (`Oldest`, `RemoveAt`), and shows that it leaves the result as it
is, whence `Evict` is what all rounds leave.  `StackInOrder` is not inductive:
that a message has been there no longer than its life needs that what is `left`
and what is `seen` make up its life (`InOrder`), which is what a timer set again
by another message would break.  The types of WebTimer need two parts more: a
start of the user is paid for by its click (`Counted`), and entries are numbered
in the order of their starts (`Numbered`), so that a new one is none that was
booked.

**ExportProofs.**  `TypeCorrect`, and `EveryMarkHasItsFile`:
`~SharedSeconds => (Spec => []EveryRunHasItsFile)`.  The invariant is
`FilesInv`: the seconds of the calls under way are pairwise different and
different from those of all recorded runs (`OwnSeconds`), and a file in its
place bills the plan of its call until it is recorded (`PlacedFiles`).
`QuietStep` covers every step that neither starts a call, places a file nor
records a run.  The hypothesis is needed: `export_seconds`.

The other four need no hypothesis.  `NoExportIsNeverBilled` rests on `PlanInv`:
one call at most is inside its transaction, and what it has planned stays
billable, word for word, until it ends.  `TheTrailExplainsTheStatus` and
`NoSecondBillWithoutReset` rest on `TrailInv`, which says of each booking what
its trail, its count, its status and the runs that bill it have to do with each
other; it is about cardinalities of the places in the trail, hence the lemmas
on finite sets.  `ExportedRowsMatchTheirBill` rests on `BilledInv`, and on
`PlanInv` for the step that records a run.

**AttachmentsProofs.**  `RowsHaveTheirFiles` and `OrphansHaveAReason` under
`Settled`: imports wait until no other call is under way (`~Overlapping`), or
there are no archives and all calls, paths too, meet all others.
`OwnedFilesStay` needs `Apart`, where paths are kept apart as well: a path added
between the question for owners and the removal does not protect its file, as
section 4 shows.  What holds all the same is `OwnFilesStay`: only the row of a
path can lose its file so, never the row of the service's own copy.  The
invariant: what a call has written is its own (`WritesInv`); what a call may
remove or has yet to record is not `Guarded`, named by a row under `Apart` and
by one of the service's own otherwise (`UnnamedInv`), although the question for
owners and the removal are steps apart; an import that restores knows its rows
(`RestoreInv`); a start has no calls beside it (`StartInv`); each row's file is
there, lost or awaited (`OwnInv`); each file has a row, an excuse or a call
(`OrphanInv`).  TLC has checked it on the instance of the run, on one with
`Overlapping` TRUE and without paths and archives, and on one with paths.  With
archives and `Overlapping` TRUE TLC finds all three properties violated, and an
import beside other calls stays a hazard of the code without a theorem.

**TransactionQueueProofs.**  `Apart`, `ContinuesFirst`, `TypeCorrect` and
`OneAtATime`, the safety part of the refinement.  None of them is inductive:
whether the next call may begin depends on what the microtask queue holds.  The
invariant is that for some `k` the first `k` calls of the chain are over, the
later ones wait, and queue and connection are in one of five forms (`Resting`,
`Leaving`, `Starting`, `Running`, `Ended`): the rest of the call before, its own
start, its work, or what its end has queued.  Each action leads from one form to
another.  For the refinement, `AnswersOf` counts the answered calls of each
form, so that `Waiting` loses its head exactly with a COMMIT or a failure.

**MailAssignmentProofs.**  `OneTodo`, `Implementation` (the refinement of
RequestEffects), `Consistency`, `TypeCorrect`.  The invariant `Consistent` says
of the three tables, and of their image in the archive: one entry per request,
each entry has the receipt of its request on the same todo, a todo made by a
request has the entry it was made with.  It has to hold of the archive too,
since an import puts that in the place of the tables.

`ReceiptsPair` needs the other direction as well (`PairInv`): a receipt has its
entry, so that the removal of an entry leaves no key taken.  `StoredWhenSaid`
follows from it, with `SentInv`: the number of an attempt names what the pane
had sent.  `ShownIsSent` needs `ShownInv`: an answer of success a pane holds
meets the form it waits for.

**ServiceLifeProofs.**  `AppliedOnce`, `CopiedBefore`, `SchemaKnown`,
`TypeCorrect` from one invariant: a service never heads beyond the next
migration that is missing, it may be behind and ends then, and all services
are of the release that is installed (`Behind`); its copy is there, and holds
what it found if it has changed anything (`Copied`).  `OneService` needs an
invariant of its own (`Alone`): while no shell was killed, only the worker of
a shell without a child brings a service to life.

**StructureProofs.**  `Tree`: a move is into a folder above which the moved one
does not lie; the set of ancestors of the target is closed upwards
(`UpwardsIsClosed`), so a circle through the new edge would have the moved
folder among them.  `OneTruth`, `AnnouncementIsTrue` and `RemovalsAreSafe` need
no induction beyond the types (every term of a rule points to a row,
`TypeCorrect`).  They rest on `Agreement`: the SQL of a rule, which counts
matching tags, and the domain's answer, which compares sets, are the same for
any finite set of tags.  For the removals, a folder that can be removed is a
leaf without tags and in no rule (`ALeafChangesNoPool`), and a tag that goes
brings nobody into a pool, unless its rule asks for all tags of a folder
(`ATagWidensNoPool`).

**Only model-checked.**  Liveness (`PhaseIsDecided`, `ViewCatchesUp`,
`OperationsEnd`, `ServiceEndsWithItsShell`, `StartIsDecided`, the fairness of
`ImplementsSerial`) and everything about ENABLED is out of the provers' reach.
`ImplementsSerial` is proved as far as it is safety (`OneAtATime`).
Every other property of the passing runs is a theorem.  What the theorems
assume beyond the constants is `OneComputer` (five theorems of Timer, one of
them with `PhaseFirst`),
`~SharedSeconds` (`EveryMarkHasItsFile`), `Apart` (`OwnedFilesStay`) and
`Settled` (the other results of Attachments), which the runs of these
properties meet.  Every inductive invariant was an invariant of a run of TLC
before it was proved.  The type invariants are theorems and no run repeats
them.

## 6. What is not modelled, and why

Pure formatting and rendering; rounding and templates (the plan below); the
views of the clients beyond the timer and the task pane; certificates and TLS
and the static files of the task pane; generated design data; the statements of
the migrations other than the triggers and foreign keys the models rely on;
failures of single SQL statements, which the savepoints of `atomic.ts` turn into
refusals; the deletion of todos that still have entries; token, throttle and
origin policy, which decide single requests; the scripts that check the
repository itself (`scripts/proof-*.mjs`), which are tests and no part of the
product, and make up a large share of its lines.  In Export the replacement of
all tables by an archive is left out, in Timer the bookings made by hand.

## 7. The plan

Done: Timer, IdlePlan, TransactionQueue, Export, Attachments, MailAssignment,
WebTimer, ServiceLife and Structure with their runs; the theorems of section 5.
Next, the most important first:

1. Proofs: what holds in Attachments of calls that meet an import under way;
   the results of Timer under `OneComputer` for systems with archives, too.
2. `ExportPlan`: day groups, rounding modes, skipped groups and merged notes
   against a reference, joined to Export through its `Billing`.
3. Attachments with the sweep of a second service beside the requests of a
   first, which ServiceLife shows to be possible.
4. `VersionCheck`: the 60 minute floor within one life of the service, clock
   steps, a store that does not answer; orders of tags, statuses and columns.
