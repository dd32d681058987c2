# FluxTrack verification project

FluxTrack is a Django application (SQL Server, several web workers, one
scheduler process) that records which university classes are really held: a
faculty member scans a room's QR code or starts an online class, checkers walk
the floors, the facilities office (IFO) declares suspensions and drops classes,
deans decide requests to move classes, and background jobs mark no-shows, create
sessions, send notifications and write reports.  This directory models it in
TLA+, checks the models with TLC on small instances, and proves every safety
property that holds on them with TLAPS for every instance.

## 1. Inventory

Processes: any number of web workers (each serves one request at a time), one
scheduler process (`runscheduler`, five jobs, `max_instances=1` each), management
commands started by hand, and browsers (the checker's device with its queue, the
board page, the shift form, tabs with push subscriptions).  Workers, scheduler
and commands share one database, one cache and one file storage.  Django runs in
autocommit: two ORM calls of a view are two transactions unless
`transaction.atomic` says otherwise, so almost every handler is a sequence
*read - decide - write* with the others in between.

| component | state it keeps | operations | what makes it correct |
|---|---|---|---|
| faculty scan (`web/scan.py`, `scheduling/resolver.py`) | `Session.status/room/actual_start/checkin_method`, signed tokens, idempotency cache | `resolve`, `confirm`, `_apply` (9 outcomes) | a decision made inside the window is still right when it commits; nobody is absent early |
| merged groups (`scheduling/merge.py`) | the same rows | `propagate_merged_present`, `propagate_merged_absent` | a credited presence has a real check-in behind it; a flag inside grace fails only its own class |
| sweep (`scheduling/jobs.py`) | rows, `RoomConflictFlag` | `sweep_no_shows`, `detect_room_conflicts` | never overwrites a person's act; every no-show is settled; flags follow conflicts |
| online classes (`web/faculty.py`, `web/checker.py`) | rows, `CheckerValidation` | `online_start`, `_online_action`, `_apply_action` | as for scans, with two writers of one class |
| suspensions and breaks (`scheduling/suspensions.py`) | `ClassSuspension`, `AcademicBreak`, rows | `suspend_classes`, `lift_suspension`, break create/delete | never cancels a class in session |
| IFO session operations (`web/ifo.py`, `scheduling/schedule_ops.py`, `ops/occupancy.py`) | rows, rooms, schedules | release, absent correction, edit and drop of a class, room service | never rewrites what has happened |
| term lifecycle (`scheduling/term_lifecycle.py`) | `AcademicTerm.status` | create, activate, close, reopen | terms disjoint, one active, nothing runs in an archived term |
| materialization (`scheduling/materialization.py`) | `Session` rows of the coming days | activation, 6-hourly job, run after `schedule_new` | every occurrence gets one session, with the approved shift |
| modality shifts (`scheduling/services.py`) | requests, items, rows, rooms | submit, withdraw, reject, approve and apply | decided once; a denial leaves no trace; no promised room given away |
| availability, bookings (`ops/availability.py`, `web/ifo.py`) | `RoomBooking` | check, then create or cancel | a room is free when it is given |
| checker rounds (`web/checker.py`, `verification/resolver.py`) | postings, validations, cache | gate, live action, floor board | only a posted checker records; board, queue and coverage agree |
| offline queue (`static/checker/offline_queue.js`, `web/checker.py`) | browser queue, receipts, conflicts | record, drain, replay, drop | at-least-once delivery applied once; every scan is settled |
| duty roster (`verification/services.py`) | postings, owner of an online class | assign, round robin | one owner, on duty when the class begins; no reshuffling |
| notifications, push (`ops/push.py`, `web/push.py`, `web/notifications.py`, `static/js/push.js`) | notifications, subscriptions, preferences | notify, drain, prune, subscribe, mark read | sent once or given up; live subscriptions kept; nothing read unseen |
| guard alerts (`ops/guard_alerts.py`) | a batch in memory, notifications | collect, tally, one alert per guard | nobody is told twice, and everybody standing there is told |
| job runner (`ops/jobrun.py`, `checkscheduler`) | `JobRun` rows | start, end, fail, prune, stale check | the loop survives; a dead one is reported |
| weekly reports (`ops/reports.py`) | rows and files of a week | job, backfill, command, downloads | a row listed can be downloaded; a lost file comes back |
| reporting (`scheduling/reporting.py`, pages in `web/`) | none (reads sessions) | aggregates, pages, exports | every page tells the same story; hours add up |
| report scope (`web/reporting_common.py`) | none (the address) | parse, clamp, default, link | a report is inside its term; a link shows the same report later |
| board, guard monitor, locator (`web/room_state.py`, `web/guard.py`) | none | tiles, panel, floors, search | what a surface says is so, at every minute |
| board in the browser (`static/js/board.js`) | tiles, filters, panel, timer | poll, filter, open, close | a poll undoes nothing the user did; staleness shows |
| shift form in the browser (`static/faculty/modality.js`, `web/faculty.py`) | steps, picks, room picker | choose, fetch, submit, refused submission | the picker belongs to the classes picked |
| campus structure (`web/ifo.py`, `campus/`) | buildings, floors, rooms, codes | create, edit, rotate, service, delete | retired codes stay dead; nothing refers to a deleted row |
| offering import (`scheduling/importing.py`, `import_offerings`) | schedules, accounts, rooms | dry run, import, reconcile | every row accounted for; the preview is what the commit does |
| import staging (`ops/import_staging.py`, `web/ifo.py`) | staged rows, files, session token | upload, preview, commit, discard, sweep | a batch is applied at most once; storage does not fill up |
| identity photos (`accounts/photos.py`, `web/faculty.py`) | file, user row | upload, replace | the row's photo exists |
| accounts and sign-in, seed and demo commands, `poc/`, admin-site guards | - | redirects, single-row edits, scripts | no protocol of their own (section 5) |

Interactions.  Scan, sweep, checker and IFO meet on the *same session rows* and
call each other only through them.  Check-in, handover, online start, Verify and
Flag write an anchor row (an exclusive row lock until commit), then the fill
takes the update lock on the *term row*.  `suspend_classes` takes the term lock
first and rows after: the opposite order.  That is a possible database deadlock
(one victim is rolled back) and also the reason a suspension cannot cancel a
class in session.  `cancel_schedule` and `update_schedule` lock only their schedule
row and do race with check-ins and approvals.  Approvals and withdrawals lock the
request and the term.  `close_term` counts the active sessions under the term lock.
Materialization takes no lock at all.  Bookings, roster passes, report files,
staged uploads and room forms are read in one transaction and written in another.

The hard behaviours are listed one by one, at their source lines, under
`hazards` in `PROJECT.json`.

## 2. Modules

```
Resolver            pure decisions: no-show predicate, scan resolver, merge key, online ladder
  SessionTable      database state, requests in flight, locks, clock, Abort
    ScanFlow        web/scan.py and the merged fill
      OnlineFlow    online_start and the online checker
    IfoOps          suspensions, breaks, dropped classes, release, correction, room service
    StatusSweep     sweep_no_shows, detect_room_conflicts
  Attendance        all of them together: Next, Spec, Fairness, properties
    MCAttendance            TLC instances
    Attendance_proofs       type correctness
      AttendanceSafety_proofs   what requests in flight guarantee; what the locks buy

TermLifecycle       term rows and the lifecycle transactions with their term locks
  Materialize       sessions from schedules: activation, job, console
    Terms           with check-ins, suspensions, dropped classes, crashes: Spec, properties
      MCTerms               TLC instances
      Terms_proofs          type correctness, disjoint terms, quiet archived terms

Availability        room tables and the availability oracle
  ModalityShift     submit, withdraw, reject, approve and apply; _apply_approved_shift
    RoomDesk        bookings, edit of a running class
      Rooms         with the materializer and classes being held: Spec, properties
        MCRooms
        Rooms_proofs        decided once, only approved shifts, no promised room

CheckerDesk         postings, scan gate, live action, floor board
  OfflineReplay     the device's queue and its replay: Spec, refinement, properties
    MCOfflineReplay
    OfflineReplay_proofs    the refinement of ReplayLog, later classes, board figures
ReplayLog           abstract: each recorded scan is taken exactly once

OnlineRoster  PushOutbox  JobRunner  WeeklyReports  CampusDesk  ImportDesk
Offerings  ReportScope  GuardAlerts  ProfilePhoto  BoardPage  ShiftForm
Reporting           the session table's aggregates
  RoomReports       hours, heat grid, rooms and roll-ups
  RoomBoard         tiles, boards, guard monitor, search
    ReportPages     dashboards, scorecards, exports, lists over both
  Backoffice        all of these, one desk at a time: Spec, fairness
    MCBackoffice
    Backoffice_proofs       seventeen properties of the desks
    ReportPages_proofs      finite sums; hours, attendance and the board
```

`PROJECT.json` maps every definition to the lines it stands for.

### Attendance

State.  `row[s]` is the committed `Session` row; `req[w]` is what worker `w` has
read and not written: program counter, operation, the ids it has listed, the
clock at the decision (`born`) and the clock to be stamped (`at`, which
`_apply` reads again later).  `token` is the set of signed two-step tokens in
the clients' hands, `idem` and `cidem` the cache keys of the current minute,
`sweep` the running job with the calendar and candidates it read.

Actions.  A view that reads and then writes is two actions (`scan_resolve` then
`apply_absent_read` then `apply_absent`).  An atomic block becomes visible with
one action, `commit`, and holds locks from `anchor_write` on; its lists of ids
are read in `propagate_select` and updated by key in `commit`, as the code does.
`Abort` is a worker that dies, is a deadlock victim, or raises before its
commit.  Reads see committed rows, which contains both of SQL Server's
read-committed modes; the locking mode has fewer behaviours.

Abstractions.  One teaching day of the one active term; modality is a constant
of a session; a tick is a minute and the policy windows are scaled to one tick.
Audit rows and notifications are left out, except which suspension cancelled a
row (`cancelledBy`).  `actual_end`, `ended_early` and `handover_from_session`
are dropped: no decision reads them.  Too-early, no-schedule and online-reject
scans change nothing but the cache.  The manual-code rate limit is not
modelled.  The checker's face-to-face record is in `CheckerDesk`, the question
which checker owns an online class in `OnlineRoster`.  One conflict-flag pass is
one step.  Each suspension of the instance is declared at most once.

### Terms

State.  `term[t]` and `schedule[s]` are row statuses (`"none"` before the insert),
`sess[x]` the *sequence* of session rows of one occurrence (class, date) - a
sequence because nothing in the schema makes that pair unique - and `req[p]`
what a worker or the scheduler is doing, with the term rows it has locked.

Actions.  Each lifecycle transaction is a preflight (locks taken, blockers
checked on committed rows) and a commit.  An activation also creates the
sessions of its first horizon; its commit needs that no term is active, which
is the unique index on the active status (the preflight alone does not give
it).  The job and the console materialize outside any transaction, one `get`
and one insert per occurrence.  A check-in is Attendance's, reduced to read,
term lock, commit.

Abstractions.  A term is its (normalized, unique) name with fixed dates; the
operator types the right name and acknowledges the current warnings (any other
submission is refused and changes nothing).  Suspension and dropping a class
are one step here and split in Attendance.  Breaks are left out;
`_apply_approved_shift`, the step after an insert, is in `ModalityShift`.
`create_term`'s locking scan waits for locked rows, and rows inserted meanwhile
are seen when it proceeds: the model takes the scan when all locks are free.

### Rooms

State.  `sess[x]` is the session of an occurrence with its room, slot and the
request that shifted it, `ticket[r]` a request with its items, `schedule[c]` the
timetable row, `booking[b]` an ad-hoc booking, `proc[p]` what a process has read.
Validation at submission and the insert are two actions, and so are a booking's
check and its insert, and the materializer's insert and its look at the
approvals.  An approval works through its sessions one after another on its own
uncommitted copy (`resolve_shift_room` sees the sessions it has moved already) and
commits all or none.

Abstractions.  One building; F2F and Blended are one value because they take the
same path; a date stands for a week; breaks, suspensions and archived terms
are left out (Attendance, Terms); an approval reads its sessions at one instant;
`release_room`'s separate save is part of the step that frees the room; the
list of free times a form offers (`available_times_for`) is left out.

### Checking

`CheckerDesk` has the postings and the live path: gate, action and idempotency
key of the minute, the floor board.  `OfflineReplay` adds the device: a scan is
resolved against the cards the page was loaded with and queued under a uuid;
`drain_send` posts the whole queue, the server checks and commits each entry on
its own (`replay_check`, `replay_commit`, the receipt unique per uuid), and the
answer removes the entries it names or is lost (`drain_fail`).  Two drains (page
load and `online` event) may overlap.  `ReplayLog` is the promise: a scan is
taken exactly once, as a validation or as a conflict for the office, and only
then forgotten.  `Log` instantiates it with `taken` read off the
validations and conflicts on file, not off the receipt, so that an effect
without a receipt, or two effects under one receipt, would be seen.

### The desks

Every desk is a module with its own variables, initial states and next-state
relation.  They write disjoint sets of rows, so `Backoffice` picks one desk per
behaviour and lets the others rest: all interleavings within a desk, no product
of independent ones.  Push is followed from two sides (`"push"`: two
notifications sent through changing subscriptions; `"reading"`: dropdown and
mutes) for the same reason.

* `OnlineRoster`: one date; passes of the console and of the command overlap, list
  first and write the owners one by one, and may be cut; classes are shifted and
  postings created in between (the console never ends one; the admin site, which is
  not modelled, can).  Lists and pools are ordered by ids, stated with ranks.
* `PushOutbox`: a pass takes the pending rows, sends to each subscription, stamps;
  the vendor accepts, fails, or says the endpoint is gone; a cut pass starts
  over.  The browser has one live endpoint and tabs whose requests may be lost.
* `JobRunner`: one newest finished and one newest unfinished row per job; ages
  saturate past the thresholds, so time is unbounded.
* `WeeklyReports`: rows and files; a file is deleted, saved under a free name, and
  pointed to in separate steps; roll-up rows have no unique key in the database
  (NULL department), so two may appear: the model has them.
* `CampusDesk`: each form reads its row, then writes it; deletes check for blockers
  and delete in one transaction without locking what is created meanwhile, so the
  foreign keys decide.
* `ImportDesk`: two tabs load one session and write it back whole; file and row are
  separate steps.  Whether the term is still a draft is a nondeterministic answer.
* `Offerings`: rows are already-read cells; a file is parsed, previewed, imported
  twice, with and without a building filter, and reconciled.  What the code gathers
  in a loop (keys, flags, buckets, planned meetings) is told by the places of the
  file it comes from.
* `ReportScope`, `Reporting`, `RoomReports`, `RoomBoard`, `ReportPages`: pure
  functions over a session table that goes through check-ins early and late,
  overruns, absences, cancellations, repeated verification, edits of slot, room
  and teacher, dropped classes and rooms out of service.  Hours are in tenths as
  the code rounds them.  A grid is a function on its cells, the blocks a session
  falls into are a set, and the teacher's cards are told by the places of the
  classes that open them.  Words, layout and CSV quoting are left out.
* `GuardAlerts`: the batch of one sweep run lives in memory; a cut loses it.
* `ProfilePhoto`: whether an image decodes is a choice; storage picks a free name.
* `BoardPage`: polls, failures, filters, panel requests and the timer that hides
  a closed panel; focus trapping and scrolling are left out.
* `ShiftForm`: the picker's fetch may be overtaken, late or lost; a refused
  submission replaces the form.

Three exceptions written into these properties are behaviours of the code worth
knowing: overlapping photo uploads may delete a file the row names; a panel
opened within the 320 ms of an earlier close is hidden by that close's timer; a
lost picker fetch is not repeated until the address changes.

## 3. Runs

| run | instance | checks | result |
|---|---|---|---|
| `handover` | 2 workers, 2 instructors, 2 rooms, tokens | PresentWithinGrace | holds, 1.6M states |
| `online_race` | merged online pair, 2 workers, start/Verify/Flag, grace of zero | NoEarlyAbsent, MergedHasAnchor | holds, 0.7M |
| `calendar` | 2 overlapping suspensions, lifts, a dropped class, 2 workers, crashes of the job | SuspendSparesPresent, SweepOnlyMarksScheduled | holds, 0.8M |
| `settle` | FairSpec; merged pair, scans, releases, corrections, breaks, room service | NoShowsSettle, ConflictsAreTracked | holds, 214k |
| `terms` | 2 admins, 3 terms (two overlapping proposals), an added class, check-ins, job | TermsDisjoint, ArchivedHasNoActive | holds, 397k |
| `horizon` | FairSpec; a crash, an added and a dropped class, a suspension, closing | HorizonFilled | holds, 98k |
| `rooms` | 2 overlapping classes, 2 rooms, 2 requests, a booking, edits, 2 processes, crashes | OnlyApprovedApplied, DecidedOnce, ApprovalTakesUnreservedRoom | holds, 1.1M |
| `checking` | a device with a queued scan, 2 overlapping drains, live scans, postings, lost requests and answers | ReplayNeverForLaterClass, BoardAgrees, ImplementsReplayLog, QueueDrains | holds, 246k |
| `backoffice` | the desks, each with two actors or an actor and a crash | the 23 properties below | holds, 375k |
| `schedule_edit` | 2 workers, dropping a class against a check-in | ScheduleEditKeepsHistory | violated |
| `duplicate_session` | job and console at once | NoDuplicateSession | violated |
| `shift_missed` | materializer and an approval at once | ShiftReachesSessions | violated |

`backoffice` checks, by desk: roster `OwnerCovers`, `NoReshuffle`; push
`ResentOnlyAfterCut`, `LiveSubscriptionKept`, `NothingReadUnseen`, `OutboxDrains`;
jobs `StaleReported`; weekly reports `ReportFilesThere`, `ReportsRecover`; campus
`RetiredCodesDead`, `RecordsHoused`; imports `ImportedOnce`, `NoLeftoverFiles`,
`RowsAccounted`, `PreviewTrue`; reports `ReportScopeKept`, `AttendanceReconciles`,
`HoursReconcile`; board `BoardTrue`; guards `FloorsAlerted`; photos `PhotoThere`;
browser `BoardKept`, `PickerFits`.  Each is stated in words above its definition.

The three violations are disagreements between a docstring or document and the
code; `findings` quotes the lines.  In short: dropping a class can cancel one
that has just checked in; two materializations at once make a duplicate session,
after which every later run fails on it; and an approval that falls between the
materializer's insert and its look at the approvals leaves that session unshifted
for good.

Bounds.  `MaxTime`, `MaxDate` (ticks, dates), `MaxTokens`, `MaxCrashes`, `MaxCuts`,
`MaxRows`, `MaxRuns`, `MaxSuffix`, `MaxEdits`, `MaxSweeps`, `MaxUploads`, `MaxTimers`,
`MaxFetches` and the like bound counters in guards; `Ops` selects the entry points
of an instance.  Two workers suffice for every race named in `hazards` (each is
between two requests, or a request and a job), three sessions for a group and an
outsider, one cut for a crash between any two steps and a complete run after it,
and the clock reaches the tick after start + grace in every run that judges it
(with a grace of zero where a longer day is out of reach).  In `MCTerms`,
`Horizon` is smaller than `JobDays` so that the job has something left to do after
an activation.  In `MCBackoffice` the report table has an edited slot, a shifted
class, a teacher with and one without a department and an online room, the smallest
table on which each total has two unequal parts.  Deadlock checking is off: the day
ends at its bound, and nobody owes a further request.  Workers are interchangeable,
so the safety runs with two of them use symmetry; runs with liveness do not.

Fairness.  Attendance: weak fairness of the sweep's next step (the scheduler
fires it on an interval, `coalesce`, and `run_job` swallows a failure), of each
worker's request (it commits, or is aborted by a timeout) and of the clock; users
owe nothing, and `settle` leaves out `sweep_crash`.  Terms: weak fairness of the
scheduler's materialization and of the end of each worker's request; a crash
happens at most `MaxCrashes` times.  `HorizonFilled` excepts the states with a
duplicate session, where the code really does stop filling.  OfflineReplay: the
page is opened or the connection returns again and again (weak fairness of
`drain_send`; `offline_queue.js` drains on load and on `online`), and strong fairness
of the server's two steps and of an answer getting through, since each attempt may
be cut and is made again.  Backoffice: the outbox job of every minute, the
watchdog's cron entry and the clock, a generation that has begun, and the service
manager's restart with its backfill; operators and browsers owe nothing.

Each property of a passing run has a mutant in `PROJECT.json`: the definition
after its `\* Mutant:` comment is the plausible bug that breaks it.

## 4. Proofs

Every theorem holds for every value of the constants under the named `ASSUME`s,
which give types and finiteness, keep the "none" values (and "everyone") apart from
real ones, and say that initial terms are disjoint and that a class ends after it
begins (the class forms demand it, `web/ifo.py:2328` and `2390`; the importer takes the
times of its file as they are); TLC evaluates them in every run.  Three theorems need
more, and state it: `TermsStayDisjoint`, `ApprovalRoomUnreserved` and
`BoardFiguresAgree`.  Nothing is assumed about the numbers of workers, rows, requests,
cuts or ticks: the bounds are constants, and any natural number will do.

The invariants below were checked by TLC on the runs' instances before they were
proved.  They have one form throughout: the property is about rows, the rows are
written from what a request read earlier, so the invariant adds what each request
in flight still guarantees.

Attendance.

* `TypeCorrect`: `Spec => []TypeOK`.  `TypeOK` is not inductive: what `commit` writes
  comes from the request, so `RequestShape` says which fields are set at which
  program counter.
* `NeverAbsentEarly`, `MergedPresenceAnchored`, `PresenceOnTime`: from `SafetyInv`,
  which says what each request in flight guarantees (`InFlight`), that tokens were
  signed on time (`TokensOnTime`) and that the sweep's candidates were past grace
  at its clock (`SweepPastGrace`).
* `TermLockExclusive`, `SuspensionSparesPresent`, `SweepSparesPresence`: from
  `LockInv`.  The term lock is exclusive, and a row on a suspension's list is not
  active while the list is held (`ListedNotActive`), since only a holder of the
  lock makes a row active.

Terms.

* `TermTypesCorrect`: `TypeInv` adds `CheckinShape`.
* `TermsStayDisjoint`: from `DisjointInv`.  A creation past its preflight holds every
  term on file (`CreateSound`), so two of them cannot coexist.  It assumes
  `Existing # {}`: on an empty table there is no row to lock, and two first terms
  may overlap.
* `ArchivedStaysQuiet`: from `QuietInv`.  A closing past its preflight holds its term
  and has no class in session (`CloseSound`); a check-in past its lock holds a
  term that is not archived (`CheckinSound`); the locks are exclusive.

Rooms.

* `RoomTypesCorrect`: `TypeInv` adds what an approval holds (`ApprovalInv`: its request
  is still pending, because the term lock keeps other deciders out) and that
  decisions are numbered in order (`OrderInv`).
* `RequestsDecidedOnce`, `ShiftsOnlyApproved`: from `TypeInv` and what became of each
  request; a denial writes nothing, because an approval commits all or none.
* `ApprovalRoomUnreserved`: the rooms an approval carries to its commit were free of
  reservations when it looked (`FoundFree`), and nobody else decides in between.
  `EditsNeverReturn` is assumed: the edits of a class either all keep its first time
  or all leave it.  The property excepts classes whose times were edited (an edit
  takes another lock than an approval), and recognises those by a time that is not
  the first; an edit back would hide one.

Checking.

* `ReplayLogImplemented`: `OfflineReplay` implements `ReplayLog`.  `ReceiptInv` ties a
  receipt to exactly one effect, `QueueInv` every answered or forgotten scan to a
  receipt, so a drain that repeats what another has done is a stutter of the log.
* `NeverForLaterClass`: from `StartedInv`, the class a check has chosen had begun at
  the scan.
* `BoardFiguresAgree`: for fewer than 200 classes.  The bound is the code's:
  `round()` at `web/checker.py:821` makes 100 of 99.5, so on a floor with 200 classes
  the coverage reads 100 % with one class still in the queue, where the docstring
  says that the figures never disagree.  A checker's floors hold far fewer in a day.

The desks (`Backoffice_proofs`).  A step of the office is a step of a desk or leaves
it alone (`CampusTurns`, `ImportTurns` ...), so each desk is proved on its own.

* `CampusHoused`, `RotatedCodesDead` (`CampusInv`): a write looks at the rows again, and
  a code is minted once, whatever row a form read.
* `ImportsOnce`, `StorageClean` (`ImportInv`): a token is entered once; a file nobody
  waits for is in the hand of a request or was in the hand of one that died.
* `BoardConsistent` (`BoardInv`): a panel that was not raced has no timer behind it.
* `PhotoNeverLost` (`PhotoInv`): an upload with nobody beside it has read the name the
  row still carries and stores under a free one.
* `ScopeStable` (`ScopeInv`): clamping is idempotent and monotone in the day.
* `SentOnceUnlessCut`, `ReadMeansShown`, `LiveRowsStay` (`PushInv`): a pass sends a note
  while it is unstamped, to each row once; a dropdown marks what it has rendered.
* `GuardsToldOnce` (`GuardInv`): told and owed add up to at most what happened, and to
  all of it while no run was cut (`AddsUp`).
* `PickerAgrees` (`FormInv`): the last live fetch is for the address asked for last
  (`AskedLast`), which at step 2 is the picked classes' (`AskedForPicks`).
* `OwnersOnDuty`, `OwnersStay` (`RosterInv`): what is owned, or dealt by a pass, is covered by
  postings (`OwnersPosted`), and a pass that is alone has unowned classes on its list (`ListAlone`).
  That round robin deals to somebody needs that a finite set of numbers has an
  element of every rank (`RankExists`), proved by least counterexample
  (`LeastNatural`, from the well-foundedness of the naturals).
* `ReportFilesKept` (`WeeklyInv`): only the canonical name is ever deleted, and whoever
  deletes it is about to save it (`Covered`).  This holds for everything while no cut
  is outstanding, and for what a run that began after the cut has done already
  (`Reliable`); when such a run ends, it holds for everything again.

* `RowsReconciled`: needs only that the file on the desk is one that can be read.  Each
  row lands in one bucket because the parser's verdicts exclude each other, and the
  importer's counters are the cardinalities of the same sets of places.
* `PreviewHonoured` (`OfferingInv`): the announcement was computed from the file still on
  the desk (`AnnouncedFrom`), every import left its keys, accounts and rooms behind
  (`ImportsLeft`), so one whose building filter lets through no more than an earlier
  one finds all its keys taken (`AgainAddsNothing`).

The reports (`ReportPages_proofs`).  The pages keep no state, so the only invariant is
the table's: rows are rows, a class still to be held has no actual times, a slot ends
after it begins (`TableInv`, inductive over check-ins, edits, drops and the rest).  What
the properties need besides is what counting and adding up mean.

* Sums.  The library's sum is a recursive fold whose theorems take an operator, so its
  properties are proved here from its definition: a way of adding up exists for every
  finite set (`AddsExists`), every way gives the same (`AddsAny`), and a total is the
  total of its groups' totals under any grouping (`SumParts`, `CountParts`, `SumRenamed`).
  Where data calls for induction the argument is by a least counterexample:
  `LeastNatural`, `LeastPart`, `SetInduction`.
* `HoursAccounted`: what a session adds is never more used than booked, and what
  is booked is used, wasted or still to come (`Contribution`); the parts `distribute` makes add up to the whole
  however the blocks weigh (`Distributed`); so cells, blocks, rooms, floors and
  buildings are groupings of one sum (`CellsAddUp`, `GroupsAddUp`, `BreakdownIs`), and
  a busier cell is never painted paler (`BusierIsDarker`).
* `AttendanceAccounted`: departments and the teachers outside them partition the
  sessions (`DeptsAddUp`); a scorecard, its export and the row it is opened from look
  at the same sessions (`CardIs`, `SameRow`); the rows of any finite set can be put in
  order (`OrderExists`), and the pages of any list show every line once, in order
  (`PagesTrue`).
* `BoardTells`: a tile is about the first class in its window (`CurrentIs`); the places
  that open a card are determined one after the other (`OpensExists`), so every class
  is on a card (`GroupsAre`); home and search pick from the same classes (`HomeIs`).

Three things came out of these proofs.  "Two classes one check-in covers share a card"
is false as it stands: merging is not transitive, and of four classes of one teacher
at one time the two in the middle, each merging with a different outer one and with each
other, may end on two cards.  `BoardTrue` says exactly when (`Spoken`); `_group_merged`
claims that "the display can never disagree with the fill" (`web/faculty.py:90`), which
takes four simultaneous classes to break and is noted here, not run.  And two definitions
(`room_tile`, `selected_report_scope`) were written with guards that overlapped, which
TLA+ leaves open: they now follow the order of the code's tests.

The type invariants are covered by their theorems, not by a run.

Only model-checked: liveness (`NoShowsSettle`, `ConflictsAreTracked`, `HorizonFilled`,
`QueueDrains`, `OutboxDrains`, `StaleReported`, `ReportsRecover`), which the prover does
not reach, and the violated claims.  Every invariant and every action property of a
passing run is a theorem, and so is the refinement of `ReplayLog`.

## 5. Not modelled, and the plan

Behaviours the models contain and no property judges, because neither code nor
documentation promises anything about them, or the code plainly accepts them:

* the sweep reads the calendar once per run (`scheduling/jobs.py:82`), the
  materializer once per term (`scheduling/materialization.py:119`);
* lifting a suspension reinstates what another one with the same words
  cancelled (`scheduling/suspensions.py:151`);
* a checker may act on a class a suspension has cancelled (`web/checker.py:660`),
  and the scan gate and its write are separate (`web/checker.py:458`);
* a scan past grace that read the row as scheduled saves "absent" by key, also over
  a token confirmed in between (`web/scan.py:101`);
* a form submitted twice makes two requests (`scheduling/services.py:225`);
* two bookings checked at once both go in (`web/ifo.py:917`);
* an edit of a class may cross an approval (`scheduling/schedule_ops.py:97`);
* `room_released_at` is not cleared when a class gets a room again
  (`scheduling/services.py:490`);
* a cancelled class past grace is painted absent by the room tile, and the online
  page offers Start for it (`web/faculty.py:527`).

Not modelled.  Sign-in (the identity provider's protocol around two small steps),
the admin site's refusals for archived terms, seed, demo and maintenance commands,
`poc/`, reading a spreadsheet's cells, the manual-code rate limit of a faculty scan,
the form of a meeting link, escaping (`csv_safe`, `safe_card`), icons, wording and
layout.

Next, in order:

1. the check-in of `Terms` shown to be implemented by `Attendance`, whose term lock it
   reduces to one step;
2. the stations of the liveness arguments (what each fair step brings nearer) as
   lemmas beside the runs that check the whole;
3. the admin site's end of a posting, which `OnlineRoster` leaves out, as an action.
