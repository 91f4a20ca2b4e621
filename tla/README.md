# Wall-E campus assistant: specification and proofs

TLA+ models of the campus assistant (`src/backend` and the web console in
`src/apps/web`), TLC configurations that check them on small instances, and
TLAPS proofs that hold for every instance. Paths below are relative to
`src/backend/src` unless they begin with `apps/` or `prisma/`. `PROJECT.json`
maps every definition to the lines it stands for.

## The system

The backend is an Express API over PostgreSQL (Prisma) with two timers in the
same process. Nearly every handler is a chain of awaited statements outside any
transaction; what protects it from the other handlers is the `WHERE` of an
update, a unique key, or nothing. Several API processes may run at once. Accounts
live in two systems, the database and the identity provider (Supabase), which
share no transaction. The web console keeps a query cache and a session of its
own, and the projector page a code that goes out of date.

| Component | State it keeps | Operations | Interacts with |
|---|---|---|---|
| Attendance (`session.service`, `attendance.service`, `attendance-lifecycle.service`, `attendance.worker`) | `Session` and `Attendance` rows; codes are signed, not stored | open, close, sign a code, scan, sweep (close stale sessions, call the roll) | timetable (slot and cohort of a lecture), profiles |
| Occurrence report (`occurrenceStates`), campus clock (`occurrence.util`) | none | classify past occurrences by the sessions near them; wall time to instant, walk over local days | sessions, timetable, reminders |
| Figures and exports (`student-export.service`, session and student statistics) | none | tally, statistics of a session, roster of a course | sessions, rows, profiles |
| Projector (`apps/web` `QrDisplay`) | the requests of a page, the code on the screen | ask every 25 s, show what arrives last | code signing |
| Reminders (`lecture-notification.service`, `notification.dispatcher`, `notification.worker`) | `Notification` rows with status, lock and attempts | generate, claim, send, record, cancel, reset | timetable, device tokens, push provider |
| Timetable (`schedule.service`) | `LectureSchedule` rows | create, update, deactivate, conflict check | reminders (cancel, reset), attendance |
| Cohorts and profiles (`student.service`, `utils/cohort`) | `StudentProfile` rows | create, save, complete; five lookups | everything addressed to a cohort |
| Academic structure (`academic.service`) | terms, offerings, teaching assignments, enrolments | guarded create and update, one current term | assignments, access policy |
| Assignments and grades (`assignment.service`) | assignment, targets, gradebook line, grades | create, update, publish, grade | offerings, enrolments |
| Email codes (`email-challenge.service`) | `EmailChallenge` rows | throttle, issue, verify, burn, spend | mail, registration, password reset |
| Accounts (`auth`, `admin`, `user` services) | `User` rows; identities at the provider | register, approve, reject, edit, create, remove | provider, notifications |
| Access policy (`authorization`, `session-access`, `course-access`) | none | scope of each list, check of each row | everything |
| Seeds (`prisma/seed-campus`, `seed-identity`) | the demo campus | one upsert after another, identities with their clean-up | database, provider |
| Web session (`apps/web` `AuthContext`) | token, user shown, calls in flight | restore, sign in and out, refresh, save a profile | API, provider, other tabs |
| Console pages (`apps/web` `pages`, `hooks/queries`) | query cache, form of a dialog | list, open, edit, save, press a button | API |
| Materials, courses, organizations | a table each | guarded create, read, update, delete | access policy |
| HTTP surface, mail, metrics, audit log, configuration, mobile client | none that is authoritative | input and output | everything |

### Where it is hard

* A handler reads, awaits, and writes: opening a session, scanning, booking a
  slot, deciding about a registration, issuing a code, deactivating an owner,
  enrolling, grading.
* Two processes run the same sweep and the same dispatcher; the only exclusion
  inside a process is a flag, and between processes the rows.
* A pass may die between any two statements and the next one must finish it.
* A lecture is edited or cancelled, or a student moved, between a scan and the
  roll, or between the generator's read and its insert.
* Two sessions of one occurrence are recognised by nearness in time alone.
* A claimed reminder is cancelled, deleted or outlived by its lock.
* A transaction at the default isolation level sees what was committed when a
  statement began: replacing a set of cohorts, making a term current.
* The database and the provider are written one after the other, and the
  compensation may fail too.
* The same question (is this row mine?) is answered by the scope of a list and
  by the check of a single row, in different places.
* Answers come late, out of order or not at all: to the projector, to the tab that
  is signing in, to the dialog that saves.

### What makes each component correct

*Attendance*: a row is written once, for somebody the lecture is addressed to,
and says what happened; nobody is absent from an open session; every closed
session gets its roll, complete, whatever dies. *Report*: each session speaks of
one week, the right one, and no week is dropped. *Clock*: the instant found
shows the wall time asked for. *Figures*: what a roster says stands on the
student's page and nobody attended more than was held. *Projector*: a dead code
means trouble, not bad timing. *Reminders*: one pass at a reminder, none
waiting for ever. *Timetable*: no room or instructor booked twice but by a race.
*Cohorts*: whoever is rolled is shown the lecture. *Terms*: one current term.
*Coursework*: what stands was lawful once, and nothing is opened to everybody by
accident. *Codes*: spent once, guessed a bounded number of times, throttled.
*Accounts*: who is told of an approval is let in, the address is the provider's, an
identity has its account, an owner remains. *Access*: what a list shows opens.
*Seeds*: running it again makes the demo campus. *Web*: the page shows whose
token it carries; a save takes nothing back. `PROJECT.json` lists the hazards
line by line with the properties that cover them.

## Modules

One module per component; each has its variables, `...Init`, one action per
statement or handler, `...Next`, `...Spec` and its properties.

| Module | Models | Composed in |
|---|---|---|
| `SessionWindow` | `utils/session-window.ts`: durations, staleness, nearness, punctuality | extended by `Attendance`, `Occurrences` |
| `Attendance` | sessions, scans, sweep | `MCAttendance`, `MCHall`, `MCTerm`, `MCPortal` |
| `RollBook` | the abstract book that `Attendance` implements | refinement; extended by `Figures` |
| `Projector` | the code on the projector | `MCHall` |
| `CampusClock`, `Occurrences` | local time; the report of a lecture's weeks | `MCCampus` |
| `Reach` | lists beside single-row checks | `MCPortal` |
| `Figures` | tallies and the exported roster | `MCCampus` |
| `Reminders` | generator, dispatcher, schedule handlers | `MCReminders` |
| `Terms`, `Coursework`, `EmailCodes` | current term; an offering's assignment and grades; one-time codes | `MCTerm` (`EmailCodes` also alone) |
| `Accounts`, `Timetable`, `Cohorts`, `WebSession`, `Seeds`, `Console` | the office | `MCCampus` (`Accounts` and `Cohorts` also alone, `MCAccounts`, `MCCohorts`) |

The `MC` modules that compose several components have a variable `desk`: each
behaviour explores one component while the others rest, because the components
share no state that their properties are about. States add up instead of
multiplying. Every behaviour of a desk is therefore a behaviour of its
component's own specification, which is what the theorems speak of.

### `SessionWindow` (`utils/session-window.ts`)

Duration of a lecture from its slot (with the default for a slot that cannot
answer), end, staleness, the derived state, the two measures of nearness,
punctuality. Instants are naturals; a slot is a pair of wall clocks, `NoClock`
standing for text that is not a time.

### `Attendance`

One action per database statement, so that everything another process can see
between two statements of a handler is a state of the model. The handler's local
variables are state:

| Variable | Code |
|---|---|
| `session`, `row` | `Session` and `Attendance` rows (`prisma/schema.prisma`) |
| `lecture`, `profile` | slot and `isActive` of a lecture; for each student, the lectures addressed to their cohort |
| `qr` | when the latest code of a session that is still alive was signed |
| `request[u]` | where a member of staff is in `createSession` or `closeSession` |
| `scan[s]` | where a student is in `scanAttendance`, with its `now`, and the code's age |
| `sweep[w]` | where a worker is in `runSweep`: stale list with the ends computed for it, closed list, current roll |

`BeginOpen, LoadSchedule, CheckOccurrence, CreateSession` are `createSession`;
`BeginClose, CloseSession` are `closeSession`; `PresentToken, ReadSession,
CheckCohort, CheckExisting, InsertAttendance` are `scanAttendance`; `StartPass,
CloseStale, ListAwaiting, CallRoll, ReadRecorded, ReadSiblings, ReadAttended,
WriteAbsences, MarkRoll, EndPass` are a pass. `RequestEnds` and `ScanEnds` are
any refusal or failure of the handler, `PassFails` a throw or a restart of the
process in the middle of a pass. A scan's checks on one snapshot (token, tenant,
state) are one action because no statement lies between them. `EditSchedule` and
`MoveCohort` are what the rest of the system does to a lecture and to a cohort
meanwhile.

Abstracted: identifiers, titles, rooms and tenancy (every check of tenancy only
refuses); the cohort, which is the set of lectures addressed to the student; the
signature of a code, which is its age; permission checks, which only refuse.

### `RollBook`

The abstract specification: a page per session, blank, open, closed, settled, in
that order; entries written once; nobody entered absent on an open page.
`Attendance` implements it through `Page` and `Entry`.

### `Projector` (`apps/web` `QrDisplay`, the code endpoint)

`meeting` is the state of the session on the server, `live` the page and what it
knows of the session, `ask[t]` the request sent at `t`, `shown` the request whose
code is on the screen. `ShowPage`, `LeavePage` and `LearnsItIsClosed` are the
effect and its clean-up, `ClockTick` the timer, `SignCode` the endpoint,
`TokenArrives` and `RequestLost` the two ends of a request, in any order. The
page never reads the session again by itself, so a code may stay on the screen
after the session was closed; the property is about codes that have run out.

### `CampusClock` and `Occurrences` (`utils/occurrence.util.ts`, `occurrenceStates`)

A zone with one change of offset, at any instant and between any two offsets; the
wall clock at an instant (`partsInZone`), the two-pass conversion of a wall time
(`zonedTimeToUtc`), and the walk over local days of `occurrencesBetween`. Days
and weeks have the length the constants say; the calendar date is the number of
the local day. `Occurrences` adds one weekly lecture. Sessions open whenever the
duplicate guard lets them (in one step; `Attendance` has the statements), and
close; `Report` is `occurrenceStates` as it would be at every instant.

### `Reach` (`utils/authorization.ts`, `session-access.ts`, `course-access.ts` and the services)

For each kind of row, three operators side by side: the scope of its list
(`Lists...`), the check of the single row (`Opens...`), and the check before a
write (`Manages...`, `MayPublish`, `Reviews`). They are evaluated over one
offering of the department `Ours` of the university `Here`, its cohorts,
appointments, enrolments, lecture, session, assignment and link, while
administrators, deans, instructors and students change all of these (`AdminStep`,
`UndergradStep`) with the guards the code has. The link between a lecture and a
teaching assignment is written by the seeds alone (`HangsOff`).

### `Figures` (`student-export.service`, `attendance.service`)

Extends `RollBook`: the sessions and rows it reads are those of the abstract
book, so what it shows holds of `Attendance` through the refinement. An export is
four reads, the last two in either order (`Promise.all`). A count is kept as the
set of what was counted; `standing` and `first` are history.

### `Reminders`

The dispatcher, the generator and the schedule handlers, a statement at a time:

| Variable | Code |
|---|---|
| `lecture` | hour and `isActive` of `LectureSchedule` rows |
| `reminder` | `Notification` rows by their unique key: status, attempts, lock, and `made`, which tells a row from one written on the same key after a reset |
| `drafting[w]` | a pass of `generateUpcoming`: its `now` and the lectures it has read and not yet written for |
| `pass[w]` | a pass of `NotificationDispatcher.tick`: its `now`, the candidate ids, the claims it read back, the one being delivered and what came of it |
| `request[a]` | a member of staff between the write of the lecture and that of its reminders |
| `resets` | for each lecture, how often its unsent rows were deleted (identity of rows only) |

`ReadLectures, WriteReminders` are a generation pass, one insert per lecture.
`StartPass` (`cancelOverdue`), `FindDue`, `ClaimDue`, `FetchClaimed` (the three
statements of `claimDue`), `Send`, `MarkSent`, `MarkFailed` are a delivery pass;
`MarkSentThrows` is a `markSent` that throws inside the `try`, so that a delivered
reminder is handled as an outage; `AbandonPass` is a `markFailed` that throws
because the row is gone, which ends the pass with the rest of its batch locked.
`Crash` is a process that dies and starts again, `RequestFails` a request that
dies after the first of its two writes. `UpdateSchedule, ResetForSchedule` and
`DeactivateSchedule, CancelForSchedule` are the two handlers of
`schedule.service`. The token of a pass is its worker's name; when the pass is
over its rows carry `Forgotten`, which no later pass reads back.

Abstracted: texts, payloads and device tokens; the recipients, one to a rule; the
order in which a pass delivers its batch (any); a lecture has one occurrence,
since a key names one. A statement that throws has not written.

### `Timetable` (`schedule.service`)

`BeginBooking, BeginEdit, BeginDeactivation` are the entries of the three
handlers with the checks made on the row as read; `CheckTeacher,
FindInstructorConflict, FindRoomConflict, Save, ResetReminders` their statements.
`late` is history: another request has written since this one began; `raced`
holds the lectures written by such a request.

### `Cohorts` (`student.service`, `utils/cohort`, `student.repository`)

Profiles are created (`CreateShell`), judged complete and saved by racing
requests. Sections are a word with or without a blank; the five readers (timetable,
door, reminders and roll, roster, material links) are operators.

### `Terms`, `Coursework` (`academic.service`, `assignment.service`)

Transactions at READ COMMITTED: the set a statement sees (`seen`), the rows it has
written (`mine`), the wait for a row lock, the second look at the row, and, for
terms, the partial unique index. `Coursework` is one offering with its cohorts,
teaching assignments, enrolments, one assignment with its targets and gradebook
line, and grades; `ever` is history.

### `EmailCodes` (`email-challenge.service`, `auth.service`)

Issuing (`FindLatest, CountSince, Retire, CreateCode, SendMail`, with `BurnCode` when the
mail fails), checking (`Verify, RecordMiss, Spend`) and the two flows that spend a
code (`FindAccount, UpdatePassword`; `BeginRegister, CreateUser`). A code is a row;
the six digits are whether they were right.

### `Accounts` (`admin.service`, `user.service`, `auth.service`, `lib/supabase-auth`)

`user` are the rows, `identity` and `had` the provider's side (the present and
the past addresses of an identity: a token may still claim an old one), `clerk`
the requests in flight. Decisions (`BeginDecision, Approve, Reject`), edits
(`BeginAdminUpdate, BeginOwnerUpdate, BeginProfile, CountOwners, MoveIdentity,
Write, Restore`), removal (`BeginRemove, Delete`), creation (`BeginCreate,
Provision, Insert, Undo`), and what people do with their identities (`SignUp,
ChangeAddress, BeginComplete, Complete, BeginSync, Sync`).

### `WebSession`, `Console` (`apps/web`)

`WebSession` is one tab: the token in storage, the provider's session, who is
shown, and the calls in flight with the token each carries; another tab may write
the token at any time. `crossed` is history: since the page was loaded
somebody signed in over a call in flight, left while a save was in flight, or
another tab acted. `Console` is any of twelve pages, told apart by
how the form is filled in, which fields it sends, which flag its button turns and
how its list can be filtered; `cache`, `form` and `writing` are the query cache,
the dialog and the calls that write. `behind`, `sound`, `typed` and `left` are
history.

### `Seeds` (`prisma/seed-campus`, `seed-identity`)

The sections of the seed in order, and inside `accounts` the loop over the
accounts with `ensureIdentity` and its clean-up. Runs may die, fail, be repeated or
meet; `EditRow` and the rival term are what is done to the campus meanwhile.

## Runs

The instances are small because the interesting cases need few actors; what they
lack in size the proofs cover.

| Run | Instance | What it shows |
|---|---|---|
| `term_time` | seven desks: one session, linked or ad hoc, two workers, one member of staff, one student who may change cohort; one session of a lecture edited between two slots, with codes that live two ticks; three terms and two registrars; an offering, its targets, and its grades with two tasks; codes for one address with two requests | types; no absence while open; a manual close stands; automatic closes honest, lateness decided by the arrival, rows final, scans from the room; the current term is handed over; coursework lawful, nothing for everybody by accident; codes proven, throttled and bounded but for the requests that race, retired for good |
| `attendance_siblings` | two sessions of one lecture opened by two members of staff, one failure; or the projector: interval 2, life 3, five ticks | the roll leaves nobody out; rows are on the timetable; the roll book is implemented; a dead code on the screen means a request that failed or was late |
| `portal` | two desks: two sessions, linked or ad hoc, one member of staff, batch of one, two failures, fairness; one member of each role and three changes | every session is closed and rolled in the end; one operator gets no second session for an occurrence; what is listed opens |
| `campus` | nine desks: decisions and identities with two clerks and four people; three times of day, two lectures, two planners; one pupil and two saves; one tab, two visitors, three tokens; two accounts seeded twice; twelve pages with one row, two texts, two filters and three writes; two weeks, two offsets, four places for the change, every instant around them; one student, two sessions and the roster | addresses are the provider's, no identity is abandoned, owners fall only to a race; clashes only from races; nobody rolled outside; the page shows whose token it carries; seeding makes the demo; a save takes nothing back; two passes settle, no week is dropped, weeks are kept apart, the report speaks of the right week; the figures add up |
| `reminders_delivery` | two processes, one lecture and rule, one edit, one failure, two attempts, fairness | types; claims are exclusive; what is settled stays so; every reminder settles |
| `attendance_duplicate` | **violated** | a duplicate session rolled before its sibling is scanned leaves a student ABSENT and PRESENT for one occurrence |
| `attendance_late_scan` | **violated** | an admitted scan loses to the absence when the session is closed and rolled before its insert |
| `reminders_cancelled` | **violated** | a lecture deactivated between the generator's read and its insert gets a reminder nothing cancels |
| `owner_remains` | **violated** | two owners who deactivate each other each count the other, and no active owner is left |
| `approved_is_let_in` | **violated** | a registration rejected and then approved is told that everything is available, and stays deactivated |
| `codes_limits` | **violated** | with two requests and two guesses that race, one address breaks the hourly limit, the gap, the number of tries and the rule that only the newest code works, all at once |
| `roll_follows_timetable` | **violated** | a section typed with a blank before it puts a student on the timetable and not on the roll |

Each violated run quotes in `PROJECT.json` the words that say otherwise. For four
of them what does hold is a theorem: with one operator there are no duplicates
(`OneOperatorOpensOnce`), owners fall only to such a race (`LastOwnerIsCounted`),
whoever is on the roll is on the timetable (`NobodyIsRolledOutside`), and the limits
on codes are overrun by at most one for each other request under way
(`ThrottlesHold`, `GuessesStayBounded`).

Some properties that pass except a race or a case by name. What they leave out is
not covered by them, and is this: a booking overtaken by another write
(`ClashesOnlyFromRaces`); a count of owners overtaken by another
(`OwnersFallOnlyToARace`, whose race is `owner_remains`); a form that was abandoned
and reopened, or filled from a list that was out of date (`UntouchedFieldsStand`);
an instructor whose department is not the offering's (`ListedOpens`, `Astray`); a
roster whose sessions were counted before a close (`FiguresAddUp`); signing in over
a call in flight, leaving with a save in flight, and other tabs (`ShownIsTheirs`);
a pass that outlives its lock (`ClaimsAreExclusive`, `SettledIsFinal`); a student
who changes cohort (`RollIsComplete`, `RowsMatchTimetable`).

### Bounds

*Attendance.* `MaxTime` stops the clock, `LastOpening` ends the opening of
sessions (so that what is opened has time to go stale and be swept before the
clock stops), `MaxEdits` counts edits of the schedule and of cohorts,
`MaxFailures` passes that die. A lecture lasts one tick or two and the grace is
one tick, so that before, during, after, stale and past are all reached. The
batch is one or two sessions, so that it can be full.

*Projector.* `LastTick` is two intervals and one tick: a code, its successor and the
successor's failure fit. The margin (1) is smaller than the interval (2), as 5 s
is than 25 s.

*Portal.* One of each role is enough because every check is about one member and
one row; `MaxChanges` is three because the longest way to a disagreement moves a
member, an appointment and a cohort. The desk of the sessions is bounded as
*Attendance* above.

*Reminders.* The reminder is due at 1, the lecture at 2, a lock lasts one tick, a
reminder is overdue two ticks after it was due, and the clock stops at 4:
unclaimed, claimed, lock expired, and overdue are all reached, with every
interleaving of the two passes and one edit. What a batch of several adds, the
rest of the list abandoned or overtaken, is in the specification and in the proofs,
which hold for every batch size. `PassLimit` is not a bound but an assumption on
the environment: no more than that passes between the start of a pass and its
end. `PassFitsLock` says it is at most `LockTimeout`. The code has a lock of five
minutes and a batch of at most a hundred and nothing that stops a pass at the end
of its lock: beyond it, two processes may deliver one reminder, and
`ClaimsAreExclusive` is not claimed.

*Term time.* Two requests at once in every desk; the lecture is either edited
and swept by one worker at a time (`OverHours`), or swept by two and not edited
(`OverWorkers`); `OverTerms` lets a request say
five things of a term (make it current with dates, keep it, make it current alone,
end it, move one date); the three coursework desks split one module by what
writes: the offering and its people (`OverOffering`), the two sets of cohorts
(`OverTargets`), the grades (`OverGrades`). `Dates`, `Scores`, `Sets` have two or
three members, so that a date, a maximum and a set can be wrong. Codes: an hour, a
cooldown and a life of one minute, one attempt and one code per hour, so that each
limit is met by the second request, and three codes, one more than the limit with
both requests let through.

*Campus.* For the report a tick is half the early margin; a week of twelve ticks is
just longer than `WeekIsLong` asks, and the change of offset falls in the night, at
the start of either lecture or between. `OverDecisions` and `OverIdentities` split `Accounts` by whether the
provider is asked: the first leaves the identities alone, the second decides about
nobody. `OverTimetable` lets one instructor leave and the reminders be queued once,
after the first save. `OverWeb` stops at the first step that sets `crossed`, but
for the reload that ends it. `OverConsole` types into one field, writes from
elsewhere only under an open form that is sound, and gives three writes to the page
of links, two to the others. `MaxSaves`, `MaxTokens`, `MaxStarts`, `MaxMishaps`
and `MaxWrites` are named in their modules. None of these restrictions is in the
modules that the theorems are about.

`CHECK_DEADLOCK FALSE` is in the five runs whose system may rightly stop: `campus`,
where the starts of the seeds are used up, the clock of the report reaches the last
instant, and owners who have deactivated each other leave nobody to decide;
`owner_remains` and `approved_is_let_in`, for the last of these reasons; `portal`,
where the changes of the reach desk are used up; and `codes_limits`, where the clock
stops. Everywhere else deadlock is checked.

### Fairness

Only in the two `FairSpec`s. For `portal`, `WF(Tick)`: time passes.
`WF(WorkerStep(w))`: the worker's timer fires again and again
(`attendance.worker.ts`, `setInterval` and the pass on boot) and each await of a
pass completes; a pass that does not complete is `PassFails`, bounded by
`MaxFailures` because liveness is not claimed of a database that never works.
No fairness is assumed of staff or students.

For `reminders_delivery`, the same: `WF(Tick)`, and `WF(Deliver(w))` because the
delivery timer of each process fires again and again (`notification.worker.ts`,
`setInterval` and a pass on boot) and each await of a pass settles. Nothing is
assumed of the generator or of staff.

## Proofs

Every safety property that a passing run checks is also a theorem: for any sets of
actors, rows and requests and any bounds, from the named assumptions alone. The
argument is always the same: an inductive invariant, its base, one lemma per
action, and the property read off it.

| Module | Proves about | Theorems |
|---|---|---|
| `AttendanceInvariant` | `Attendance` | `Inductive`, `TypeCorrect`, `NeverAbsentWhileOpen` |
| `AttendanceProofs` | `Attendance` | `RowsStayFinal`, `LifecycleStaysOneWay`, `ManualCloseIsKept`, `LateStaysDeserved`, `AutoCloseStaysHonest`, `RollStaysComplete`, `RowsStayOnTimetable`, `ScansStayInTheRoom`, `OneOperatorOpensOnce` |
| `AttendanceRefinement` | `Attendance`, `RollBook` | `KeepsRollBook` |
| `OccurrencesProofs` | `CampusClock`, `Occurrences` | `TwoPassesAreEnough`, `WeeksKeptApart`, `EveryWeekIsReported`, `ReportsTheirOwnWeek` |
| `PortalProofs` | `Projector`, `Figures`, `Reach` | `NoDeadCodeWithoutTrouble`, `FiguresAlwaysAddUp`, `WhatIsListedOpens` |
| `RemindersProofs` | `Reminders` | `RemindersTypeCorrect`, `ClaimsStayExclusive`, `SettledStaysFinal` |
| `TermProofs` | `Terms`, `Coursework`, `EmailCodes` | `TheTermIsHandedOver`, `StandingWasOnceLawful`, `OpenedToAllOnPurpose`, `RetiredCodesStayRetired`, `GuessesStayBounded`, `NothingGoesUnproven`, `ThrottlesHold` |
| `CampusProofs` | `Cohorts`, `Timetable`, `Accounts`, `Console`, `WebSession`, `Seeds` | `NobodyIsRolledOutside`, `SlotsAreKept`, `AddressesAreProven`, `IdentitiesHaveTheirAccount`, `LastOwnerIsCounted`, `SavesTakeNothingBack`, `TheTokenIsTheirs`, `SeedsLeaveTheDemo` |

`PROJECT.json` names the property of each.

### Assumptions

`WindowAssumption` (the configured minutes are naturals, the default length and
late margin positive) and one assumption per module that types its constants:
sentinels are not members, slots are slots, bounds are naturals. Beyond types:

* `WeekIsLong` (`Occurrences`): a week, give or take a change of offset, exceeds
  twice the late margin plus the early one; the code's 7 days against hours.
* `OffsetsAreNear` (`Occurrences`): any two offsets differ by at most two days.
  The walk of `occurrencesBetween` starts on the local day of `from` and goes on for
  two days more than the horizon is long, which is why this suffices; offsets on
  earth differ by 26 hours at most.
* `PassFitsLock` (`Reminders`): see the bounds above.
* `ProjectorAssumption`: the margin is positive and shorter than the interval.
* `TimetableAssumption`: the timetable one begins with has no clash and no
  lecture that ends before it starts.
* `AccountsAssumption`: the rows one begins with have different addresses.
* `OneOperatorOpensOnce` has the hypothesis `OneOperator`, that there is at most one
  member of staff; `attendance_duplicate` shows that with two it fails.

The Boolean configuration (`AllowUnlinked`, `RequireTicket`, `Builds`) and all
sizes are free.

### Attendance

`IInv` is `TypeOK` and `NoAbsenceWhileOpen` with what makes them inductive:

* `RequestsInFlight`: a close in flight is of a session that exists, or
  `updateStatus` could create one;
* `ScansInFlight`: a scan in flight is of an existing session and arrived no
  later than now;
* `PassesInFlight`: everything a pass means to roll is CLOSED, and everything it
  means to close exists. This is where the status in the `WHERE` of
  `findClosedAwaitingSweep` and the finality of CLOSED are needed: the list is
  stale by the time it is used, and is still right;
* `RowsBelong`: a session that does not exist has no code and no row.

The lemmas say which statement may write which row (`SessionWriters`,
`RowWriters`), what can happen to one session (`SessionUpdate`: opened, closed
by hand, closed by a sweep, rolled) and to one attendance row (`RowStep`), and
every theorem reads its property off those, some with an invariant of their own:
`StaleIsPast` (what a pass means to close ended more than the grace ago) for
automatic closes, `RollInv` (whoever is no longer among the missing is
accounted for) for the completeness of the roll, `TimetableInv` for the
timetable, `RoomInv` (codes are signed and scans admitted during the lecture)
for scans. `RollIsComplete` and `RowsMatchTimetable` speak of students outside
`Movers`: a student whose cohort changes after the roll was called is rightly
neither on it nor off it.

`DeskInv` is for the duplicate guard: sessions of one lecture are further apart
than `OpenLate` (`OpenedApart`), and a request past its check knows that every
session of its lecture is already too old to be a twin of the one it is about to
insert (`DeskKnows`), although the clock and the insert come later than the read.
Time helps: it only makes them older. The second operator would not.

`KeepsRollBook` maps every statement to a page turned, a scan entered, a set of
absences entered, or a stutter.

### Report and clock

Two passes of the conversion settle wherever the wall time is shown at all
(`Settled`), by the four places the instant can have to the change. That no week is
dropped needs that the day on which the clock shows a lecture is within the days
walked (`DaysLater`, `DayOfWall`, `WalkIsWhole`): division by a symbolic length is
handled by the quotient's bounds. An instant is only promised if it is the one at
which the slot is shown; an hour that is repeated has two, of which the conversion
finds one.

The report takes the earliest session that belongs, a `CHOOSE`: that there is an
earliest one among any that are opened would be induction over a finite set, which
is out of reach here. `EarliestExists` states it of the states instead and is
inductive over steps: a session is opened at the present clock, so it is never
earlier than another.

### Reminders

`Inv` is `TypeOK` and `ClaimsAreExclusive` with:

* `Timely`: a pass is no older than `PassLimit`;
* `LocksAreHeld`: a row locked with the token of a live pass was locked at the
  time that pass started, and is on its list or about to be read. With `Timely`
  and `PassFitsLock` this is why no other pass finds that row claimable
  (`TakesFreeRows`), the one step on which exclusion rests;
* `ClaimsAreKnown`, `RowsAreCounted`: the claims of a pass name different rows,
  each there or deleted by a reset since; a row written on the same key later is
  younger, so a claim on a deleted row is never taken for one on the new row
  (`WriteKeeps`, `ResetKeeps`).

That settled rows stay settled follows: a pass records only what it holds, and
what it holds is PENDING and its own, or was CANCELLED under it.

### Terms, coursework, codes

`TermsInv`: one current term, nobody clears others but for a term it makes
current, and what is written has both its dates. The step that matters is
`SetTermKeeps`, where the index refuses.

`CourseworkInv` is `CourseworkTypeOK`, `TasksLawful` and `RowsLawful`. `Lawful` says
of a request in flight what its checks have established *once*: its set was within
what has been offered, its student was eligible or enrolled, its score within a
maximum the assignment has had. The rules move under it, the history `ever` only
grows (`NothingTakenBack`), so what it writes later is still lawful in that sense.
The stronger reading, lawful *now*, is false, and the code does not promise it.
`OpenedToAllOnPurpose` follows from the same invariant: a deletion is not seen by
others before its commit, and what is removed at commit is what the transaction saw.

`CodesInv` types the rows and says what each request knows (`Sound`). On it, by
counting: `GuessesReserved` keeps a place for each request that has read a code and
still has to record its miss, and `HourHasRoom` and `CooldownHasRoom` one for each
request a throttle has let through, for every window that is still open; so
the overshoot is at most one for each request under way. `ResetsArePaid`
counts spent codes against passwords set and requests on their way to set one;
`SpendingRetires` and `TicketsAreEarned` make spending final and tickets honest.

### Projector, figures, access

`ProjectorInv`: a page that is rotating has asked again after each interval
(`AsksInTime`), answers come after their request (`AnswersInTime`), and what is
shown is what was answered last (`LastAnswered`). A code that has run out was signed
`CodeLife` ago or more, so the next request is past its margin: had it been answered in
time, its code would be shown.

`FiguresInv`: what has been read is still true because a closed session's counts
only stand (`CountedForGood`), and it covers what stood when the export began.

`WhatIsListedOpens` needs of the states only `ReachTypeOK`, kept by every change
staff and students may make; the work is in the equivalence of each list's scope with its
check, for every role, where they were written separately. The exception `Astray`
is part of the property.

### Office, web and seeds

`TimetableInv`: while no other request has written since a request began, what
it read and checked still holds (`CheckedInTime`), so the row it writes clashes with
none.

`AccountsInv` has the three invariants and `ClerksKnow`: what a request in flight
relies on (`Knows`: the row it was begun for has been there, the identity it holds
is that row's or was left behind by a removal, the address it is about to write is
one the identity has had), and `HasCounted`: whoever is about to put an owner down
has counted another, or the count has been beaten. Every step obeys `Grows`
(addresses had and identities excused only grow, a row keeps its link), so the
knowledge of the *other* requests survives it (`KnowledgeStays`, `CountStays`).

`ConsoleInv`: a list that is settled is what is served (`ListsAreServed`), a call
that is sound is alone in the air (`SoundCallsAreAlone`), and both it and the form it
comes from say what the server says wherever nobody typed (`CallsSayAsServed`,
`FormSaysAsServed`).

`WebInv`: unless `crossed`, the user shown owns the token (`ShownOwnsTheToken`), and
a token without a user stays only while a profile is awaited (`TokenIsAwaited`).
What makes this inductive is what each call in flight carries: a restoration, a
sign-in or the profile after it is alone in the air, while nobody is shown, and
carries a token of whoever owns the stored one (`ComingInIsAlone`, `LoadingIsQuiet`);
a profile being saved carries a token of the user who is shown (`SavesAreTheirs`).
`crossed` says how the user and the tabs acted, not what came
of it: none of the steps that take an answer, a refusal, a refresh or an expiry sets it.

`SeedsInv`: an identity a run may delete is one it made itself and, unless two runs
met, no account is linked to it (`RunKnows`); an undisturbed run finds behind it
what it has written (`FindsItsWork`).

### Only model-checked

`ForgottenSessionSettles`, `ClosedSessionSettles` and `RemindersSettle`: liveness
under fairness is out of the prover's reach. The violated runs, by nature. The
compositions of `MCTerm`, `MCCampus`, `MCPortal` and `MCHall`, whose steps are steps
of the modules proved about.

## Found on the way

Besides the seven findings of `PROJECT.json`, things the models made visible, and
that are modelled as they are:

* A closed session's code stays on the projector until the page is left: nothing
  makes the page read the session again.
* The exported attendance may exceed 100 % when the sessions held are counted
  before a close and those attended after it (`FiguresAddUp` excepts this order).
* `findAttendeesOfCourse` includes students whose only rows are absences, although
  its comment (`student.repository.ts` 142-148) speaks of who was really there.
* Only the seeds write `LectureSchedule.teachingAssignmentId`: a lecture booked in the
  application gives its instructor no audience to publish to.
* The Cancel button of five dialogs (materials, courses, departments, timetable,
  assignments) does not forget the row, so the form opens again with what was
  typed and given up.
* A save that succeeds closes whichever dialog is open by then.
* An administrator's edit that names a title for a student is refused after the
  identity's address has been moved at the provider.
* An owner who sets `isVerified` leaves the status PENDING.
* A request with a token that still claims an old address takes the row's address
  back to it.
* Removing a user, or creating the administrator of an organization, leaves
  the provider and the database in disagreement.
* A maximum may be lowered below grades already given, and a grade saved again
  without publication is taken back from the student.
* A manual close that raced the sweep rewrites AUTO_STALE as MANUAL.
* Two seeds that meet may leave an account linked to an identity that was deleted.

## Not modelled

* HTTP surface: parsing, validation, rendering of errors; the rate limiter counts in
  memory, per process.
* Mail transport, metrics, audit log, logging: output and read-only reports.
* Configuration and deployment: read once; constraints of the schema appear where
  they are relied on.
* Mobile client: its scans are requests that may arrive at any time.
* Within modelled components: paginated listings; the inbox, device registration and
  the development-only simulator of reminders; `prune` of day-old codes; passwords and
  sessions of the password provider; departments and cohorts as rows of their own;
  titles and addresses of links; guarded create, read and update of courses and
  organizations; creation dialogs, downloads and rendering of the console; what
  `assertSeedAllowed` refuses and `rebuild-database`. Months and leap days only label
  the local days. A database that commits a statement and then reports its failure is
  modelled for the console's calls alone.

## What could come next

An abstract specification of reminders (waiting, then sent, given up or dropped)
with its refinement; a bound on the sends of one reminder when nothing dies; two
weeks of one slot; creation and deletion of rows in `Console`.
