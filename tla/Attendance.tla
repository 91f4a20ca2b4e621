----------------------------- MODULE Attendance -----------------------------
(***************************************************************************)
(* The attendance core: staff open and close sessions, students scan the   *)
(* projected code, and the sweep closes forgotten sessions and then calls  *)
(* the roll, writing ABSENT for whoever is missing.                        *)
(*                                                                         *)
(* Every handler is a sequence of awaited database statements, none of     *)
(* them in a transaction, so each statement is one action here and the     *)
(* handler's local variables are state.  Several processes may run the     *)
(* sweep at once: the code's only mutual exclusion is a flag per process.  *)
(***************************************************************************)
EXTENDS SessionWindow, FiniteSets

CONSTANTS
  Students, Staff, Lectures, SessionIds,
  Workers,          \* API processes, each with its own attendance worker
  Slots,            \* the slots a lecture may be given by a schedule edit
  AllowUnlinked,    \* SCAN_ALLOW_UNLINKED_SESSIONS
  TokenLife,        \* life of a QR token (expiresIn of generateQrToken)
  BatchSize,        \* attendanceConfig.batchSize
  Openable,         \* what is opened: lectures, NoLecture for an ad-hoc session
  Movers,           \* students whose cohort a profile or schedule edit changes
  MaxTime,          \* bound: the clock stops here
  LastOpening,      \* bound: no session is opened after this instant
  MaxEdits,         \* bound: schedule edits
  MaxFailures       \* bound: passes that die half-way

CONSTANTS NoLecture, NoSession

ASSUME AttendanceAssumption ==
  /\ NoLecture \notin Lectures
  /\ NoSession \notin SessionIds
  /\ Slots \subseteq Slot /\ Slots # {}
  /\ Openable \subseteq Lectures \union {NoLecture}
  /\ Movers \subseteq Students
  /\ AllowUnlinked \in BOOLEAN
  /\ TokenLife \in Nat /\ BatchSize \in Nat \ {0}
  /\ MaxTime \in Nat /\ LastOpening \in Nat
  /\ MaxEdits \in Nat /\ MaxFailures \in Nat

Never == -1
Time == 0..MaxTime
MaybeTime == Time \union {Never}

VARIABLES
  now,        \* the clock every process reads
  lecture,    \* LectureSchedule rows: [active, slot]
  profile,    \* for each student, the lectures addressed to their cohort
  session,    \* Session rows
  qr,         \* for each session, when its latest live QR token was signed
  row,        \* Attendance rows, one cell per [studentId, sessionId]
  request,    \* what each member of staff has in flight
  scan,       \* what each student has in flight
  sweep,      \* each worker's pass
  edits, failures

vars == <<now, lecture, profile, session, qr, row, request, scan, sweep,
          edits, failures>>
rows == <<lecture, profile, session, qr, row>>

-----------------------------------------------------------------------------
(* Stored rows and handler-local state.                                    *)

Unopened == [status |-> "NONE", lecture |-> NoLecture, startTime |-> Never,
             endTime |-> Never, closeReason |-> "NONE", sweptAt |-> Never]

\* An open session has no end, no closeReason and no roll; a closed one has an
\* end and a reason.
OpenRow ==
  [status : {"ACTIVE"}, lecture : Lectures \union {NoLecture},
   startTime : Time, endTime : {Never}, closeReason : {"NONE"},
   sweptAt : {Never}]
ClosedRow ==
  [status : {"CLOSED"}, lecture : Lectures \union {NoLecture},
   startTime : Time, endTime : Nat, closeReason : {"MANUAL", "AUTO_STALE"},
   sweptAt : MaybeTime]
SessionRow == {Unopened} \union OpenRow \union ClosedRow

Opened(l, t) == [Unopened EXCEPT !.status = "ACTIVE", !.lecture = l,
                                 !.startTime = t]
Closed(r, t, reason) == [r EXCEPT !.status = "CLOSED", !.endTime = t,
                                  !.closeReason = reason]

Attended == {"PRESENT", "LATE"}
NoRow == [status |-> "NONE", scanTime |-> Never]
AttendanceRow ==
  {NoRow} \union [status : {"ABSENT"} \union Attended, scanTime : Time]

\* createSession and closeSession, by the statement that comes next.
NoRequest == [pc |-> "idle", lecture |-> NoLecture, session |-> NoSession,
              at |-> Never]
Request ==
  [pc : {"idle", "load", "check", "create", "close"},
   lecture : Lectures \union {NoLecture},
   session : SessionIds \union {NoSession},
   at : MaybeTime]

\* scanAttendance, by the statement that comes next; `at` is its `now`.
NoScan == [pc |-> "idle", session |-> NoSession, at |-> Never, token |-> Never]
Scan ==
  [pc : {"idle", "session", "cohort", "existing", "insert"},
   session : SessionIds \union {NoSession},
   at : MaybeTime,
   token : MaybeTime]

\* runSweep: the sessions still to close (with the end computed for each), the
\* closed ones still to roll, and the roll being called.  `missing` starts as
\* the cohort and loses everybody the later reads account for.
NoSweep == [pc |-> "idle", at |-> Never, stale |-> {}, pending |-> {},
            current |-> NoSession, missing |-> {}, siblings |-> {}]
Sweep ==
  [pc : {"idle", "close", "roll", "recorded", "siblings", "attended",
         "absences", "mark"},
   at : MaybeTime,
   stale : SUBSET [id : SessionIds, endsAt : Nat],
   pending : SUBSET SessionIds,
   current : SessionIds \union {NoSession},
   missing : SUBSET Students,
   siblings : SUBSET SessionIds]

TypeOK ==
  /\ now \in Time
  /\ lecture \in [Lectures -> [active : BOOLEAN, slot : Slots]]
  /\ profile \in [Students -> SUBSET Lectures]
  /\ session \in [SessionIds -> SessionRow]
  /\ qr \in [SessionIds -> MaybeTime]
  /\ row \in [Students -> [SessionIds -> AttendanceRow]]
  /\ request \in [Staff -> Request]
  /\ scan \in [Students -> Scan]
  /\ sweep \in [Workers -> Sweep]
  /\ edits \in 0..MaxEdits
  /\ failures \in 0..MaxFailures

\* The slot behind a session, as the joined lectureSchedule gives it.
SlotOf(x) ==
  IF session[x].lecture = NoLecture THEN NoSlot
  ELSE lecture[session[x].lecture].slot

StateAt(x, t) ==
  SessionState(session[x].status, session[x].startTime, SlotOf(x), t)

\* findOpenedForScheduleBetween(l, sameOccurrenceWindow(anchor)): whatever
\* their status.
OpenedNearActive(l, anchor) ==  \* mutant: only a session still running counts
  {x \in SessionIds : /\ session[x].status = "ACTIVE"
                      /\ session[x].lecture = l
                      /\ SameOccurrenceWindow(anchor, session[x].startTime)}
OpenedNear(l, anchor) ==
  {x \in SessionIds : /\ session[x].status # "NONE"
                      /\ session[x].lecture = l
                      /\ SameOccurrenceWindow(anchor, session[x].startTime)}

\* `orderBy key asc, take BatchSize`, ties broken either way.
IsBatch(batch, candidates, key) ==
  /\ batch \subseteq candidates
  /\ IF Cardinality(candidates) <= BatchSize
       THEN batch = candidates
       ELSE /\ Cardinality(batch) = BatchSize
            /\ \A b \in batch, c \in candidates \ batch : key[b] <= key[c]
-----------------------------------------------------------------------------
Init ==
  /\ now = 0
  /\ lecture \in [Lectures -> [active : {TRUE}, slot : Slots]]
  /\ profile \in [Students -> SUBSET Lectures]
  /\ session = [x \in SessionIds |-> Unopened]
  /\ qr = [x \in SessionIds |-> Never]
  /\ row = [s \in Students |-> [x \in SessionIds |-> NoRow]]
  /\ request = [u \in Staff |-> NoRequest]
  /\ scan = [s \in Students |-> NoScan]
  /\ sweep = [w \in Workers |-> NoSweep]
  /\ edits = 0
  /\ failures = 0

\* A code that has outlived its TokenLife is as good as no code.
Tick ==
  /\ now < MaxTime
  /\ now' = now + 1
  /\ qr' = [x \in SessionIds |-> IF now' < qr[x] + TokenLife THEN qr[x]
                                 ELSE Never]
  /\ UNCHANGED <<lecture, profile, session, row, request, scan, sweep, edits,
                 failures>>

-----------------------------------------------------------------------------
(* Opening a session: SessionService.createSession.                        *)

RequestStep(u, next) ==
  /\ request' = [request EXCEPT ![u] = next]
  /\ UNCHANGED <<now, scan, sweep, edits, failures>>

\* A refusal (409, 404) or a failed statement: the handler ends, having
\* written nothing it had not already written.
RequestEnds(u) ==
  /\ request[u].pc # "idle"
  /\ RequestStep(u, NoRequest)
  /\ UNCHANGED rows

\* An ad-hoc session names no lecture and is checked against nothing.
BeginOpen(u, l) ==
  /\ request[u].pc = "idle"
  /\ now <= LastOpening
  /\ RequestStep(u, [pc |-> IF l = NoLecture THEN "create" ELSE "load",
                     lecture |-> l,
                     session |-> NoSession,
                     at |-> IF l = NoLecture THEN Never ELSE now])
  /\ UNCHANGED rows

\* loadScheduleForOpening: a cancelled lecture cannot be opened.
LoadSchedule(u) ==
  /\ request[u].pc = "load"
  /\ lecture[request[u].lecture].active
  /\ RequestStep(u, [request[u] EXCEPT !.pc = "check"])
  /\ UNCHANGED rows

\* assertOccurrenceNotAlreadyOpened: a read, and nothing holds it until the
\* insert that follows.
CheckOccurrence(u) ==
  /\ request[u].pc = "check"
  /\ OpenedNear(request[u].lecture, request[u].at) = {}
  /\ RequestStep(u, [request[u] EXCEPT !.pc = "create", !.at = Never])
  /\ UNCHANGED rows

\* startTime is the database's clock at the insert.
CreateSession(u) ==
  /\ request[u].pc = "create"
  /\ now <= LastOpening
  /\ \E x \in SessionIds :
       /\ session[x].status = "NONE"
       /\ session' = [session EXCEPT ![x] = Opened(request[u].lecture, now)]
  /\ RequestStep(u, NoRequest)
  /\ UNCHANGED <<lecture, profile, qr, row>>

(* Closing one: SessionService.closeSession.                               *)

BeginClose(u, x) ==
  /\ request[u].pc = "idle"
  /\ session[x].status = "ACTIVE"
  /\ RequestStep(u, [NoRequest EXCEPT !.pc = "close", !.session = x])
  /\ UNCHANGED rows

\* updateStatus matches on the id alone.
CloseSessionUnstated(u) ==  \* mutant: the optional closeReason is not passed
  /\ request[u].pc = "close"
  /\ session' = [session EXCEPT ![request[u].session] =
                                  Closed(@, now, @.closeReason)]
  /\ RequestStep(u, NoRequest)
  /\ UNCHANGED <<lecture, profile, qr, row>>
CloseSession(u) ==
  /\ request[u].pc = "close"
  /\ session' = [session EXCEPT ![request[u].session] =
                                  Closed(@, now, "MANUAL")]
  /\ RequestStep(u, NoRequest)
  /\ UNCHANGED <<lecture, profile, qr, row>>

\* getQrToken: a code is signed only for a session that can be scanned.  The
\* latest is kept: one signed before it is as good while it lives, and runs out
\* sooner.
MintQrToken(x) ==
  /\ session[x].status # "NONE"
  /\ IsScannable(session[x].status, session[x].startTime, SlotOf(x), now)
  /\ qr' = [qr EXCEPT ![x] = now]
  /\ UNCHANGED <<now, lecture, profile, session, row, request, scan, sweep,
                 edits, failures>>
-----------------------------------------------------------------------------
(* Scanning: AttendanceService.scanAttendance.                             *)

ScanStep(s, next) ==
  /\ scan' = [scan EXCEPT ![s] = next]
  /\ UNCHANGED <<now, lecture, profile, session, qr, request, sweep, edits,
                 failures>>

ScanEnds(s) ==
  /\ scan[s].pc # "idle"
  /\ ScanStep(s, NoScan)
  /\ UNCHANGED row

\* The handler's `now` is read on arrival, before its first query.
PresentToken(s, x) ==
  /\ scan[s].pc = "idle"
  /\ qr[x] # Never
  /\ ScanStep(s, [pc |-> "session", session |-> x, at |-> now,
                  token |-> qr[x]])
  /\ UNCHANGED row

\* findForScan, then every check that needs only that snapshot: the token is
\* still alive, and the session was IN_PROGRESS when the request arrived.
\* An unlinked session has no cohort to ask about.
ReadSessionByStatus(s) ==  \* mutant: ACTIVE is taken for scannable
  LET x == scan[s].session
      linked == session[x].lecture # NoLecture
  IN /\ scan[s].pc = "session"
     /\ now < scan[s].token + TokenLife
     /\ linked \/ AllowUnlinked
     /\ session[x].status = "ACTIVE"
     /\ ScanStep(s, [scan[s] EXCEPT !.pc = IF linked THEN "cohort"
                                           ELSE "existing"])
     /\ UNCHANGED row
ReadSession(s) ==
  LET x == scan[s].session
      linked == session[x].lecture # NoLecture
  IN /\ scan[s].pc = "session"
     /\ now < scan[s].token + TokenLife
     /\ linked \/ AllowUnlinked
     /\ IsScannable(session[x].status, session[x].startTime, SlotOf(x),
                    scan[s].at)
     /\ ScanStep(s, [scan[s] EXCEPT !.pc = IF linked THEN "cohort"
                                           ELSE "existing"])
     /\ UNCHANGED row

\* assertEligible: the student's stored cohort is the lecture's.
CheckCohortSkipped(s) ==  \* mutant: eligibility is not checked
  /\ scan[s].pc = "cohort"
  /\ ScanStep(s, [scan[s] EXCEPT !.pc = "existing"])
  /\ UNCHANGED row
CheckCohort(s) ==
  /\ scan[s].pc = "cohort"
  /\ session[scan[s].session].lecture \in profile[s]
  /\ ScanStep(s, [scan[s] EXCEPT !.pc = "existing"])
  /\ UNCHANGED row

CheckExisting(s) ==
  /\ scan[s].pc = "existing"
  /\ row[s][scan[s].session] = NoRow
  /\ ScanStep(s, [scan[s] EXCEPT !.pc = "insert"])
  /\ UNCHANGED row

\* The unique key [studentId, sessionId] refuses a second row; punctuality is
\* measured at arrival, scanTime is the database's clock at the insert.
InsertAttendanceLate(s) ==  \* mutant: punctuality is measured at the insert
  LET x == scan[s].session
  IN /\ scan[s].pc = "insert"
     /\ row[s][x] = NoRow
     /\ row' = [row EXCEPT
                  ![s][x] = [status |-> Punctuality(session[x].startTime, now),
                             scanTime |-> now]]
     /\ ScanStep(s, NoScan)
InsertAttendance(s) ==
  LET x == scan[s].session
  IN /\ scan[s].pc = "insert"
     /\ row[s][x] = NoRow
     /\ row' = [row EXCEPT
                  ![s][x] = [status |-> Punctuality(session[x].startTime,
                                                    scan[s].at),
                             scanTime |-> now]]
     /\ ScanStep(s, NoScan)
-----------------------------------------------------------------------------
(* The sweep: AttendanceLifecycleService.runSweep, driven by the worker.   *)

SweepStep(w, next) ==
  /\ sweep' = [sweep EXCEPT ![w] = next]
  /\ UNCHANGED <<now, lecture, profile, qr, request, scan, edits>>

\* findOpenForStaleCheck.  Staleness and the recorded end are both computed
\* from this one read.
StartPass(w) ==
  LET open == {x \in SessionIds : session[x].status = "ACTIVE"}
      opened == [x \in SessionIds |-> session[x].startTime]
  IN /\ sweep[w].pc = "idle"
     /\ \E batch \in SUBSET open :
          /\ IsBatch(batch, open, opened)
          /\ SweepStep(w,
               [NoSweep EXCEPT
                  !.pc = "close", !.at = now,
                  !.stale = {[id |-> x,
                              endsAt |-> EndsAt(session[x].startTime,
                                                SlotOf(x))] :
                             x \in {y \in batch :
                                      IsStale(session[y].status,
                                              session[y].startTime,
                                              SlotOf(y), now)}}])
     /\ UNCHANGED <<session, row, failures>>

\* closeIfOpen: the status is in the WHERE.
CloseIfOpenLate(x, endsAt) ==  \* mutant: endTime is when the sweep noticed
  IF session[x].status = "ACTIVE"
    THEN [session EXCEPT ![x] = Closed(@, now, "AUTO_STALE")]
    ELSE session
CloseIfOpenBlind(x, endsAt) ==  \* mutant: the status is not in the WHERE
  [session EXCEPT ![x] = Closed(@, endsAt, "AUTO_STALE")]
CloseIfOpen(x, endsAt) ==
  IF session[x].status = "ACTIVE"
    THEN [session EXCEPT ![x] = Closed(@, endsAt, "AUTO_STALE")]
    ELSE session

CloseStale(w) ==
  /\ sweep[w].pc = "close"
  /\ \E e \in sweep[w].stale :
       /\ session' = CloseIfOpen(e.id, e.endsAt)
       /\ SweepStep(w, [sweep[w] EXCEPT !.stale = @ \ {e}])
  /\ UNCHANGED <<row, failures>>

\* findClosedAwaitingSweep.
AwaitingSweepOpen ==  \* mutant: the status is not in the WHERE
  {x \in SessionIds : session[x].status # "NONE" /\ session[x].sweptAt = Never}
AwaitingSweepManual ==  \* mutant: sessions the sweep itself closed are missed
  {x \in SessionIds : /\ session[x].closeReason = "MANUAL"
                      /\ session[x].sweptAt = Never}
AwaitingSweep ==
  {x \in SessionIds : session[x].status = "CLOSED" /\ session[x].sweptAt = Never}

ListAwaiting(w) ==
  LET ended == [x \in SessionIds |-> session[x].endTime]
  IN /\ sweep[w].pc = "close"
     /\ sweep[w].stale = {}
     /\ \E batch \in SUBSET AwaitingSweep :
          /\ IsBatch(batch, AwaitingSweep, ended)
          /\ SweepStep(w, [sweep[w] EXCEPT !.pc = "roll", !.pending = batch])
     /\ UNCHANGED <<session, row, failures>>

\* sweepOne begins: findCohort for a linked session; a session with no
\* lecture has no roll to call and is marked at once.  The branch for a lecture
\* of another organization is left out: a session is opened from a lecture of its
\* own, and neither moves.
CallRollLinkedOnly(w) ==  \* mutant: an unlinked session is skipped, unmarked
  /\ sweep[w].pc = "roll"
  /\ \E x \in sweep[w].pending :
       SweepStep(w,
         IF session[x].lecture = NoLecture
           THEN [sweep[w] EXCEPT !.pending = @ \ {x}]
           ELSE [sweep[w] EXCEPT
                   !.pc = "recorded", !.current = x,
                   !.missing = {s \in Students :
                                  session[x].lecture \in profile[s]}])
  /\ UNCHANGED <<session, row, failures>>
CallRoll(w) ==
  /\ sweep[w].pc = "roll"
  /\ \E x \in sweep[w].pending :
       SweepStep(w,
         [sweep[w] EXCEPT
            !.pc = IF session[x].lecture = NoLecture THEN "mark"
                   ELSE "recorded",
            !.current = x,
            !.missing = {s \in Students : session[x].lecture \in profile[s]}])
  /\ UNCHANGED <<session, row, failures>>

\* findStudentIdsBySession.
ReadRecorded(w) ==
  /\ sweep[w].pc = "recorded"
  /\ SweepStep(w, [sweep[w] EXCEPT
       !.pc = "siblings",
       !.missing = {s \in @ : row[s][sweep[w].current] = NoRow}])
  /\ UNCHANGED <<session, row, failures>>

\* attendedElsewhereInOccurrence, first query.
ReadSiblings(w) ==
  LET x == sweep[w].current
  IN /\ sweep[w].pc = "siblings"
     /\ SweepStep(w, [sweep[w] EXCEPT
          !.pc = "attended",
          !.siblings = OpenedNear(session[x].lecture, session[x].startTime)
                         \ {x}])
     /\ UNCHANGED <<session, row, failures>>

\* attendedElsewhereInOccurrence, second query.
ReadAttendedAny(w) ==  \* mutant: an ABSENT row on a sibling is evidence too
  /\ sweep[w].pc = "attended"
  /\ SweepStep(w, [sweep[w] EXCEPT
       !.pc = "absences",
       !.missing = {s \in @ : \A y \in sweep[w].siblings :
                                row[s][y] = NoRow}])
  /\ UNCHANGED <<session, row, failures>>
ReadAttended(w) ==
  /\ sweep[w].pc = "attended"
  /\ SweepStep(w, [sweep[w] EXCEPT
       !.pc = "absences",
       !.missing = {s \in @ : \A y \in sweep[w].siblings :
                                row[s][y].status \notin Attended}])
  /\ UNCHANGED <<session, row, failures>>

\* createAbsences: one INSERT, skipping every pair that already has a row.
OverwriteAbsences(x, absentees, at) ==  \* mutant: no skipDuplicates
  [s \in Students |->
     IF s \in absentees
       THEN [row[s] EXCEPT ![x] = [status |-> "ABSENT", scanTime |-> at]]
       ELSE row[s]]
InsertAbsences(x, absentees, at) ==
  [s \in Students |->
     IF s \in absentees /\ row[s][x] = NoRow
       THEN [row[s] EXCEPT ![x] = [status |-> "ABSENT", scanTime |-> at]]
       ELSE row[s]]

WriteAbsences(w) ==
  /\ sweep[w].pc = "absences"
  /\ row' = InsertAbsences(sweep[w].current, sweep[w].missing, sweep[w].at)
  /\ SweepStep(w, [sweep[w] EXCEPT !.pc = "mark"])
  /\ UNCHANGED <<session, failures>>

\* markAbsencesSwept: only a null timestamp is written.
MarkSweptAgain(x, at) ==  \* mutant: a later pass moves the timestamp
  [session EXCEPT ![x].sweptAt = at]
MarkSwept(x, at) ==
  IF session[x].sweptAt = Never
    THEN [session EXCEPT ![x].sweptAt = at]
    ELSE session

MarkRoll(w) ==
  /\ sweep[w].pc = "mark"
  /\ session' = MarkSwept(sweep[w].current, sweep[w].at)
  /\ SweepStep(w, [sweep[w] EXCEPT
       !.pc = "roll", !.pending = @ \ {sweep[w].current},
       !.current = NoSession, !.missing = {}, !.siblings = {}])
  /\ UNCHANGED <<row, failures>>

EndPass(w) ==
  /\ sweep[w].pc = "roll"
  /\ sweep[w].pending = {}
  /\ SweepStep(w, NoSweep)
  /\ UNCHANGED <<session, row, failures>>

\* A statement throws, or the process dies and is restarted: the pass is
\* forgotten and a later one starts from the rows.
PassFails(w) ==
  /\ sweep[w].pc # "idle"
  /\ failures < MaxFailures
  /\ failures' = failures + 1
  /\ SweepStep(w, NoSweep)
  /\ UNCHANGED <<session, row>>
-----------------------------------------------------------------------------
(* What the rest of the system changes under the core's feet.              *)

\* ScheduleService.updateSchedule and deactivateSchedule: new hours, or the
\* lecture is cancelled or restored.
EditSchedule(l) ==
  /\ edits < MaxEdits
  /\ edits' = edits + 1
  /\ \E edited \in [active : BOOLEAN, slot : Slots] \ {lecture[l]} :
       lecture' = [lecture EXCEPT ![l] = edited]
  /\ UNCHANGED <<now, profile, session, qr, row, request, scan, sweep, failures>>

\* A profile edit, or an edit of the lecture's address, moves a student into
\* or out of the lecture's cohort.
MoveCohort(s, l) ==
  /\ s \in Movers
  /\ edits < MaxEdits
  /\ edits' = edits + 1
  /\ profile' = [profile EXCEPT ![s] = IF l \in @ THEN @ \ {l}
                                       ELSE @ \union {l}]
  /\ UNCHANGED <<now, lecture, session, qr, row, request, scan, sweep, failures>>
-----------------------------------------------------------------------------
StaffStep(u) ==
  \/ \E l \in Openable : BeginOpen(u, l)
  \/ LoadSchedule(u)
  \/ CheckOccurrence(u)
  \/ CreateSession(u)
  \/ \E x \in SessionIds : BeginClose(u, x)
  \/ CloseSession(u)
  \/ RequestEnds(u)

StudentStep(s) ==
  \/ \E x \in SessionIds : PresentToken(s, x)
  \/ ReadSession(s)
  \/ CheckCohort(s)
  \/ CheckExisting(s)
  \/ InsertAttendance(s)
  \/ ScanEnds(s)

\* The awaits of one pass; every one of them completes unless the pass fails.
WorkerStep(w) ==
  \/ StartPass(w)
  \/ CloseStale(w)
  \/ ListAwaiting(w)
  \/ CallRoll(w)
  \/ ReadRecorded(w)
  \/ ReadSiblings(w)
  \/ ReadAttended(w)
  \/ WriteAbsences(w)
  \/ MarkRoll(w)
  \/ EndPass(w)

Next ==
  \/ Tick
  \/ \E u \in Staff : StaffStep(u)
  \/ \E s \in Students : StudentStep(s)
  \/ \E w \in Workers : WorkerStep(w) \/ PassFails(w)
  \/ \E x \in SessionIds : MintQrToken(x)
  \/ \E l \in Lectures : EditSchedule(l)
  \/ \E s \in Students, l \in Lectures : MoveCohort(s, l)

Spec == Init /\ [][Next]_vars

\* The timer fires again and again, each of its awaits completes, and time
\* passes.  Nobody is obliged to open, close or scan anything.
FairSpec ==
  Spec /\ WF_vars(Tick) /\ \A w \in Workers : WF_vars(WorkerStep(w))
-----------------------------------------------------------------------------
(* Properties.                                                             *)

Rolled(x) == session[x].sweptAt # Never

\* Two sessions of one occurrence, as sweepOne decides it for x.
Siblings(x) == OpenedNear(session[x].lecture, session[x].startTime) \ {x}

\* An ABSENT row exists only for a CLOSED session: the roll is never called on
\* a session that has not been closed, whichever worker closes it and however
\* its statements interleave with staff closing or opening sessions
\* (attendance-lifecycle.service.ts, the head comment on ABSENT and PENDING).
NoAbsenceWhileOpen ==
  \A s \in Students, x \in SessionIds :
    row[s][x].status = "ABSENT" => session[x].status = "CLOSED"

\* Once the roll is marked called, it really was: every student of the
\* cohort has a row, or attended a sibling session; no crash, second worker or
\* late scan leaves somebody out for good.
RollIsComplete ==
  \A x \in SessionIds, s \in Students \ Movers :
    (/\ Rolled(x)
     /\ session[x].lecture \in profile[s])
    => \/ row[s][x] # NoRow
       \/ \E y \in Siblings(x) : row[s][y].status \in Attended

\* The two code paths that write rows agree with the timetable: on a linked
\* session, a student recorded PRESENT, LATE or ABSENT is one the lecture is
\* addressed to; and an ad-hoc session never has an ABSENT row.
RowsMatchTimetable ==
  \A x \in SessionIds, s \in Students \ Movers :
    row[s][x] # NoRow =>
      \/ session[x].lecture \in profile[s]
      \/ session[x].lecture = NoLecture /\ row[s][x].status # "ABSENT"

\* A session closed by the sweep ends when its lecture ended, not when the
\* sweep noticed, and was closed only once the grace was over.
AutoCloseIsHonest ==
  \A x \in SessionIds :
    session[x].closeReason = "AUTO_STALE" =>
      /\ session[x].endTime + StaleGrace < now
      /\ session[x].endTime \in
           {EndsAt(session[x].startTime, slot) : slot \in Slots \union {NoSlot}}

\* One operator at a time cannot open a second session for an occurrence, even
\* after the first has been closed (assertOccurrenceNotAlreadyOpened).
OneSessionPerOccurrence ==
  \A x \in SessionIds :
    session[x].lecture # NoLecture => Siblings(x) = {}

\* No attendance row is ever changed or removed once written: a second scan
\* cannot turn LATE into PRESENT, and an absence never replaces a scan.
RowsAreFinal ==
  [][\A s \in Students, x \in SessionIds :
       row[s][x] # NoRow => row'[s][x] = row[s][x]]_vars

\* CLOSED is final, and so is the instant the roll was called: a second worker
\* half a pass behind cannot move a timestamp it did not write.
LifecycleIsOneWay ==
  [][\A x \in SessionIds :
       /\ session[x].status = "CLOSED" => session'[x].status = "CLOSED"
       /\ session[x].sweptAt # Never => session'[x].sweptAt = session[x].sweptAt
       /\ session[x].sweptAt = Never /\ session'[x].sweptAt # Never
            => session[x].status = "CLOSED"]_vars

\* A manual close stands against the sweep: a worker that listed the session
\* while it was open does not turn it into AUTO_STALE or move its end.
ManualCloseStands ==
  [][\A x \in SessionIds :
       session[x].closeReason = "MANUAL" =>
         /\ session'[x].closeReason = "MANUAL"
         /\ sweep' # sweep => session'[x].endTime = session[x].endTime]_vars

\* A PRESENT or LATE row is written only for a scan that arrived while the
\* lecture was running, carrying a code projected while it was running, even
\* though the insert happens several awaits later.
ScanFromTheRoom ==
  [][\A s \in Students, x \in SessionIds :
       row[s][x] = NoRow /\ row'[s][x].status \in Attended =>
         \E slot \in Slots \union {NoSlot} :
           \A t \in {scan[s].at, scan[s].token} :
             session[x].startTime <= t /\ t <= EndsAt(session[x].startTime, slot)
    ]_vars

\* LATE or PRESENT is decided by when the scan arrived, counted from when
\* attendance opened: a slow insert makes nobody LATE who arrived within the
\* threshold, and nobody who arrived past it is PRESENT
\* (attendance.service.ts, punctuality of `now`).
LateIsDeserved ==
  [][\A s \in Students, x \in SessionIds :
       row[s][x] = NoRow /\ row'[s][x].status \in Attended =>
         (row'[s][x].status = "LATE"
            <=> scan[s].at > session[x].startTime + LateAfter)]_vars

\* A session nobody closes is closed, and has its roll called, however many
\* passes die half-way: the worker comment's "a crash mid-sweep loses nothing".
ForgottenSessionSettles ==
  \A x \in SessionIds : session[x].status = "ACTIVE" ~> Rolled(x)

\* The same for a session a member of staff closed.
ClosedSessionSettles ==
  \A x \in SessionIds : session[x].status = "CLOSED" ~> Rolled(x)

\* session.service.ts 245-247: the guard in sweepOne "is what makes the *harm*
\* impossible even when a duplicate does get through" - nobody who attended one
\* session of an occurrence is ABSENT from another session of it.
NeverAbsentAfterAttendingSibling ==
  \A s \in Students, x \in SessionIds :
    row[s][x].status = "ABSENT" =>
      \A y \in Siblings(x) : row[s][y].status \notin Attended

\* attendance.repository.ts 165-166: "An absence is never allowed to win against
\* evidence that somebody was there" - a scan the server has already admitted
\* is not beaten to the row by the sweep.
AbsenceNeverBeatsScan ==
  \A s \in Students :
    scan[s].pc \in {"existing", "insert"} =>
      row[s][scan[s].session].status # "ABSENT"

\* The abstract attendance book this module implements.
Page(x) ==
  CASE session[x].status = "NONE" -> "blank"
    [] session[x].status = "ACTIVE" -> "open"
    [] session[x].status = "CLOSED" /\ ~Rolled(x) -> "closed"
    [] OTHER -> "settled"

Entry(s, x) ==
  CASE row[s][x].status = "NONE" -> "none"
    [] row[s][x].status = "ABSENT" -> "absent"
    [] OTHER -> "attended"

Book == INSTANCE RollBook WITH
  page <- [x \in SessionIds |-> Page(x)],
  entry <- [s \in Students |-> [x \in SessionIds |-> Entry(s, x)]]

\* Every handler and sweep step opens, closes, settles or enters, as the
\* abstract book allows, or is invisible to it.
ImplementsRollBook == Book!BookSpec
=============================================================================
