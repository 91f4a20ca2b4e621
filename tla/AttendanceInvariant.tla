------------------------- MODULE AttendanceInvariant -------------------------
(***************************************************************************)
(* Theorems about Attendance, for any number of students, staff, sessions, *)
(* lectures and workers, any window lengths and any bounds.                *)
(***************************************************************************)
EXTENDS Attendance, TLAPS

\* A request or a scan in flight names a session that exists.
RequestsInFlight ==
  \A u \in Staff :
    request[u].pc = "close" =>
      /\ request[u].session \in SessionIds
      /\ session[request[u].session].status # "NONE"

ScansInFlight ==
  \A s \in Students :
    scan[s].pc # "idle" =>
      /\ scan[s].session \in SessionIds
      /\ session[scan[s].session].status # "NONE"
      /\ scan[s].at \in Time
      /\ scan[s].at <= now

\* What a pass carries from one statement to the next stays true of the rows:
\* what it lists as stale exists, what it lists for the roll is closed.
Carries(p) ==
  /\ p.pc # "idle" => p.at \in Time
  /\ \A e \in p.stale : session[e.id].status # "NONE"
  /\ \A x \in p.pending : session[x].status = "CLOSED"
  /\ p.pc \notin {"idle", "close", "roll"} =>
       /\ p.current \in SessionIds
       /\ session[p.current].status = "CLOSED"

PassesInFlight == \A w \in Workers : Carries(sweep[w])

\* Codes and rows belong to sessions that exist.
RowsBelong ==
  \A x \in SessionIds :
    session[x].status = "NONE" =>
      /\ qr[x] = Never
      /\ \A s \in Students : row[s][x] = NoRow

IInv ==
  /\ TypeOK
  /\ RequestsInFlight
  /\ ScansInFlight
  /\ PassesInFlight
  /\ RowsBelong
  /\ NoAbsenceWhileOpen

-----------------------------------------------------------------------------
(* Facts about the data.                                                   *)

\* However broken the timetable, a lecture has a positive length.
LEMMA DurationIsPositive ==
  ASSUME NEW slot \in Slot
  PROVE  LectureDuration(slot) \in Nat \ {0}
BY WindowAssumption DEF LectureDuration, Slot, Clock, NoClock

\* The slot behind a session is always one the duration can be read from.
LEMMA SlotOfIsSlot ==
  ASSUME TypeOK, NEW x \in SessionIds
  PROVE  SlotOf(x) \in Slot /\ SlotOf(x) \in Slots \union {NoSlot}
<1>1. NoSlot \in Slot
  BY DEF NoSlot, Slot, Clock, NoClock
<1>2. CASE session[x].lecture = NoLecture
  BY <1>1, <1>2 DEF SlotOf
<1>3. CASE session[x].lecture # NoLecture
  <2>1. session[x].lecture \in Lectures
    BY <1>3 DEF TypeOK, SessionRow, Unopened, OpenRow, ClosedRow
  <2>2. lecture[session[x].lecture].slot \in Slots
    BY <2>1 DEF TypeOK
  <2> QED
    BY <1>3, <2>2, AttendanceAssumption DEF SlotOf
<1> QED
  BY <1>2, <1>3

\* A session that exists has an opening instant.
LEMMA OpenedSessions ==
  ASSUME TypeOK, NEW x \in SessionIds, session[x].status # "NONE"
  PROVE  /\ session[x].startTime \in Time
         /\ session[x].status \in {"ACTIVE", "CLOSED"}
         /\ session[x] \in OpenRow \union ClosedRow
BY DEF TypeOK, SessionRow, Unopened, OpenRow, ClosedRow

\* Closing a session gives a closed session, whatever it was before.
LEMMA ClosedIsRow ==
  ASSUME NEW r \in OpenRow \union ClosedRow, NEW t \in Nat,
         NEW reason \in {"MANUAL", "AUTO_STALE"}
  PROVE  Closed(r, t, reason) \in ClosedRow
<1>1. CASE r \in OpenRow
  BY <1>1, Zenon DEF Closed, OpenRow, ClosedRow, MaybeTime
<1>2. CASE r \in ClosedRow
  BY <1>2, Zenon DEF Closed, ClosedRow
<1> QED
  BY <1>1, <1>2

\* So its end, and the end the sweep records for it, is an instant.
LEMMA EndsAtIsNat ==
  ASSUME TypeOK, NEW x \in SessionIds, session[x].status # "NONE"
  PROVE  EndsAt(session[x].startTime, SlotOf(x)) \in Nat
<1>1. session[x].startTime \in Nat
  BY OpenedSessions, AttendanceAssumption DEF Time
<1>2. LectureDuration(SlotOf(x)) \in Nat
  BY SlotOfIsSlot, DurationIsPositive
<1> QED
  BY <1>1, <1>2 DEF EndsAt

-----------------------------------------------------------------------------
(* Type correctness is preserved.  A step of one actor rewrites that       *)
(* actor's record and at most one table.                                   *)

LEMMA RequestStepType ==
  ASSUME TypeOK, NEW u \in Staff, NEW next \in Request, RequestStep(u, next)
  PROVE  /\ request' \in [Staff -> Request]
         /\ now' \in Time
         /\ scan' \in [Students -> Scan]
         /\ sweep' \in [Workers -> Sweep]
         /\ edits' \in 0..MaxEdits
         /\ failures' \in 0..MaxFailures
<1>1. request' \in [Staff -> Request]
  BY DEF TypeOK, RequestStep
<1>2. UNCHANGED <<now, scan, sweep, edits, failures>>
  BY DEF RequestStep
<1> QED
  BY <1>1, <1>2 DEF TypeOK

LEMMA ScanStepType ==
  ASSUME TypeOK, NEW s \in Students, NEW next \in Scan, ScanStep(s, next),
         row' \in [Students -> [SessionIds -> AttendanceRow]]
  PROVE  TypeOK'
BY DEF TypeOK, ScanStep

LEMMA SweepStepType ==
  ASSUME TypeOK, NEW w \in Workers, NEW next \in Sweep, SweepStep(w, next),
         session' \in [SessionIds -> SessionRow],
         row' \in [Students -> [SessionIds -> AttendanceRow]],
         failures' \in 0..MaxFailures
  PROVE  TypeOK'
BY DEF TypeOK, SweepStep

LEMMA StaffStepType ==
  ASSUME IInv, NEW u \in Staff, StaffStep(u)
  PROVE  TypeOK'
<1> USE DEF IInv
<1>0. NoRequest \in Request
  BY DEF NoRequest, Request, MaybeTime
<1>1. request[u] \in Request /\ now \in Time
  BY DEF TypeOK
<1>2. ASSUME NEW next \in Request, RequestStep(u, next), UNCHANGED rows
      PROVE  TypeOK'
  BY <1>2, RequestStepType DEF TypeOK, rows
<1>3. ASSUME NEW next \in Request, RequestStep(u, next),
             session' \in [SessionIds -> SessionRow],
             UNCHANGED <<lecture, profile, qr, row>>
      PROVE  TypeOK'
  BY <1>3, RequestStepType DEF TypeOK
<1>4. ASSUME NEW l \in Openable, BeginOpen(u, l) PROVE TypeOK'
  <2> DEFINE next == [pc |-> IF l = NoLecture THEN "create" ELSE "load",
                      lecture |-> l,
                      session |-> NoSession,
                      at |-> IF l = NoLecture THEN Never ELSE now]
  <2>1. next \in Request
    BY <1>1, <1>4, AttendanceAssumption DEF Request, MaybeTime
  <2> QED
    BY <1>2, <1>4, <2>1 DEF BeginOpen
<1>5. CASE LoadSchedule(u)
  BY <1>1, <1>2, <1>5 DEF LoadSchedule, Request
<1>6. CASE CheckOccurrence(u)
  BY <1>1, <1>2, <1>6 DEF CheckOccurrence, Request, MaybeTime
<1>7. CASE CreateSession(u)
  <2>1. request[u].lecture \in Lectures \union {NoLecture}
    BY <1>1 DEF Request
  <2>2. Opened(request[u].lecture, now) \in SessionRow
    BY <1>1, <2>1 DEF Opened, SessionRow, OpenRow, Unopened
  <2>3. session' \in [SessionIds -> SessionRow]
    BY <1>7, <2>2 DEF CreateSession, TypeOK
  <2> QED
    BY <1>0, <1>3, <1>7, <2>3 DEF CreateSession
<1>8. ASSUME NEW x \in SessionIds, BeginClose(u, x) PROVE TypeOK'
  BY <1>0, <1>2, <1>8 DEF BeginClose, NoRequest, Request
<1>9. CASE CloseSession(u)
  <2>1. /\ request[u].session \in SessionIds
        /\ session[request[u].session].status # "NONE"
    BY <1>9 DEF CloseSession, RequestsInFlight
  <2>2. now \in Nat
    BY <1>1, AttendanceAssumption DEF Time
  <2>3. session' \in [SessionIds -> SessionRow]
    BY <1>9, <2>1, <2>2, OpenedSessions, ClosedIsRow
    DEF CloseSession, TypeOK, SessionRow
  <2> QED
    BY <1>0, <1>3, <1>9, <2>3 DEF CloseSession
<1>10. CASE RequestEnds(u)
  BY <1>0, <1>2, <1>10 DEF RequestEnds
<1> QED
  BY <1>4, <1>5, <1>6, <1>7, <1>8, <1>9, <1>10 DEF StaffStep

LEMMA StudentStepType ==
  ASSUME IInv, NEW s \in Students, StudentStep(s)
  PROVE  TypeOK'
<1> USE DEF IInv
<1>0. NoScan \in Scan
  BY DEF NoScan, Scan, MaybeTime
<1>1. /\ scan[s] \in Scan
      /\ now \in Time
      /\ row \in [Students -> [SessionIds -> AttendanceRow]]
  BY DEF TypeOK
<1>2. ASSUME NEW x \in SessionIds, PresentToken(s, x) PROVE TypeOK'
  <2>1. qr[x] \in MaybeTime
    BY DEF TypeOK
  <2>2. [pc |-> "session", session |-> x, at |-> now, token |-> qr[x]] \in Scan
    BY <1>1, <2>1 DEF Scan, MaybeTime
  <2> QED
    BY <1>1, <1>2, <2>2, ScanStepType DEF PresentToken
<1>3. CASE ReadSession(s)
  <2> DEFINE next == [scan[s] EXCEPT
                        !.pc = IF session[scan[s].session].lecture # NoLecture
                                 THEN "cohort" ELSE "existing"]
  <2>1. next \in Scan
    BY <1>1 DEF Scan
  <2> QED
    BY <1>1, <1>3, <2>1, ScanStepType DEF ReadSession
<1>4. CASE CheckCohort(s)
  <2>1. [scan[s] EXCEPT !.pc = "existing"] \in Scan
    BY <1>1 DEF Scan
  <2> QED
    BY <1>1, <1>4, <2>1, ScanStepType DEF CheckCohort
<1>5. CASE CheckExisting(s)
  <2>1. [scan[s] EXCEPT !.pc = "insert"] \in Scan
    BY <1>1 DEF Scan
  <2> QED
    BY <1>1, <1>5, <2>1, ScanStepType DEF CheckExisting
<1>6. CASE InsertAttendance(s)
  <2>1. Punctuality(session[scan[s].session].startTime, scan[s].at)
          \in Attended
    BY DEF Punctuality, Attended
  <2>2. row' \in [Students -> [SessionIds -> AttendanceRow]]
    BY <1>1, <1>6, <2>1 DEF InsertAttendance, AttendanceRow, Attended
  <2> QED
    BY <1>0, <1>6, <2>2, ScanStepType DEF InsertAttendance
<1>7. CASE ScanEnds(s)
  BY <1>0, <1>1, <1>7, ScanStepType DEF ScanEnds
<1> QED
  BY <1>2, <1>3, <1>4, <1>5, <1>6, <1>7 DEF StudentStep

\* What each helper of the sweep writes is well typed.
LEMMA CloseIfOpenType ==
  ASSUME TypeOK, NEW x \in SessionIds, NEW t \in Nat
  PROVE  CloseIfOpen(x, t) \in [SessionIds -> SessionRow]
<1>1. CASE session[x].status = "ACTIVE"
  <2>1. Closed(session[x], t, "AUTO_STALE") \in SessionRow
    BY <1>1, OpenedSessions, ClosedIsRow DEF SessionRow
  <2> QED
    BY <1>1, <2>1 DEF CloseIfOpen, TypeOK
<1>2. CASE session[x].status # "ACTIVE"
  BY <1>2 DEF CloseIfOpen, TypeOK
<1> QED
  BY <1>1, <1>2

LEMMA MarkSweptType ==
  ASSUME TypeOK, NEW x \in SessionIds, session[x].status = "CLOSED",
         NEW t \in Time
  PROVE  MarkSwept(x, t) \in [SessionIds -> SessionRow]
<1>1. session[x] \in ClosedRow
  BY DEF TypeOK, SessionRow, Unopened, OpenRow
<1>2. [session[x] EXCEPT !.sweptAt = t] \in SessionRow
  BY <1>1 DEF SessionRow, ClosedRow, MaybeTime
<1> QED
  BY <1>2 DEF MarkSwept, TypeOK

LEMMA InsertAbsencesType ==
  ASSUME TypeOK, NEW x \in SessionIds, NEW absentees, NEW t \in Time
  PROVE  InsertAbsences(x, absentees, t)
           \in [Students -> [SessionIds -> AttendanceRow]]
<1>1. [status |-> "ABSENT", scanTime |-> t] \in AttendanceRow
  BY DEF AttendanceRow
<1> QED
  BY <1>1 DEF InsertAbsences, TypeOK

LEMMA WorkerStepType ==
  ASSUME IInv, NEW w \in Workers, WorkerStep(w) \/ PassFails(w)
  PROVE  TypeOK'
<1> USE DEF IInv
<1>0. NoSweep \in Sweep
  BY DEF NoSweep, Sweep, MaybeTime
<1>1. /\ sweep[w] \in Sweep
      /\ now \in Time
      /\ row \in [Students -> [SessionIds -> AttendanceRow]]
      /\ session \in [SessionIds -> SessionRow]
      /\ failures \in 0..MaxFailures
  BY DEF TypeOK
<1>2. ASSUME NEW next \in Sweep, SweepStep(w, next),
             UNCHANGED <<session, row, failures>>
      PROVE  TypeOK'
  BY <1>1, <1>2, SweepStepType
<1>3. CASE StartPass(w)
  <2>1. PICK batch \in SUBSET {x \in SessionIds : session[x].status = "ACTIVE"} :
          SweepStep(w,
            [NoSweep EXCEPT
               !.pc = "close", !.at = now,
               !.stale = {[id |-> x, endsAt |-> EndsAt(session[x].startTime,
                                                       SlotOf(x))] :
                          x \in {y \in batch : IsStale(session[y].status,
                                                       session[y].startTime,
                                                       SlotOf(y), now)}}])
    BY <1>3 DEF StartPass
  <2> DEFINE stale == {[id |-> x, endsAt |-> EndsAt(session[x].startTime,
                                                    SlotOf(x))] :
                       x \in {y \in batch : IsStale(session[y].status,
                                                    session[y].startTime,
                                                    SlotOf(y), now)}}
  <2>2. stale \in SUBSET [id : SessionIds, endsAt : Nat]
    BY EndsAtIsNat
  <2>3. [NoSweep EXCEPT !.pc = "close", !.at = now, !.stale = stale] \in Sweep
    <3> HIDE DEF stale
    <3> QED
      BY <1>1, <2>2, Zenon DEF NoSweep, Sweep, MaybeTime
  <2> QED
    BY <1>2, <1>3, <2>1, <2>3 DEF StartPass
<1>4. CASE CloseStale(w)
  <2>1. PICK e \in sweep[w].stale :
          /\ session' = CloseIfOpen(e.id, e.endsAt)
          /\ SweepStep(w, [sweep[w] EXCEPT !.stale = @ \ {e}])
    BY <1>4 DEF CloseStale
  <2>2. e.id \in SessionIds /\ e.endsAt \in Nat
    BY <1>1, <2>1 DEF Sweep
  <2>3. [sweep[w] EXCEPT !.stale = @ \ {e}] \in Sweep
    BY <1>1 DEF Sweep
  <2>4. session' \in [SessionIds -> SessionRow]
    BY <2>1, <2>2, CloseIfOpenType
  <2> QED
    BY <1>1, <1>4, <2>1, <2>3, <2>4, SweepStepType DEF CloseStale
<1>5. CASE ListAwaiting(w)
  <2>1. PICK batch \in SUBSET AwaitingSweep :
          SweepStep(w, [sweep[w] EXCEPT !.pc = "roll", !.pending = batch])
    BY <1>5 DEF ListAwaiting
  <2>2. [sweep[w] EXCEPT !.pc = "roll", !.pending = batch] \in Sweep
    BY <1>1, Zenon DEF Sweep, AwaitingSweep
  <2> QED
    BY <1>2, <1>5, <2>1, <2>2 DEF ListAwaiting
<1>6. CASE CallRoll(w)
  <2>1. PICK x \in sweep[w].pending :
          SweepStep(w,
            [sweep[w] EXCEPT
               !.pc = IF session[x].lecture = NoLecture THEN "mark"
                      ELSE "recorded",
               !.current = x,
               !.missing = {s \in Students : session[x].lecture \in profile[s]}])
    BY <1>6 DEF CallRoll
  <2>2. x \in SessionIds
    BY <1>1, <2>1 DEF Sweep
  <2>3. \A p \in {"mark", "recorded"}, M \in SUBSET Students :
          [sweep[w] EXCEPT !.pc = p, !.current = x, !.missing = M] \in Sweep
    BY <1>1, <2>2, Zenon DEF Sweep
  <2> QED
    BY <1>2, <1>6, <2>1, <2>3 DEF CallRoll
<1>7. CASE ReadRecorded(w)
  <2>1. \A M \in SUBSET sweep[w].missing :
          [sweep[w] EXCEPT !.pc = "siblings", !.missing = M] \in Sweep
    BY <1>1, Zenon DEF Sweep
  <2> QED
    BY <1>2, <1>7, <2>1 DEF ReadRecorded
<1>8. CASE ReadSiblings(w)
  <2>1. \A S \in SUBSET SessionIds :
          [sweep[w] EXCEPT !.pc = "attended", !.siblings = S] \in Sweep
    BY <1>1, Zenon DEF Sweep
  <2> QED
    BY <1>2, <1>8, <2>1 DEF ReadSiblings, OpenedNear
<1>9. CASE ReadAttended(w)
  <2>1. \A M \in SUBSET sweep[w].missing :
          [sweep[w] EXCEPT !.pc = "absences", !.missing = M] \in Sweep
    BY <1>1, Zenon DEF Sweep
  <2> QED
    BY <1>2, <1>9, <2>1 DEF ReadAttended
<1>10. CASE WriteAbsences(w)
  <2>1. /\ sweep[w].current \in SessionIds
        /\ sweep[w].at \in Time
    BY <1>10 DEF WriteAbsences, PassesInFlight, Carries
  <2>2. row' \in [Students -> [SessionIds -> AttendanceRow]]
    BY <1>10, <2>1, InsertAbsencesType DEF WriteAbsences
  <2>3. [sweep[w] EXCEPT !.pc = "mark"] \in Sweep
    BY <1>1 DEF Sweep
  <2> QED
    BY <1>1, <1>10, <2>2, <2>3, SweepStepType DEF WriteAbsences
<1>11. CASE MarkRoll(w)
  <2>1. /\ sweep[w].current \in SessionIds
        /\ session[sweep[w].current].status = "CLOSED"
        /\ sweep[w].at \in Time
    BY <1>11 DEF MarkRoll, PassesInFlight, Carries
  <2>2. session' \in [SessionIds -> SessionRow]
    BY <1>11, <2>1, MarkSweptType DEF MarkRoll
  <2>3. [sweep[w] EXCEPT !.pc = "roll", !.pending = @ \ {sweep[w].current},
                         !.current = NoSession, !.missing = {},
                         !.siblings = {}] \in Sweep
    BY <1>1, Zenon DEF Sweep
  <2> QED
    BY <1>1, <1>11, <2>2, <2>3, SweepStepType DEF MarkRoll
<1>12. CASE EndPass(w)
  BY <1>0, <1>2, <1>12 DEF EndPass
<1>13. CASE PassFails(w)
  <2>1. failures' \in 0..MaxFailures
    BY <1>1, <1>13, AttendanceAssumption DEF PassFails
  <2> QED
    BY <1>0, <1>1, <1>13, <2>1, SweepStepType DEF PassFails
<1> QED
  BY <1>3, <1>4, <1>5, <1>6, <1>7, <1>8, <1>9, <1>10, <1>11, <1>12, <1>13
  DEF WorkerStep

LEMMA EnvironmentStepType ==
  ASSUME TypeOK,
         \/ Tick
         \/ \E x \in SessionIds : MintQrToken(x)
         \/ \E l \in Lectures : EditSchedule(l)
         \/ \E s \in Students, l \in Lectures : MoveCohort(s, l)
  PROVE  TypeOK'
<1>1. CASE Tick
  <2>1. now' \in Time
    BY <1>1, AttendanceAssumption DEF Tick, TypeOK, Time
  <2>2. qr' \in [SessionIds -> MaybeTime]
    BY <1>1 DEF Tick, TypeOK, MaybeTime
  <2> QED
    BY <1>1, <2>1, <2>2 DEF Tick, TypeOK
<1>2. ASSUME NEW x \in SessionIds, MintQrToken(x) PROVE TypeOK'
  <2>1. qr' \in [SessionIds -> MaybeTime]
    BY <1>2 DEF MintQrToken, TypeOK, MaybeTime
  <2> QED
    BY <1>2, <2>1 DEF MintQrToken, TypeOK
<1>3. ASSUME NEW l \in Lectures, EditSchedule(l) PROVE TypeOK'
  <2>1. lecture' \in [Lectures -> [active : BOOLEAN, slot : Slots]]
    BY <1>3 DEF EditSchedule, TypeOK
  <2>2. edits' \in 0..MaxEdits
    BY <1>3, AttendanceAssumption DEF EditSchedule, TypeOK
  <2> QED
    BY <1>3, <2>1, <2>2 DEF EditSchedule, TypeOK
<1>4. ASSUME NEW s \in Students, NEW l \in Lectures, MoveCohort(s, l)
      PROVE  TypeOK'
  <2>1. profile' \in [Students -> SUBSET Lectures]
    BY <1>4 DEF MoveCohort, TypeOK
  <2>2. edits' \in 0..MaxEdits
    BY <1>4, AttendanceAssumption DEF MoveCohort, TypeOK
  <2> QED
    BY <1>4, <2>1, <2>2 DEF MoveCohort, TypeOK
<1> QED
  BY <1>1, <1>2, <1>3, <1>4

LEMMA TypeStep ==
  ASSUME IInv, [Next]_vars
  PROVE  TypeOK'
<1>1. CASE UNCHANGED vars
  BY <1>1 DEF IInv, TypeOK, vars
<1> QED
  BY <1>1, StaffStepType, StudentStepType, WorkerStepType, EnvironmentStepType
  DEF Next, IInv

-----------------------------------------------------------------------------
(* Who may write what.                                                     *)

\* Four statements write a Session row.
LEMMA SessionWriters ==
  ASSUME [Next]_vars
  PROVE  \/ UNCHANGED session
         \/ \E u \in Staff : CreateSession(u)
         \/ \E u \in Staff : CloseSession(u)
         \/ \E w \in Workers : CloseStale(w)
         \/ \E w \in Workers : MarkRoll(w)
<1>1. ASSUME NEW u \in Staff, StaffStep(u)
      PROVE  UNCHANGED session \/ CreateSession(u) \/ CloseSession(u)
  BY <1>1 DEF StaffStep, BeginOpen, LoadSchedule, CheckOccurrence, BeginClose,
              RequestEnds, rows
<1>2. ASSUME NEW s \in Students, StudentStep(s) PROVE UNCHANGED session
  BY <1>2 DEF StudentStep, PresentToken, ReadSession, CheckCohort,
              CheckExisting, InsertAttendance, ScanEnds, ScanStep
<1>3. ASSUME NEW w \in Workers, WorkerStep(w) \/ PassFails(w)
      PROVE  UNCHANGED session \/ CloseStale(w) \/ MarkRoll(w)
  BY <1>3 DEF WorkerStep, StartPass, ListAwaiting, CallRoll, ReadRecorded,
              ReadSiblings, ReadAttended, WriteAbsences, EndPass, PassFails
<1> QED
  BY <1>1, <1>2, <1>3
  DEF Next, vars, Tick, MintQrToken, EditSchedule, MoveCohort

\* Two statements write an Attendance row.
LEMMA RowWriters ==
  ASSUME [Next]_vars
  PROVE  \/ UNCHANGED row
         \/ \E s \in Students : InsertAttendance(s)
         \/ \E w \in Workers : WriteAbsences(w)
<1>1. ASSUME NEW u \in Staff, StaffStep(u) PROVE UNCHANGED row
  BY <1>1 DEF StaffStep, BeginOpen, LoadSchedule, CheckOccurrence,
              CreateSession, BeginClose, CloseSession, RequestEnds, rows
<1>2. ASSUME NEW s \in Students, StudentStep(s)
      PROVE  UNCHANGED row \/ InsertAttendance(s)
  BY <1>2 DEF StudentStep, PresentToken, ReadSession, CheckCohort,
              CheckExisting, ScanEnds, ScanStep
<1>3. ASSUME NEW w \in Workers, WorkerStep(w) \/ PassFails(w)
      PROVE  UNCHANGED row \/ WriteAbsences(w)
  BY <1>3 DEF WorkerStep, StartPass, CloseStale, ListAwaiting, CallRoll,
              ReadRecorded, ReadSiblings, ReadAttended, MarkRoll, EndPass,
              PassFails
<1> QED
  BY <1>1, <1>2, <1>3
  DEF Next, vars, Tick, MintQrToken, EditSchedule, MoveCohort

\* The four things that can happen to the row of a session.
KeepsOpening(x) ==
  /\ session'[x].startTime = session[x].startTime
  /\ session'[x].lecture = session[x].lecture

IsOpened(x) ==
  /\ session[x].status = "NONE"
  /\ session'[x].status = "ACTIVE"
  /\ session'[x].closeReason = "NONE"
  /\ session'[x].sweptAt = Never

IsClosedByHand(x) ==
  /\ session[x].status # "NONE"
  /\ UNCHANGED sweep
  /\ session'[x].status = "CLOSED"
  /\ session'[x].endTime = now
  /\ session'[x].closeReason = "MANUAL"
  /\ session'[x].sweptAt = session[x].sweptAt
  /\ KeepsOpening(x)

IsClosedBySweep(x) ==
  /\ session[x].status = "ACTIVE"
  /\ \E w \in Workers : \E e \in sweep[w].stale :
       e.id = x /\ session'[x].endTime = e.endsAt
  /\ session'[x].status = "CLOSED"
  /\ session'[x].closeReason = "AUTO_STALE"
  /\ session'[x].sweptAt = session[x].sweptAt
  /\ KeepsOpening(x)

IsRolled(x) ==
  /\ session[x].status = "CLOSED"
  /\ session[x].sweptAt = Never
  /\ \E w \in Workers : MarkRoll(w) /\ sweep[w].current = x
  /\ session'[x].sweptAt \in Time
  /\ session'[x].status = "CLOSED"
  /\ session'[x].endTime = session[x].endTime
  /\ session'[x].closeReason = session[x].closeReason
  /\ KeepsOpening(x)

LEMMA SessionUpdate ==
  ASSUME IInv, [Next]_vars, NEW x \in SessionIds
  PROVE  \/ session'[x] = session[x]
         \/ IsOpened(x)
         \/ IsClosedByHand(x)
         \/ IsClosedBySweep(x)
         \/ IsRolled(x)
<1>1. session \in [SessionIds -> SessionRow]
  BY DEF IInv, TypeOK
<1>2. ASSUME session[x].status # "NONE", NEW t, NEW reason,
             session'[x] = Closed(session[x], t, reason)
      PROVE  /\ session'[x].status = "CLOSED"
             /\ session'[x].endTime = t
             /\ session'[x].closeReason = reason
             /\ session'[x].sweptAt = session[x].sweptAt
             /\ KeepsOpening(x)
  <2>1. session[x] \in OpenRow \union ClosedRow
    BY <1>2, OpenedSessions DEF IInv
  <2> QED
    BY <1>2, <2>1, Zenon DEF Closed, OpenRow, ClosedRow, KeepsOpening
<1>3. ASSUME NEW u \in Staff, CreateSession(u)
      PROVE  session'[x] = session[x] \/ IsOpened(x)
  <2>1. \A l, t : /\ Opened(l, t).status = "ACTIVE"
                  /\ Opened(l, t).closeReason = "NONE"
                  /\ Opened(l, t).sweptAt = Never
    BY Zenon DEF Opened, Unopened
  <2> QED
    BY <1>1, <1>3, <2>1 DEF CreateSession, IsOpened
<1>4. ASSUME NEW u \in Staff, CloseSession(u)
      PROVE  session'[x] = session[x] \/ IsClosedByHand(x)
  <2>1. CASE x # request[u].session
    BY <1>1, <1>4, <2>1 DEF CloseSession
  <2>2. CASE x = request[u].session
    <3>1. session[x].status # "NONE" /\ UNCHANGED sweep
      BY <1>4, <2>2 DEF CloseSession, RequestStep, IInv, RequestsInFlight
    <3>2. session'[x] = Closed(session[x], now, "MANUAL")
      BY <1>1, <1>4, <2>2 DEF CloseSession
    <3> QED
      BY <1>2, <3>1, <3>2 DEF IsClosedByHand
  <2> QED
    BY <2>1, <2>2
<1>5. ASSUME NEW w \in Workers, CloseStale(w)
      PROVE  session'[x] = session[x] \/ IsClosedBySweep(x)
  <2>1. PICK e \in sweep[w].stale : session' = CloseIfOpen(e.id, e.endsAt)
    BY <1>5 DEF CloseStale
  <2>2. CASE x # e.id \/ session[x].status # "ACTIVE"
    BY <1>1, <2>1, <2>2 DEF CloseIfOpen
  <2>3. CASE x = e.id /\ session[x].status = "ACTIVE"
    <3>1. session'[x] = Closed(session[x], e.endsAt, "AUTO_STALE")
      BY <1>1, <2>1, <2>3 DEF CloseIfOpen
    <3> QED
      BY <1>2, <2>3, <3>1 DEF IsClosedBySweep
  <2> QED
    BY <2>2, <2>3
<1>6. ASSUME NEW w \in Workers, MarkRoll(w)
      PROVE  session'[x] = session[x] \/ IsRolled(x)
  <2>1. session[sweep[w].current].status = "CLOSED" /\ sweep[w].at \in Time
    BY <1>6 DEF MarkRoll, IInv, PassesInFlight, Carries
  <2>2. session[x].status = "CLOSED" => session[x] \in ClosedRow
    BY <1>1 DEF SessionRow, OpenRow, Unopened
  <2> QED
    BY <1>1, <1>6, <2>1, <2>2
    DEF MarkRoll, MarkSwept, ClosedRow, IsRolled, KeepsOpening
<1> QED
  BY <1>3, <1>4, <1>5, <1>6, SessionWriters

\* So once a session exists its lecture and its opening never change, it never
\* goes back to not existing, and CLOSED is final.
LEMMA SessionStep ==
  ASSUME IInv, [Next]_vars, NEW x \in SessionIds, session[x].status # "NONE"
  PROVE  /\ session'[x].status # "NONE"
         /\ session'[x].startTime = session[x].startTime
         /\ session'[x].lecture = session[x].lecture
         /\ session[x].status = "CLOSED" => session'[x].status = "CLOSED"
BY SessionUpdate
DEF IsOpened, IsClosedByHand, IsClosedBySweep, IsRolled, KeepsOpening

-----------------------------------------------------------------------------
(* The facts each actor carries survive everybody else's steps.            *)

\* Only BeginClose puts a request on its way to closing a session.
LEMMA RequestWriters ==
  ASSUME TypeOK, [Next]_vars, NEW v \in Staff
  PROVE  \/ request'[v] = request[v]
         \/ request'[v].pc # "close"
         \/ \E x \in SessionIds : BeginClose(v, x)
<1>1. request \in [Staff -> Request]
  BY DEF TypeOK
<1>2. ASSUME NEW u \in Staff, NEW next, RequestStep(u, next)
      PROVE  request'[v] = IF u = v THEN next ELSE request[v]
  BY <1>1, <1>2 DEF RequestStep
<1>3. ASSUME NEW u \in Staff, StaffStep(u)
      PROVE  \/ request'[v] = request[v]
             \/ request'[v].pc # "close"
             \/ \E x \in SessionIds : BeginClose(v, x)
  <2>1. ASSUME NEW l \in Openable, BeginOpen(u, l)
        PROVE  request'[v] = request[v] \/ request'[v].pc # "close"
    BY <1>2, <2>1 DEF BeginOpen
  <2>2. CASE LoadSchedule(u)
    BY <1>1, <1>2, <2>2 DEF LoadSchedule, Request
  <2>3. CASE CheckOccurrence(u)
    <3>1. [request[u] EXCEPT !.pc = "create", !.at = Never].pc = "create"
      BY <1>1, Zenon DEF Request
    <3> QED
      BY <1>2, <2>3, <3>1 DEF CheckOccurrence
  <2>4. CASE CreateSession(u) \/ CloseSession(u) \/ RequestEnds(u)
    BY <1>2, <2>4 DEF CreateSession, CloseSession, RequestEnds, NoRequest
  <2>5. ASSUME NEW x \in SessionIds, BeginClose(u, x)
        PROVE  request'[v] = request[v] \/ BeginClose(v, x)
    BY <1>2, <2>5 DEF BeginClose
  <2> QED
    BY <1>3, <2>1, <2>2, <2>3, <2>4, <2>5 DEF StaffStep
<1>4. ASSUME NEW s \in Students, StudentStep(s) PROVE UNCHANGED request
  BY <1>4 DEF StudentStep, PresentToken, ReadSession, CheckCohort,
              CheckExisting, InsertAttendance, ScanEnds, ScanStep
<1>5. ASSUME NEW w \in Workers, WorkerStep(w) \/ PassFails(w)
      PROVE  UNCHANGED request
  BY <1>5 DEF WorkerStep, StartPass, CloseStale, ListAwaiting, CallRoll,
              ReadRecorded, ReadSiblings, ReadAttended, WriteAbsences,
              MarkRoll, EndPass, PassFails, SweepStep
<1> QED
  BY <1>3, <1>4, <1>5
  DEF Next, vars, Tick, MintQrToken, EditSchedule, MoveCohort

LEMMA RequestsStep ==
  ASSUME IInv, [Next]_vars
  PROVE  RequestsInFlight'
<1> SUFFICES ASSUME NEW v \in Staff, request'[v].pc = "close"
             PROVE  /\ request'[v].session \in SessionIds
                    /\ session'[request'[v].session].status # "NONE"
  BY DEF RequestsInFlight
<1>1. CASE request'[v] = request[v]
  BY <1>1, SessionStep DEF IInv, RequestsInFlight
<1>2. ASSUME NEW x \in SessionIds, BeginClose(v, x)
      PROVE  /\ request'[v].session = x
             /\ session'[x].status # "NONE"
  <2>1. [NoRequest EXCEPT !.pc = "close", !.session = x].session = x
    BY Zenon DEF NoRequest
  <2>2. session'[x].status # "NONE"
    BY <1>2 DEF BeginClose, rows
  <2> QED
    BY <1>2, <2>1, <2>2 DEF BeginClose, RequestStep, IInv, TypeOK
<1> QED
  BY <1>1, <1>2, RequestWriters DEF IInv

\* A scan keeps the session and the instant it arrived with until it ends.
LEMMA ScanWriters ==
  ASSUME TypeOK, [Next]_vars, NEW r \in Students
  PROVE  \/ scan'[r] = scan[r]
         \/ scan'[r].pc = "idle"
         \/ \E x \in SessionIds : PresentToken(r, x)
         \/ /\ scan[r].pc # "idle"
            /\ scan'[r].session = scan[r].session
            /\ scan'[r].at = scan[r].at
            /\ scan'[r].token = scan[r].token
            /\ ReadSession(r) \/ CheckCohort(r) \/ CheckExisting(r)
<1>1. scan \in [Students -> Scan]
  BY DEF TypeOK
<1>2. ASSUME NEW s \in Students, NEW next, ScanStep(s, next)
      PROVE  scan'[r] = IF s = r THEN next ELSE scan[r]
  BY <1>1, <1>2 DEF ScanStep
<1> DEFINE Advances == /\ scan[r].pc # "idle"
                       /\ scan'[r].session = scan[r].session
                       /\ scan'[r].at = scan[r].at
                       /\ scan'[r].token = scan[r].token
<1>3. ASSUME NEW s \in Students, NEW p, scan[s].pc # "idle",
             ScanStep(s, [scan[s] EXCEPT !.pc = p])
      PROVE  scan'[r] = scan[r] \/ (s = r /\ Advances)
  <2>1. CASE s # r
    BY <1>2, <1>3, <2>1
  <2>2. CASE s = r
    <3>1. scan'[r] = [scan[r] EXCEPT !.pc = p]
      BY <1>2, <1>3, <2>2
    <3> QED
      BY <1>1, <1>3, <2>2, <3>1 DEF Scan
  <2> QED
    BY <2>1, <2>2
<1>4. ASSUME NEW s \in Students, StudentStep(s)
      PROVE  \/ scan'[r] = scan[r]
             \/ scan'[r].pc = "idle"
             \/ \E x \in SessionIds : PresentToken(r, x)
             \/ /\ scan[r].pc # "idle"
                /\ scan'[r].session = scan[r].session
                /\ scan'[r].at = scan[r].at
                /\ scan'[r].token = scan[r].token
                /\ ReadSession(r) \/ CheckCohort(r) \/ CheckExisting(r)
  <2>1. ASSUME NEW x \in SessionIds, PresentToken(s, x)
        PROVE  scan'[r] = scan[r] \/ PresentToken(r, x)
    BY <1>2, <2>1 DEF PresentToken
  <2>2. CASE ReadSession(s)
    <3>1. scan'[r] = scan[r] \/ (s = r /\ Advances)
      BY <1>3, <2>2 DEF ReadSession
    <3> QED
      BY <2>2, <3>1
  <2>3. CASE CheckCohort(s)
    <3>1. scan'[r] = scan[r] \/ (s = r /\ Advances)
      BY <1>3, <2>3 DEF CheckCohort
    <3> QED
      BY <2>3, <3>1
  <2>4. CASE CheckExisting(s)
    <3>1. scan'[r] = scan[r] \/ (s = r /\ Advances)
      BY <1>3, <2>4 DEF CheckExisting
    <3> QED
      BY <2>4, <3>1
  <2>5. CASE InsertAttendance(s) \/ ScanEnds(s)
    BY <1>2, <2>5 DEF InsertAttendance, ScanEnds, NoScan
  <2> QED
    BY <1>4, <2>1, <2>2, <2>3, <2>4, <2>5 DEF StudentStep
<1>5. ASSUME NEW u \in Staff, StaffStep(u) PROVE UNCHANGED scan
  BY <1>5 DEF StaffStep, BeginOpen, LoadSchedule, CheckOccurrence,
              CreateSession, BeginClose, CloseSession, RequestEnds, RequestStep
<1>6. ASSUME NEW w \in Workers, WorkerStep(w) \/ PassFails(w)
      PROVE  UNCHANGED scan
  BY <1>6 DEF WorkerStep, StartPass, CloseStale, ListAwaiting, CallRoll,
              ReadRecorded, ReadSiblings, ReadAttended, WriteAbsences,
              MarkRoll, EndPass, PassFails, SweepStep
<1> QED
  BY <1>4, <1>5, <1>6
  DEF Next, vars, Tick, MintQrToken, EditSchedule, MoveCohort

\* Time does not go back.
LEMMA NowStep ==
  ASSUME TypeOK, [Next]_vars
  PROVE  now \in Int /\ now' \in Int /\ now <= now'
<1>1. now \in Int
  BY AttendanceAssumption DEF TypeOK, Time
<1>2. UNCHANGED now \/ Tick
  BY DEF Next, vars, StaffStep, BeginOpen, LoadSchedule, CheckOccurrence,
         CreateSession, BeginClose, CloseSession, RequestEnds, RequestStep,
         StudentStep, PresentToken, ReadSession, CheckCohort, CheckExisting,
         InsertAttendance, ScanEnds, ScanStep, WorkerStep, StartPass,
         CloseStale, ListAwaiting, CallRoll, ReadRecorded, ReadSiblings,
         ReadAttended, WriteAbsences, MarkRoll, EndPass, PassFails, SweepStep,
         MintQrToken, EditSchedule, MoveCohort
<1> QED
  BY <1>1, <1>2 DEF Tick

LEMMA ScansStep ==
  ASSUME IInv, [Next]_vars
  PROVE  ScansInFlight'
<1> SUFFICES ASSUME NEW r \in Students, scan'[r].pc # "idle"
             PROVE  /\ scan'[r].session \in SessionIds
                    /\ session'[scan'[r].session].status # "NONE"
                    /\ scan'[r].at \in Time
                    /\ scan'[r].at <= now'
  BY DEF ScansInFlight, Time
<1>1. ASSUME scan[r].pc # "idle",
             scan'[r].session = scan[r].session,
             scan'[r].at = scan[r].at
      PROVE  /\ scan'[r].session \in SessionIds
             /\ session'[scan'[r].session].status # "NONE"
             /\ scan'[r].at \in Time
             /\ scan'[r].at <= now'
  <2>1. /\ scan[r].session \in SessionIds
        /\ session[scan[r].session].status # "NONE"
        /\ scan[r].at \in Time
        /\ scan[r].at <= now
    BY <1>1 DEF IInv, ScansInFlight
  <2>2. scan[r].at \in Int
    BY <2>1, AttendanceAssumption DEF Time
  <2>3. scan[r].at <= now'
    BY <2>1, <2>2, NowStep DEF IInv
  <2> QED
    BY <1>1, <2>1, <2>3, SessionStep
<1>2. ASSUME NEW x \in SessionIds, PresentToken(r, x)
      PROVE  /\ scan'[r].session \in SessionIds
             /\ session'[scan'[r].session].status # "NONE"
             /\ scan'[r].at \in Time
             /\ scan'[r].at <= now'
  <2>1. scan'[r] = [pc |-> "session", session |-> x, at |-> now,
                    token |-> qr[x]]
    BY <1>2 DEF PresentToken, ScanStep, IInv, TypeOK
  <2>2. session[x].status # "NONE"
    BY <1>2 DEF PresentToken, IInv, RowsBelong
  <2>3. UNCHANGED <<now, session>>
    BY <1>2 DEF PresentToken, ScanStep
  <2>4. now \in Time /\ now \in Int
    BY AttendanceAssumption DEF IInv, TypeOK, Time
  <2> QED
    BY <2>1, <2>2, <2>3, <2>4
<1> QED
  BY <1>1, <1>2, ScanWriters DEF IInv

\* What a pass carries is not spoiled by a step that leaves the pass alone.
LEMMA CarriesStep ==
  ASSUME IInv, [Next]_vars, NEW p \in Sweep, Carries(p)
  PROVE  Carries(p)'
BY SessionStep DEF Carries, Sweep

\* What each statement of a pass leaves in the worker's own record, field by
\* field.
KeepsLists(w) ==
  /\ sweep'[w].at = sweep[w].at
  /\ sweep'[w].stale = sweep[w].stale
  /\ sweep'[w].pending = sweep[w].pending

KeepsRoll(w) == KeepsLists(w) /\ sweep'[w].current = sweep[w].current

IsStaleEntry(e) ==
  \E x \in SessionIds :
    /\ e = [id |-> x, endsAt |-> EndsAt(session[x].startTime, SlotOf(x))]
    /\ IsStale(session[x].status, session[x].startTime, SlotOf(x), now)

LEMMA SweepStepRecord ==
  ASSUME TypeOK, NEW w \in Workers, NEW next, SweepStep(w, next)
  PROVE  sweep'[w] = next
BY DEF TypeOK, SweepStep

LEMMA StartPassFields ==
  ASSUME TypeOK, NEW w \in Workers, StartPass(w)
  PROVE  /\ sweep'[w].pc = "close"
         /\ sweep'[w].at = now
         /\ sweep'[w].pending = {}
         /\ \A e \in sweep'[w].stale : IsStaleEntry(e)
<1> DEFINE stale(batch) == {[id |-> x, endsAt |-> EndsAt(session[x].startTime,
                                                         SlotOf(x))] :
                            x \in {y \in batch : IsStale(session[y].status,
                                                         session[y].startTime,
                                                         SlotOf(y), now)}}
           next(S) == [NoSweep EXCEPT !.pc = "close", !.at = now, !.stale = S]
<1>1. PICK batch \in SUBSET SessionIds : SweepStep(w, next(stale(batch)))
  BY DEF StartPass
<1>2. \A S : /\ next(S).pc = "close" /\ next(S).at = now
             /\ next(S).pending = {} /\ next(S).stale = S
  BY Zenon DEF NoSweep
<1>3. \A e \in stale(batch) : IsStaleEntry(e)
  BY DEF IsStaleEntry
<1> QED
  <2> HIDE DEF stale, next
  <2> QED
    BY <1>1, <1>2, <1>3, SweepStepRecord

LEMMA CloseStaleFields ==
  ASSUME TypeOK, NEW w \in Workers, CloseStale(w)
  PROVE  /\ sweep[w].pc = "close" /\ sweep'[w].pc = "close"
         /\ sweep'[w].at = sweep[w].at
         /\ sweep'[w].pending = sweep[w].pending
         /\ sweep'[w].stale \subseteq sweep[w].stale
<1>1. sweep[w] \in Sweep
  BY DEF TypeOK
<1>2. PICK e : SweepStep(w, [sweep[w] EXCEPT !.stale = @ \ {e}])
  BY DEF CloseStale
<1> QED
  BY <1>1, <1>2, SweepStepRecord DEF CloseStale, Sweep

LEMMA ListAwaitingFields ==
  ASSUME TypeOK, NEW w \in Workers, ListAwaiting(w)
  PROVE  /\ sweep[w].pc = "close" /\ sweep'[w].pc = "roll"
         /\ sweep'[w].at = sweep[w].at
         /\ sweep'[w].stale = sweep[w].stale
         /\ sweep'[w].pending \subseteq AwaitingSweep
<1> DEFINE next(B) == [sweep[w] EXCEPT !.pc = "roll", !.pending = B]
<1>1. sweep[w] \in Sweep
  BY DEF TypeOK
<1>2. PICK batch \in SUBSET AwaitingSweep : SweepStep(w, next(batch))
  BY DEF ListAwaiting
<1>3. \A B : /\ next(B).pc = "roll" /\ next(B).pending = B
             /\ next(B).at = sweep[w].at /\ next(B).stale = sweep[w].stale
  BY <1>1, Zenon DEF Sweep
<1> QED
  <2> HIDE DEF next
  <2> QED
    BY <1>2, <1>3, SweepStepRecord DEF ListAwaiting

LEMMA CallRollFields ==
  ASSUME TypeOK, NEW w \in Workers, CallRoll(w)
  PROVE  /\ KeepsLists(w)
         /\ sweep[w].pc = "roll"
         /\ sweep'[w].current \in sweep[w].pending
         /\ sweep'[w].pc = IF session[sweep'[w].current].lecture = NoLecture
                             THEN "mark" ELSE "recorded"
         /\ sweep'[w].missing =
              {s \in Students : session[sweep'[w].current].lecture \in profile[s]}
<1> DEFINE next(p, x, M) == [sweep[w] EXCEPT !.pc = p, !.current = x,
                                             !.missing = M]
<1>1. sweep[w] \in Sweep
  BY DEF TypeOK
<1>2. PICK x \in sweep[w].pending :
        SweepStep(w, next(IF session[x].lecture = NoLecture THEN "mark"
                          ELSE "recorded",
                          x,
                          {s \in Students : session[x].lecture \in profile[s]}))
  BY DEF CallRoll
<1>3. \A p, y, M : /\ next(p, y, M).pc = p /\ next(p, y, M).current = y
                   /\ next(p, y, M).missing = M
                   /\ next(p, y, M).at = sweep[w].at
                   /\ next(p, y, M).stale = sweep[w].stale
                   /\ next(p, y, M).pending = sweep[w].pending
  BY <1>1, Zenon DEF Sweep
<1> QED
  <2> HIDE DEF next
  <2> QED
    BY <1>2, <1>3, SweepStepRecord DEF CallRoll, KeepsLists

LEMMA ReadRecordedFields ==
  ASSUME TypeOK, NEW w \in Workers, ReadRecorded(w)
  PROVE  /\ KeepsRoll(w)
         /\ sweep[w].pc = "recorded" /\ sweep'[w].pc = "siblings"
         /\ sweep'[w].missing =
              {s \in sweep[w].missing : row[s][sweep[w].current] = NoRow}
<1> DEFINE next(M) == [sweep[w] EXCEPT !.pc = "siblings", !.missing = M]
<1>1. sweep[w] \in Sweep
  BY DEF TypeOK
<1>2. SweepStep(w, next({s \in sweep[w].missing :
                           row[s][sweep[w].current] = NoRow}))
  BY DEF ReadRecorded
<1>3. \A M : /\ next(M).pc = "siblings" /\ next(M).missing = M
             /\ next(M).at = sweep[w].at /\ next(M).stale = sweep[w].stale
             /\ next(M).pending = sweep[w].pending
             /\ next(M).current = sweep[w].current
  BY <1>1, Zenon DEF Sweep
<1> QED
  <2> HIDE DEF next
  <2> QED
    BY <1>2, <1>3, SweepStepRecord DEF ReadRecorded, KeepsRoll, KeepsLists

LEMMA ReadSiblingsFields ==
  ASSUME TypeOK, NEW w \in Workers, ReadSiblings(w)
  PROVE  /\ KeepsRoll(w)
         /\ sweep[w].pc = "siblings" /\ sweep'[w].pc = "attended"
         /\ sweep'[w].missing = sweep[w].missing
         /\ sweep'[w].siblings = Siblings(sweep[w].current)
<1> DEFINE next(S) == [sweep[w] EXCEPT !.pc = "attended", !.siblings = S]
<1>1. sweep[w] \in Sweep
  BY DEF TypeOK
<1>2. SweepStep(w, next(Siblings(sweep[w].current)))
  BY DEF ReadSiblings, Siblings
<1>3. \A S : /\ next(S).pc = "attended" /\ next(S).siblings = S
             /\ next(S).at = sweep[w].at /\ next(S).stale = sweep[w].stale
             /\ next(S).pending = sweep[w].pending
             /\ next(S).current = sweep[w].current
             /\ next(S).missing = sweep[w].missing
  BY <1>1, Zenon DEF Sweep
<1> QED
  <2> HIDE DEF next
  <2> QED
    BY <1>2, <1>3, SweepStepRecord DEF ReadSiblings, KeepsRoll, KeepsLists

LEMMA ReadAttendedFields ==
  ASSUME TypeOK, NEW w \in Workers, ReadAttended(w)
  PROVE  /\ KeepsRoll(w)
         /\ sweep[w].pc = "attended" /\ sweep'[w].pc = "absences"
         /\ sweep'[w].missing =
              {s \in sweep[w].missing : \A y \in sweep[w].siblings :
                                          row[s][y].status \notin Attended}
<1> DEFINE next(M) == [sweep[w] EXCEPT !.pc = "absences", !.missing = M]
<1>1. sweep[w] \in Sweep
  BY DEF TypeOK
<1>2. SweepStep(w, next({s \in sweep[w].missing :
                           \A y \in sweep[w].siblings :
                             row[s][y].status \notin Attended}))
  BY DEF ReadAttended
<1>3. \A M : /\ next(M).pc = "absences" /\ next(M).missing = M
             /\ next(M).at = sweep[w].at /\ next(M).stale = sweep[w].stale
             /\ next(M).pending = sweep[w].pending
             /\ next(M).current = sweep[w].current
  BY <1>1, Zenon DEF Sweep
<1> QED
  <2> HIDE DEF next
  <2> QED
    BY <1>2, <1>3, SweepStepRecord DEF ReadAttended, KeepsRoll, KeepsLists

LEMMA WriteAbsencesFields ==
  ASSUME TypeOK, NEW w \in Workers, WriteAbsences(w)
  PROVE  /\ KeepsRoll(w)
         /\ sweep[w].pc = "absences" /\ sweep'[w].pc = "mark"
<1>1. sweep[w] \in Sweep
  BY DEF TypeOK
<1>2. sweep'[w] = [sweep[w] EXCEPT !.pc = "mark"]
  BY SweepStepRecord DEF WriteAbsences
<1> QED
  BY <1>1, <1>2 DEF WriteAbsences, Sweep, KeepsRoll, KeepsLists

LEMMA MarkRollFields ==
  ASSUME TypeOK, NEW w \in Workers, MarkRoll(w)
  PROVE  /\ sweep[w].pc = "mark" /\ sweep'[w].pc = "roll"
         /\ sweep'[w].at = sweep[w].at
         /\ sweep'[w].stale = sweep[w].stale
         /\ sweep'[w].pending \subseteq sweep[w].pending
<1> DEFINE next(P) == [sweep[w] EXCEPT !.pc = "roll", !.pending = P,
                                       !.current = NoSession, !.missing = {},
                                       !.siblings = {}]
<1>1. sweep[w] \in Sweep
  BY DEF TypeOK
<1>2. SweepStep(w, next(sweep[w].pending \ {sweep[w].current}))
  BY DEF MarkRoll
<1>3. \A P : /\ next(P).pc = "roll" /\ next(P).pending = P
             /\ next(P).at = sweep[w].at /\ next(P).stale = sweep[w].stale
  BY <1>1, Zenon DEF Sweep
<1> QED
  <2> HIDE DEF next
  <2> QED
    BY <1>2, <1>3, SweepStepRecord DEF MarkRoll

LEMMA PassOverFields ==
  ASSUME TypeOK, NEW w \in Workers, EndPass(w) \/ PassFails(w)
  PROVE  sweep'[w] = NoSweep
BY SweepStepRecord DEF EndPass, PassFails

LEMMA PassStep ==
  ASSUME IInv, NEW w \in Workers, WorkerStep(w) \/ PassFails(w), [Next]_vars
  PROVE  Carries(sweep[w])'
<1> USE DEF IInv, Carries
<1>1. Carries(sweep[w]) /\ sweep[w] \in Sweep /\ now \in Time
  BY DEF TypeOK, PassesInFlight
<1>2. \A x \in SessionIds : session[x].status # "NONE"
                              => session'[x].status # "NONE"
  BY SessionStep
<1>3. \A x \in SessionIds : session[x].status = "CLOSED"
                              => session'[x].status = "CLOSED"
  BY SessionStep
<1>4. CASE StartPass(w)
  <2>1. \A e : IsStaleEntry(e) => /\ e.id \in SessionIds
                                  /\ session[e.id].status # "NONE"
    BY DEF IsStaleEntry, IsStale
  <2> QED
    BY <1>1, <1>2, <1>4, <2>1, StartPassFields
<1>5. CASE CloseStale(w)
  BY <1>1, <1>2, <1>3, <1>5, CloseStaleFields DEF Sweep
<1>6. CASE ListAwaiting(w)
  BY <1>1, <1>2, <1>3, <1>6, ListAwaitingFields DEF Sweep, AwaitingSweep
<1>7. CASE CallRoll(w)
  BY <1>1, <1>2, <1>3, <1>7, CallRollFields DEF Sweep, KeepsLists
<1>8. ASSUME KeepsRoll(w), sweep[w].pc \notin {"idle", "close", "roll"}
      PROVE  Carries(sweep[w])'
  BY <1>1, <1>2, <1>3, <1>8 DEF Sweep, KeepsRoll, KeepsLists
<1>9. CASE ReadRecorded(w)
  BY <1>8, <1>9, ReadRecordedFields
<1>10. CASE ReadSiblings(w)
  BY <1>8, <1>10, ReadSiblingsFields
<1>11. CASE ReadAttended(w)
  BY <1>8, <1>11, ReadAttendedFields
<1>12. CASE WriteAbsences(w)
  BY <1>8, <1>12, WriteAbsencesFields
<1>13. CASE MarkRoll(w)
  BY <1>1, <1>2, <1>3, <1>13, MarkRollFields DEF Sweep
<1>14. CASE EndPass(w) \/ PassFails(w)
  BY <1>14, PassOverFields DEF NoSweep
<1> QED
  BY <1>4, <1>5, <1>6, <1>7, <1>9, <1>10, <1>11, <1>12, <1>13, <1>14
  DEF WorkerStep

\* Only a worker's own statements change its pass.
LEMMA SweepWriters ==
  ASSUME TypeOK, [Next]_vars, NEW v \in Workers
  PROVE  sweep'[v] = sweep[v] \/ WorkerStep(v) \/ PassFails(v)
<1>1. ASSUME NEW w \in Workers, WorkerStep(w) \/ PassFails(w), w # v
      PROVE  sweep'[v] = sweep[v]
  <2>1. PICK next : SweepStep(w, next)
    BY <1>1 DEF WorkerStep, StartPass, CloseStale, ListAwaiting, CallRoll,
                ReadRecorded, ReadSiblings, ReadAttended, WriteAbsences,
                MarkRoll, EndPass, PassFails
  <2> QED
    BY <1>1, <2>1 DEF SweepStep, TypeOK
<1>2. ASSUME NEW u \in Staff, StaffStep(u) PROVE UNCHANGED sweep
  BY <1>2 DEF StaffStep, BeginOpen, LoadSchedule, CheckOccurrence,
              CreateSession, BeginClose, CloseSession, RequestEnds, RequestStep
<1>3. ASSUME NEW s \in Students, StudentStep(s) PROVE UNCHANGED sweep
  BY <1>3 DEF StudentStep, PresentToken, ReadSession, CheckCohort,
              CheckExisting, InsertAttendance, ScanEnds, ScanStep
<1> QED
  BY <1>1, <1>2, <1>3
  DEF Next, vars, Tick, MintQrToken, EditSchedule, MoveCohort

LEMMA PassesStep ==
  ASSUME IInv, [Next]_vars
  PROVE  PassesInFlight'
<1> SUFFICES ASSUME NEW v \in Workers PROVE Carries(sweep[v])'
  BY DEF PassesInFlight
<1>1. CASE sweep'[v] = sweep[v]
  BY <1>1, CarriesStep DEF IInv, TypeOK, PassesInFlight
<1>2. CASE WorkerStep(v) \/ PassFails(v)
  BY <1>2, PassStep
<1> QED
  BY <1>1, <1>2, SweepWriters DEF IInv

\* Rows are final: what the sweep inserts never replaces a row, and a scan
\* inserts only where there is none.
LEMMA RowStep ==
  ASSUME IInv, [Next]_vars, NEW s \in Students, NEW x \in SessionIds
  PROVE  \/ row'[s][x] = row[s][x]
         \/ /\ row[s][x] = NoRow
            /\ InsertAttendance(s)
            /\ scan[s].session = x
            /\ row'[s][x] = [status |-> Punctuality(session[x].startTime,
                                                    scan[s].at),
                             scanTime |-> now]
         \/ /\ row[s][x] = NoRow
            /\ \E w \in Workers :
                 /\ WriteAbsences(w)
                 /\ sweep[w].current = x
                 /\ s \in sweep[w].missing
                 /\ row'[s][x] = [status |-> "ABSENT",
                                  scanTime |-> sweep[w].at]
<1>1. row \in [Students -> [SessionIds -> AttendanceRow]]
  BY DEF IInv, TypeOK
<1>2. ASSUME NEW t \in Students, InsertAttendance(t)
      PROVE  \/ row'[s][x] = row[s][x]
             \/ /\ t = s
                /\ row[s][x] = NoRow
                /\ scan[s].session = x
                /\ row'[s][x] = [status |-> Punctuality(session[x].startTime,
                                                        scan[s].at),
                                 scanTime |-> now]
  BY <1>1, <1>2 DEF InsertAttendance
<1>3. ASSUME NEW w \in Workers, WriteAbsences(w)
      PROVE  \/ row'[s][x] = row[s][x]
             \/ /\ row[s][x] = NoRow
                /\ sweep[w].current = x
                /\ s \in sweep[w].missing
                /\ row'[s][x] = [status |-> "ABSENT", scanTime |-> sweep[w].at]
  BY <1>1, <1>3 DEF WriteAbsences, InsertAbsences
<1> QED
  BY <1>2, <1>3, RowWriters

\* A code is only ever replaced by a fresh one or expires.
LEMMA QrWriters ==
  ASSUME TypeOK, [Next]_vars, NEW x \in SessionIds
  PROVE  \/ qr'[x] = qr[x]
         \/ qr'[x] = Never
         \/ MintQrToken(x)
<1>1. qr \in [SessionIds -> MaybeTime]
  BY DEF TypeOK
<1>2. ASSUME NEW y \in SessionIds, MintQrToken(y)
      PROVE  qr'[x] = qr[x] \/ MintQrToken(x)
  BY <1>1, <1>2 DEF MintQrToken
<1>3. CASE Tick
  BY <1>3 DEF Tick
<1>4. ASSUME NEW u \in Staff, StaffStep(u) PROVE UNCHANGED qr
  BY <1>4 DEF StaffStep, BeginOpen, LoadSchedule, CheckOccurrence,
              CreateSession, BeginClose, CloseSession, RequestEnds, rows
<1>5. ASSUME NEW s \in Students, StudentStep(s) PROVE UNCHANGED qr
  BY <1>5 DEF StudentStep, PresentToken, ReadSession, CheckCohort,
              CheckExisting, InsertAttendance, ScanEnds, ScanStep
<1>6. ASSUME NEW w \in Workers, WorkerStep(w) \/ PassFails(w)
      PROVE  UNCHANGED qr
  BY <1>6 DEF WorkerStep, StartPass, CloseStale, ListAwaiting, CallRoll,
              ReadRecorded, ReadSiblings, ReadAttended, WriteAbsences,
              MarkRoll, EndPass, PassFails, SweepStep
<1> QED
  BY <1>2, <1>3, <1>4, <1>5, <1>6 DEF Next, vars, EditSchedule, MoveCohort

LEMMA RowsBelongStep ==
  ASSUME IInv, [Next]_vars
  PROVE  RowsBelong'
<1> SUFFICES ASSUME NEW x \in SessionIds, session'[x].status = "NONE"
             PROVE  qr'[x] = Never /\ \A s \in Students : row'[s][x] = NoRow
  BY DEF RowsBelong
<1>1. session[x].status = "NONE"
  BY SessionStep
<1>2. qr[x] = Never /\ \A s \in Students : row[s][x] = NoRow
  BY <1>1 DEF IInv, RowsBelong
<1>3. qr'[x] = Never
  BY <1>1, <1>2, QrWriters DEF MintQrToken, IInv
<1>4. ASSUME NEW s \in Students PROVE row'[s][x] = NoRow
  <2>1. ~(InsertAttendance(s) /\ scan[s].session = x)
    BY <1>1 DEF InsertAttendance, IInv, ScansInFlight
  <2>2. ASSUME NEW w \in Workers, WriteAbsences(w) PROVE sweep[w].current # x
    BY <1>1, <2>2 DEF WriteAbsences, IInv, PassesInFlight, Carries
  <2> QED
    BY <1>2, <2>1, <2>2, RowStep
<1> QED
  BY <1>3, <1>4

LEMMA AbsenceStep ==
  ASSUME IInv, [Next]_vars
  PROVE  NoAbsenceWhileOpen'
<1> SUFFICES ASSUME NEW s \in Students, NEW x \in SessionIds,
                    row'[s][x].status = "ABSENT"
             PROVE  session'[x].status = "CLOSED"
  BY DEF NoAbsenceWhileOpen
<1>1. session[x].status = "CLOSED"
  <2>1. CASE row'[s][x] = row[s][x]
    BY <2>1 DEF IInv, NoAbsenceWhileOpen
  <2>2. row'[s][x] # [status |-> Punctuality(session[x].startTime, scan[s].at),
                       scanTime |-> now]
    BY DEF Punctuality
  <2>3. ASSUME NEW w \in Workers, WriteAbsences(w), sweep[w].current = x
        PROVE  session[x].status = "CLOSED"
    BY <2>3 DEF WriteAbsences, IInv, PassesInFlight, Carries
  <2> QED
    BY <2>1, <2>2, <2>3, RowStep
<1> QED
  BY <1>1, SessionStep

-----------------------------------------------------------------------------
(* The inductive invariant.                                                *)

LEMMA InitIInv ==
  ASSUME Init
  PROVE  IInv
<1>1. TypeOK
  <2>1. /\ 0 \in Time /\ Never \in MaybeTime
        /\ edits \in 0..MaxEdits /\ failures \in 0..MaxFailures
    BY AttendanceAssumption DEF Init, Time, MaybeTime
  <2>2. NoRequest \in Request /\ NoScan \in Scan /\ NoSweep \in Sweep
    BY <2>1 DEF NoRequest, Request, NoScan, Scan, NoSweep, Sweep
  <2>3. NoRow \in AttendanceRow /\ Unopened \in SessionRow
    BY DEF AttendanceRow, SessionRow
  <2>4. lecture \in [Lectures -> [active : BOOLEAN, slot : Slots]]
    BY DEF Init
  <2> QED
    BY <2>1, <2>2, <2>3, <2>4 DEF Init, TypeOK
<1>2. RequestsInFlight /\ ScansInFlight
  BY DEF Init, RequestsInFlight, NoRequest, ScansInFlight, NoScan
<1>3. PassesInFlight
  BY DEF Init, PassesInFlight, Carries, NoSweep
<1>4. RowsBelong /\ NoAbsenceWhileOpen
  BY DEF Init, RowsBelong, NoAbsenceWhileOpen, NoRow
<1> QED
  BY <1>1, <1>2, <1>3, <1>4 DEF IInv

\* The strengthening of TypeOK and NoAbsenceWhileOpen that every step keeps.
THEOREM Inductive == Spec => []IInv
<1>1. Init => IInv
  BY InitIInv
<1>2. IInv /\ [Next]_vars => IInv'
  BY TypeStep, RequestsStep, ScansStep, PassesStep, RowsBelongStep, AbsenceStep
  DEF IInv
<1> QED
  BY <1>1, <1>2, PTL DEF Spec

\* Every variable keeps its type.
THEOREM TypeCorrect == Spec => []TypeOK
BY Inductive, PTL DEF IInv

\* No student is ever ABSENT from a session that is still open, for any number
\* of workers and staff whatever they interleave.
THEOREM NeverAbsentWhileOpen == Spec => []NoAbsenceWhileOpen
BY Inductive, PTL DEF IInv

=============================================================================
