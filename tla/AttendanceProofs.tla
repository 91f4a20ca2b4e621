--------------------------- MODULE AttendanceProofs ---------------------------
(***************************************************************************)
(* What the inductive invariant of AttendanceInvariant is for: the safety  *)
(* properties of Attendance, proved for any number of students, staff,     *)
(* sessions, lectures and workers and for any window lengths.              *)
(***************************************************************************)
EXTENDS AttendanceInvariant

\* An attendance row, once written, is never changed or removed: a second scan
\* cannot turn LATE into PRESENT, and an absence never replaces a scan.
THEOREM RowsStayFinal == Spec => RowsAreFinal
<1>1. IInv /\ [Next]_vars =>
        [\A s \in Students, x \in SessionIds :
           row[s][x] # NoRow => row'[s][x] = row[s][x]]_vars
  BY RowStep
<1> QED
  BY <1>1, Inductive, PTL DEF Spec, RowsAreFinal

-----------------------------------------------------------------------------
(* The life of one session.                                                *)

\* The roll is called on closed sessions, once, and CLOSED is final.
THEOREM LifecycleStaysOneWay == Spec => LifecycleIsOneWay
<1> DEFINE OneWay ==
      \A x \in SessionIds :
        /\ session[x].status = "CLOSED" => session'[x].status = "CLOSED"
        /\ session[x].sweptAt # Never => session'[x].sweptAt = session[x].sweptAt
        /\ session[x].sweptAt = Never /\ session'[x].sweptAt # Never
             => session[x].status = "CLOSED"
<1>1. IInv /\ [Next]_vars => [OneWay]_vars
  <2> SUFFICES ASSUME IInv, [Next]_vars, NEW x \in SessionIds
               PROVE  /\ session[x].status = "CLOSED"
                           => session'[x].status = "CLOSED"
                      /\ session[x].sweptAt # Never
                           => session'[x].sweptAt = session[x].sweptAt
                      /\ session[x].sweptAt = Never /\ session'[x].sweptAt # Never
                           => session[x].status = "CLOSED"
    OBVIOUS
  <2>1. session[x].status = "NONE" => session[x].sweptAt = Never
    BY DEF IInv, TypeOK, SessionRow, Unopened, OpenRow, ClosedRow
  <2> QED
    BY <2>1, SessionUpdate
    DEF IsOpened, IsClosedByHand, IsClosedBySweep, IsRolled
<1> QED
  BY <1>1, Inductive, PTL DEF Spec, LifecycleIsOneWay

\* However far behind a worker is, it does not undo a manual close.
THEOREM ManualCloseIsKept == Spec => ManualCloseStands
<1> DEFINE Stands ==
      \A x \in SessionIds :
        session[x].closeReason = "MANUAL" =>
          /\ session'[x].closeReason = "MANUAL"
          /\ sweep' # sweep => session'[x].endTime = session[x].endTime
<1>1. IInv /\ [Next]_vars => [Stands]_vars
  <2> SUFFICES ASSUME IInv, [Next]_vars, NEW x \in SessionIds,
                      session[x].closeReason = "MANUAL"
               PROVE  /\ session'[x].closeReason = "MANUAL"
                      /\ sweep' # sweep => session'[x].endTime = session[x].endTime
    OBVIOUS
  <2>1. session[x].status = "CLOSED"
    BY DEF IInv, TypeOK, SessionRow, Unopened, OpenRow, ClosedRow
  <2> QED
    BY <2>1, SessionUpdate
    DEF IsOpened, IsClosedByHand, IsClosedBySweep, IsRolled
<1> QED
  BY <1>1, Inductive, PTL DEF Spec, ManualCloseStands

-----------------------------------------------------------------------------
(* Punctuality.                                                            *)

\* However many awaits lie between a scan's arrival and its insert, and whatever
\* the clock says by then, LATE is decided by the arrival.
THEOREM LateStaysDeserved == Spec => LateIsDeserved
<1> DEFINE Deserved ==
      \A s \in Students, x \in SessionIds :
        row[s][x] = NoRow /\ row'[s][x].status \in Attended =>
          (row'[s][x].status = "LATE"
             <=> scan[s].at > session[x].startTime + LateAfter)
<1>1. IInv /\ [Next]_vars => [Deserved]_vars
  <2> SUFFICES ASSUME IInv, [Next]_vars, NEW s \in Students, NEW x \in SessionIds,
                      row[s][x] = NoRow, row'[s][x].status \in Attended
               PROVE  row'[s][x].status = "LATE"
                        <=> scan[s].at > session[x].startTime + LateAfter
    OBVIOUS
  <2>1. CASE row'[s][x] = row[s][x]
    BY <2>1 DEF NoRow, Attended
  <2>2. CASE /\ InsertAttendance(s)
             /\ scan[s].session = x
             /\ row'[s][x] = [status |-> Punctuality(session[x].startTime,
                                                     scan[s].at),
                              scanTime |-> now]
    <3>1. scan[s].at \in Int /\ session[x].startTime \in Int
      BY <2>2, OpenedSessions, AttendanceAssumption
      DEF InsertAttendance, IInv, ScansInFlight, Time
    <3>2. row'[s][x].status = Punctuality(session[x].startTime, scan[s].at)
      BY <2>2
    <3> QED
      BY <3>1, <3>2, WindowAssumption DEF Punctuality
  <2>3. ASSUME NEW w \in Workers,
               row'[s][x] = [status |-> "ABSENT", scanTime |-> sweep[w].at]
        PROVE  FALSE
    BY <2>3 DEF Attended
  <2> QED
    BY <2>1, <2>2, <2>3, RowStep, Zenon
<1> QED
  BY <1>1, Inductive, PTL DEF Spec, LateIsDeserved

-----------------------------------------------------------------------------
(* Automatic closing.                                                      *)

PossibleEnds(x) ==
  {EndsAt(session[x].startTime, slot) : slot \in Slots \union {NoSlot}}

\* What a pass means to close really ended, and more than the grace ago.
StaleIsPast ==
  \A w \in Workers : \A e \in sweep[w].stale :
    /\ e.endsAt + StaleGrace < now
    /\ e.endsAt \in PossibleEnds(e.id)

LEMMA StaleSource ==
  ASSUME TypeOK, [Next]_vars, NEW v \in Workers, NEW e \in sweep'[v].stale
  PROVE  \/ e \in sweep[v].stale
         \/ IsStaleEntry(e) /\ UNCHANGED <<now, session>>
<1>1. CASE StartPass(v)
  BY <1>1, StartPassFields DEF StartPass, SweepStep
<1>2. CASE CloseStale(v)
  BY <1>2, CloseStaleFields
<1>3. CASE ListAwaiting(v)
  BY <1>3, ListAwaitingFields
<1>4. CASE CallRoll(v)
  BY <1>4, CallRollFields DEF KeepsLists
<1>5. CASE ReadRecorded(v) \/ ReadSiblings(v) \/ ReadAttended(v)
  BY <1>5, ReadRecordedFields, ReadSiblingsFields, ReadAttendedFields
  DEF KeepsRoll, KeepsLists
<1>6. CASE WriteAbsences(v)
  BY <1>6, WriteAbsencesFields DEF KeepsRoll, KeepsLists
<1>7. CASE MarkRoll(v)
  BY <1>7, MarkRollFields
<1>8. CASE EndPass(v) \/ PassFails(v)
  BY <1>8, PassOverFields DEF NoSweep
<1> QED
  BY <1>1, <1>2, <1>3, <1>4, <1>5, <1>6, <1>7, <1>8, SweepWriters
  DEF WorkerStep

LEMMA StaleStep ==
  ASSUME IInv, StaleIsPast, [Next]_vars
  PROVE  StaleIsPast'
<1> SUFFICES ASSUME NEW v \in Workers, NEW e \in sweep'[v].stale
             PROVE  /\ e.endsAt + StaleGrace < now'
                    /\ e.endsAt \in PossibleEnds(e.id)'
  BY DEF StaleIsPast
<1>1. now \in Int /\ now' \in Int /\ now <= now' /\ StaleGrace \in Int
  BY NowStep, WindowAssumption DEF IInv
<1>2. CASE e \in sweep[v].stale
  <2>1. e.id \in SessionIds /\ e.endsAt \in Nat
    BY <1>2 DEF IInv, TypeOK, Sweep
  <2>2. session[e.id].status # "NONE"
    BY <1>2 DEF IInv, PassesInFlight, Carries
  <2>3. e.endsAt + StaleGrace < now /\ e.endsAt \in PossibleEnds(e.id)
    BY <1>2 DEF StaleIsPast
  <2>4. session'[e.id].startTime = session[e.id].startTime
    BY <2>1, <2>2, SessionStep
  <2> QED
    BY <1>1, <2>1, <2>3, <2>4 DEF PossibleEnds
<1>3. ASSUME UNCHANGED <<now, session>>, NEW x \in SessionIds,
             e = [id |-> x, endsAt |-> EndsAt(session[x].startTime, SlotOf(x))],
             IsStale(session[x].status, session[x].startTime, SlotOf(x), now)
      PROVE  /\ e.endsAt + StaleGrace < now'
             /\ e.endsAt \in PossibleEnds(e.id)'
  <2>1. EndsAt(session[x].startTime, SlotOf(x)) \in Nat
    BY <1>3, EndsAtIsNat DEF IsStale, IInv
  <2>2. EndsAt(session[x].startTime, SlotOf(x)) + StaleGrace < now
    BY <1>1, <1>3, <2>1 DEF IsStale, StaleAt
  <2>3. EndsAt(session[x].startTime, SlotOf(x)) \in PossibleEnds(x)
    BY SlotOfIsSlot DEF PossibleEnds, IInv
  <2> QED
    BY <1>3, <2>2, <2>3 DEF PossibleEnds
<1> QED
  BY <1>2, <1>3, StaleSource DEF IInv, IsStaleEntry

\* A session the sweep closed ended when its lecture did, more than the grace
\* before now, whatever happened between the read and the write.
THEOREM AutoCloseStaysHonest == Spec => []AutoCloseIsHonest
<1>1. Init => StaleIsPast /\ AutoCloseIsHonest
  BY DEF Init, StaleIsPast, NoSweep, AutoCloseIsHonest, Unopened
<1>2. IInv /\ StaleIsPast /\ AutoCloseIsHonest /\ [Next]_vars
        => StaleIsPast' /\ AutoCloseIsHonest'
  <2> SUFFICES ASSUME IInv, StaleIsPast, AutoCloseIsHonest, [Next]_vars,
                      NEW x \in SessionIds,
                      session'[x].closeReason = "AUTO_STALE"
               PROVE  /\ session'[x].endTime + StaleGrace < now'
                      /\ session'[x].endTime \in PossibleEnds(x)'
    BY StaleStep DEF AutoCloseIsHonest, PossibleEnds
  <2>1. now \in Int /\ now' \in Int /\ now <= now' /\ StaleGrace \in Int
    BY NowStep, WindowAssumption DEF IInv
  <2>2. ASSUME session[x].closeReason = "AUTO_STALE",
               session'[x].endTime = session[x].endTime
        PROVE  /\ session'[x].endTime + StaleGrace < now'
               /\ session'[x].endTime \in PossibleEnds(x)'
    <3>1. session[x].status # "NONE" /\ session[x].endTime \in Nat
      BY <2>2 DEF IInv, TypeOK, SessionRow, Unopened, OpenRow, ClosedRow
    <3>2. session[x].endTime + StaleGrace < now
          /\ session[x].endTime \in PossibleEnds(x)
      BY <2>2 DEF AutoCloseIsHonest, PossibleEnds
    <3> QED
      BY <2>1, <2>2, <3>1, <3>2, SessionStep DEF PossibleEnds
  <2>3. CASE IsClosedBySweep(x)
    <3>0. PICK w \in Workers : \E e \in sweep[w].stale :
            e.id = x /\ session'[x].endTime = e.endsAt
      BY <2>3 DEF IsClosedBySweep
    <3>1. PICK e \in sweep[w].stale :
            e.id = x /\ session'[x].endTime = e.endsAt
      BY <3>0
    <3>2. e.endsAt \in Nat
      BY DEF IInv, TypeOK, Sweep
    <3>3. e.endsAt + StaleGrace < now /\ e.endsAt \in PossibleEnds(x)
      BY <3>1 DEF StaleIsPast
    <3> QED
      BY <2>1, <2>3, <3>1, <3>2, <3>3
      DEF IsClosedBySweep, KeepsOpening, PossibleEnds
  <2> QED
    BY <2>2, <2>3, SessionUpdate DEF IsOpened, IsClosedByHand, IsRolled
<1> QED
  BY <1>1, <1>2, Inductive, PTL DEF Spec

-----------------------------------------------------------------------------
(* The roll.                                                               *)

\* A student the roll of x need not write an absence for.
Accounted(s, x) ==
  \/ row[s][x] # NoRow
  \/ \E y \in Siblings(x) : row[s][y].status \in Attended

\* The invariant of a roll being called: whoever of the cohort is no longer
\* among the missing is accounted for, and nobody is missing who is not of the
\* cohort.
RollProgress(w, s) ==
  LET x == sweep[w].current
  IN /\ sweep[w].pc = "attended" => sweep[w].siblings \subseteq Siblings(x)
     /\ sweep[w].pc \in {"recorded", "siblings", "attended", "absences"} =>
          /\ s \in sweep[w].missing => session[x].lecture \in profile[s]
          /\ session[x].lecture \in profile[s]
               => s \in sweep[w].missing \/ Accounted(s, x)
     /\ sweep[w].pc = "mark" =>
          (session[x].lecture \in profile[s] => Accounted(s, x))

RollInv ==
  /\ \A w \in Workers, s \in Students \ Movers : RollProgress(w, s)
  /\ RollIsComplete

\* A student outside Movers keeps their cohort.
LEMMA ProfileStep ==
  ASSUME TypeOK, [Next]_vars, NEW s \in Students \ Movers
  PROVE  profile'[s] = profile[s]
<1>1. ASSUME NEW u \in Staff, StaffStep(u) PROVE UNCHANGED profile
  BY <1>1 DEF StaffStep, BeginOpen, LoadSchedule, CheckOccurrence,
              CreateSession, BeginClose, CloseSession, RequestEnds, rows
<1>2. ASSUME NEW r \in Students, StudentStep(r) PROVE UNCHANGED profile
  BY <1>2 DEF StudentStep, PresentToken, ReadSession, CheckCohort,
              CheckExisting, InsertAttendance, ScanEnds, ScanStep
<1>3. ASSUME NEW w \in Workers, WorkerStep(w) \/ PassFails(w)
      PROVE  UNCHANGED profile
  BY <1>3 DEF WorkerStep, StartPass, CloseStale, ListAwaiting, CallRoll,
              ReadRecorded, ReadSiblings, ReadAttended, WriteAbsences,
              MarkRoll, EndPass, PassFails, SweepStep
<1>4. ASSUME NEW r \in Students, NEW l \in Lectures, MoveCohort(r, l)
      PROVE  profile'[s] = profile[s]
  BY <1>4 DEF MoveCohort, TypeOK
<1> QED
  BY <1>1, <1>2, <1>3, <1>4 DEF Next, vars, Tick, MintQrToken, EditSchedule

\* A row keeps its student accounted for, and a sibling stays a sibling.
LEMMA AccountedStep ==
  ASSUME IInv, [Next]_vars, NEW s \in Students, NEW x \in SessionIds,
         session[x].status # "NONE"
  PROVE  /\ Siblings(x) \subseteq Siblings(x)'
         /\ Accounted(s, x) => Accounted(s, x)'
<1>1. ASSUME NEW y \in Siblings(x) PROVE y \in Siblings(x)'
  <2>1. y \in SessionIds /\ session[y].status # "NONE"
    BY DEF Siblings, OpenedNear
  <2>2. /\ session'[y].startTime = session[y].startTime
        /\ session'[y].lecture = session[y].lecture
        /\ session'[y].status # "NONE"
        /\ session'[x].startTime = session[x].startTime
        /\ session'[x].lecture = session[x].lecture
    BY <2>1, SessionStep
  <2> QED
    BY <2>1, <2>2 DEF Siblings, OpenedNear
<1>2. ASSUME NEW y \in SessionIds, row[s][y] # NoRow
      PROVE  row'[s][y] = row[s][y]
  BY <1>2, RowStep
<1>3. ASSUME NEW y \in SessionIds, row[s][y].status \in Attended
      PROVE  row[s][y] # NoRow
  BY <1>3 DEF NoRow, Attended
<1>4. Siblings(x) \subseteq SessionIds
  BY DEF Siblings, OpenedNear
<1> QED
  BY <1>1, <1>2, <1>3, <1>4 DEF Accounted

\* The statements of one roll, and then everybody else's.
LEMMA RollOwnStep ==
  ASSUME IInv, [Next]_vars, NEW w \in Workers, WorkerStep(w) \/ PassFails(w),
         NEW s \in Students \ Movers, RollProgress(w, s)
  PROVE  RollProgress(w, s)'
<1>0. ASSUME NEW y \in SessionIds, session[y].status # "NONE"
      PROVE  /\ Siblings(y) \subseteq Siblings(y)'
             /\ Accounted(s, y) => Accounted(s, y)'
  <2>1. s \in Students
    OBVIOUS
  <2> QED
    BY <1>0, <2>1, AccountedStep
<1> USE DEF IInv
<1>1. profile'[s] = profile[s] /\ profile[s] \subseteq Lectures
  BY ProfileStep DEF TypeOK
<1>2. CASE StartPass(w) \/ CloseStale(w) \/ ListAwaiting(w) \/ MarkRoll(w)
  BY <1>2, StartPassFields, CloseStaleFields, ListAwaitingFields,
     MarkRollFields DEF RollProgress
<1>3. CASE EndPass(w) \/ PassFails(w)
  BY <1>3, PassOverFields DEF RollProgress, NoSweep
<1>4. CASE CallRoll(w)
  <2>1. /\ sweep'[w].pc \in {"mark", "recorded"}
        /\ sweep'[w].pc = "mark"
             => session[sweep'[w].current].lecture = NoLecture
        /\ sweep'[w].missing =
             {r \in Students : session[sweep'[w].current].lecture \in profile[r]}
    BY <1>4, CallRollFields
  <2>2. UNCHANGED session
    BY <1>4 DEF CallRoll
  <2>3. NoLecture \notin profile[s]
    BY <1>1, AttendanceAssumption
  <2> QED
    BY <1>1, <2>1, <2>2, <2>3 DEF RollProgress
<1>x. PICK x : x = sweep[w].current
  OBVIOUS
<1>5. ASSUME sweep[w].pc \in {"recorded", "siblings", "attended", "absences"}
      PROVE  /\ x \in SessionIds
             /\ session[x].status # "NONE"
             /\ session'[x].lecture = session[x].lecture
             /\ Siblings(x) \subseteq Siblings(x)'
             /\ Accounted(s, x) => Accounted(s, x)'
             /\ s \in sweep[w].missing => session[x].lecture \in profile[s]
             /\ session[x].lecture \in profile[s]
                  => s \in sweep[w].missing \/ Accounted(s, x)
  <2>1. x \in SessionIds /\ session[x].status # "NONE"
    BY <1>5, <1>x DEF PassesInFlight, Carries
  <2>2. session'[x].lecture = session[x].lecture
    BY <2>1, SessionStep
  <2>3. /\ Siblings(x) \subseteq Siblings(x)'
        /\ Accounted(s, x) => Accounted(s, x)'
    BY <1>0, <2>1
  <2> QED
    BY <1>5, <1>x, <2>1, <2>2, <2>3 DEF RollProgress
<1>6. CASE ReadRecorded(w)
  <2>1. /\ sweep'[w].current = x
        /\ sweep[w].pc = "recorded" /\ sweep'[w].pc = "siblings"
        /\ sweep'[w].missing = {r \in sweep[w].missing : row[r][x] = NoRow}
    BY <1>6, <1>x, ReadRecordedFields DEF KeepsRoll
  <2>2. s \in sweep[w].missing => s \in sweep'[w].missing \/ Accounted(s, x)
    BY <2>1 DEF Accounted
  <2> QED
    BY <1>1, <1>5, <1>x, <2>1, <2>2 DEF RollProgress
<1>7. CASE ReadSiblings(w)
  <2>1. /\ sweep'[w].current = x
        /\ sweep[w].pc = "siblings" /\ sweep'[w].pc = "attended"
        /\ sweep'[w].missing = sweep[w].missing
        /\ sweep'[w].siblings = Siblings(x)
    BY <1>7, <1>x, ReadSiblingsFields DEF KeepsRoll
  <2> QED
    BY <1>1, <1>5, <1>x, <2>1 DEF RollProgress
<1>8. CASE ReadAttended(w)
  <2>1. /\ sweep'[w].current = x
        /\ sweep[w].pc = "attended" /\ sweep'[w].pc = "absences"
        /\ sweep'[w].missing =
             {r \in sweep[w].missing : \A y \in sweep[w].siblings :
                                         row[r][y].status \notin Attended}
    BY <1>8, <1>x, ReadAttendedFields DEF KeepsRoll
  <2>2. sweep[w].siblings \subseteq Siblings(x)
    BY <1>x, <2>1 DEF RollProgress
  <2>3. s \in sweep[w].missing => s \in sweep'[w].missing \/ Accounted(s, x)
    BY <2>1, <2>2 DEF Accounted
  <2> QED
    BY <1>1, <1>5, <1>x, <2>1, <2>3 DEF RollProgress
<1>9. CASE WriteAbsences(w)
  <2>1. /\ sweep'[w].current = x
        /\ sweep[w].pc = "absences" /\ sweep'[w].pc = "mark"
    BY <1>9, <1>x, WriteAbsencesFields DEF KeepsRoll
  <2>2. x \in SessionIds
    BY <1>5, <1>x, <2>1
  <2>3. s \in sweep[w].missing => row'[s][x] # NoRow
    BY <1>9, <1>x, <2>2 DEF WriteAbsences, InsertAbsences, TypeOK, NoRow
  <2>4. session[x].lecture \in profile[s] => Accounted(s, x)'
    BY <1>5, <1>x, <2>1, <2>3 DEF Accounted
  <2> QED
    BY <1>1, <1>5, <1>x, <2>1, <2>4 DEF RollProgress
<1> QED
  BY <1>2, <1>3, <1>4, <1>6, <1>7, <1>8, <1>9 DEF WorkerStep

LEMMA RollOtherStep ==
  ASSUME IInv, [Next]_vars, NEW w \in Workers, sweep'[w] = sweep[w],
         NEW s \in Students \ Movers, RollProgress(w, s)
  PROVE  RollProgress(w, s)'
<1> DEFINE x == sweep[w].current
<1>1. CASE sweep[w].pc \in {"idle", "close", "roll"}
  BY <1>1 DEF RollProgress
<1>2. CASE sweep[w].pc \notin {"idle", "close", "roll"}
  <2>1. x \in SessionIds /\ session[x].status # "NONE"
    BY <1>2 DEF IInv, PassesInFlight, Carries
  <2>2. /\ session'[x].lecture = session[x].lecture
        /\ Siblings(x) \subseteq Siblings(x)'
        /\ Accounted(s, x) => Accounted(s, x)'
    BY <2>1, SessionStep, AccountedStep
  <2>3. profile'[s] = profile[s]
    BY ProfileStep DEF IInv
  <2> QED
    BY <2>2, <2>3 DEF RollProgress
<1> QED
  BY <1>1, <1>2

LEMMA RollInvStep ==
  ASSUME IInv, RollInv, [Next]_vars
  PROVE  RollInv'
<1>1. ASSUME NEW w \in Workers, NEW s \in Students \ Movers
      PROVE  RollProgress(w, s)'
  BY RollOwnStep, RollOtherStep, SweepWriters DEF IInv, RollInv
<1>2. RollIsComplete'
  <2> SUFFICES ASSUME NEW x \in SessionIds, NEW s \in Students \ Movers,
                      Rolled(x)', session'[x].lecture \in profile'[s]
               PROVE  Accounted(s, x)'
    BY DEF RollIsComplete, Accounted
  <2>1. CASE Rolled(x)
    <3>1. session[x].status # "NONE"
      BY <2>1 DEF Rolled, IInv, TypeOK, SessionRow, Unopened, OpenRow,
                  ClosedRow
    <3>2. session[x].lecture \in profile[s]
      BY <3>1, SessionStep, ProfileStep DEF IInv
    <3> QED
      BY <2>1, <3>1, <3>2, AccountedStep DEF RollInv, RollIsComplete, Accounted
  <2>2. CASE ~Rolled(x)
    <3>1. PICK w \in Workers : MarkRoll(w) /\ sweep[w].current = x
      <4>1. ~IsOpened(x) /\ ~IsClosedByHand(x) /\ ~IsClosedBySweep(x)
        BY <2>2 DEF Rolled, IsOpened, IsClosedByHand, IsClosedBySweep
      <4>2. IsRolled(x)
        BY <2>2, <4>1, SessionUpdate DEF Rolled
      <4> QED
        BY <4>2 DEF IsRolled
    <3>2. session[x].status = "CLOSED" /\ sweep[w].pc = "mark"
      BY <3>1 DEF MarkRoll, IInv, PassesInFlight, Carries
    <3>3. session[x].lecture \in profile[s]
      BY <3>2, SessionStep, ProfileStep DEF IInv
    <3> QED
      BY <3>1, <3>2, <3>3, AccountedStep DEF RollInv, RollProgress
  <2> QED
    BY <2>1, <2>2
<1> QED
  BY <1>1, <1>2 DEF RollInv

\* Nobody of the cohort is left out of a roll that is marked as called: however
\* many workers call it at once and wherever any of them stops.
THEOREM RollStaysComplete == Spec => []RollIsComplete
<1>1. Init => RollInv
  BY DEF Init, RollInv, RollProgress, NoSweep, RollIsComplete, Rolled, Unopened
<1>2. IInv /\ RollInv /\ [Next]_vars => RollInv'
  BY RollInvStep
<1> QED
  BY <1>1, <1>2, Inductive, PTL DEF Spec, RollInv

-----------------------------------------------------------------------------
(* Rows and the timetable.                                                 *)

\* A scan past the cohort check is addressed, or needs not be.
ScanEligible(s) ==
  scan[s].pc \in {"existing", "insert"} =>
    session[scan[s].session].lecture \in profile[s] \union {NoLecture}

TimetableInv ==
  /\ RollInv
  /\ \A s \in Students \ Movers : ScanEligible(s)
  /\ RowsMatchTimetable

LEMMA ScanEligibleStep ==
  ASSUME IInv, [Next]_vars, NEW s \in Students \ Movers, ScanEligible(s)
  PROVE  ScanEligible(s)'
<1>1. profile'[s] = profile[s]
  BY ProfileStep DEF IInv
<1>2. ASSUME scan[s].pc # "idle", scan'[s].session = scan[s].session
      PROVE  session'[scan'[s].session].lecture
               = session[scan[s].session].lecture
  BY <1>2, SessionStep DEF IInv, ScansInFlight
<1>3. CASE scan'[s] = scan[s]
  BY <1>1, <1>2, <1>3 DEF ScanEligible
<1>4. CASE scan'[s].pc = "idle"
  BY <1>4 DEF ScanEligible
<1>5. ASSUME NEW x \in SessionIds, PresentToken(s, x) PROVE ScanEligible(s)'
  BY <1>5 DEF PresentToken, ScanStep, ScanEligible, IInv, TypeOK
<1>6. ASSUME scan[s].pc # "idle", scan'[s].session = scan[s].session,
             ReadSession(s) \/ CheckCohort(s) \/ CheckExisting(s)
      PROVE  ScanEligible(s)'
  <2>1. scan \in [Students -> Scan]
    BY DEF IInv, TypeOK
  <2>2. CASE ReadSession(s)
    <3>1. scan'[s].pc = IF session[scan[s].session].lecture # NoLecture
                          THEN "cohort" ELSE "existing"
      BY <2>1, <2>2 DEF ReadSession, ScanStep, Scan
    <3> QED
      BY <1>2, <1>6, <3>1 DEF ScanEligible
  <2>3. CASE CheckCohort(s)
    BY <1>1, <1>2, <1>6, <2>3 DEF CheckCohort, ScanEligible
  <2>4. CASE CheckExisting(s)
    BY <1>1, <1>2, <1>6, <2>4 DEF CheckExisting, ScanEligible
  <2> QED
    BY <1>6, <2>2, <2>3, <2>4
<1> QED
  BY <1>3, <1>4, <1>5, <1>6, ScanWriters DEF IInv

\* Both writers of rows agree with the timetable about who belongs.
THEOREM RowsStayOnTimetable == Spec => []RowsMatchTimetable
<1>1. Init => TimetableInv
  BY DEF Init, TimetableInv, RollInv, RollProgress, NoSweep, RollIsComplete,
         Rolled, Unopened, ScanEligible, NoScan, RowsMatchTimetable
<1>2. IInv /\ TimetableInv /\ [Next]_vars => TimetableInv'
  <2> SUFFICES ASSUME IInv, TimetableInv, [Next]_vars, NEW s \in Students \ Movers
               PROVE  /\ ScanEligible(s)'
                      /\ \A x \in SessionIds :
                           row'[s][x] # NoRow =>
                             \/ session'[x].lecture \in profile'[s]
                             \/ /\ session'[x].lecture = NoLecture
                                /\ row'[s][x].status # "ABSENT"
    BY RollInvStep DEF TimetableInv, RowsMatchTimetable
  <2>1. ScanEligible(s)'
    BY ScanEligibleStep DEF TimetableInv
  <2>2. ASSUME NEW x \in SessionIds, row'[s][x] # NoRow
        PROVE  \/ session'[x].lecture \in profile'[s]
               \/ /\ session'[x].lecture = NoLecture
                  /\ row'[s][x].status # "ABSENT"
    <3>1. profile'[s] = profile[s]
      BY ProfileStep DEF IInv
    <3>2. CASE row'[s][x] = row[s][x]
      <4>1. session[x].status # "NONE"
        BY <2>2, <3>2 DEF IInv, RowsBelong
      <4>2. session'[x].lecture = session[x].lecture
        BY <4>1, SessionStep
      <4> QED
        BY <2>2, <3>1, <3>2, <4>2 DEF TimetableInv, RowsMatchTimetable
    <3>3. CASE /\ InsertAttendance(s)
               /\ scan[s].session = x
               /\ row'[s][x] = [status |-> Punctuality(session[x].startTime,
                                                       scan[s].at),
                                scanTime |-> now]
      <4>1. session'[x].lecture \in profile[s] \union {NoLecture}
        BY <3>3 DEF InsertAttendance, ScanStep, TimetableInv, ScanEligible
      <4>2. row'[s][x].status # "ABSENT"
        BY <3>3 DEF Punctuality
      <4> QED
        BY <3>1, <4>1, <4>2
    <3>4. ASSUME NEW w \in Workers, WriteAbsences(w), sweep[w].current = x,
                 s \in sweep[w].missing
          PROVE  session'[x].lecture \in profile'[s]
      BY <3>1, <3>4 DEF WriteAbsences, TimetableInv, RollInv, RollProgress
    <3> QED
      BY <3>2, <3>3, <3>4, RowStep
  <2> QED
    BY <2>1, <2>2
<1> QED
  BY <1>1, <1>2, Inductive, PTL DEF Spec, TimetableInv

-----------------------------------------------------------------------------
(* Scans come from the room.                                               *)

\* t lies inside the lecture, for one of the slots it may have had.
During(x, t) ==
  /\ session[x].startTime <= t
  /\ \E slot \in Slots \union {NoSlot} : t <= EndsAt(session[x].startTime, slot)

\* Codes are signed, and scans let past the session check, only during it.
RoomInv ==
  /\ \A x \in SessionIds : qr[x] # Never => During(x, qr[x])
  /\ \A s \in Students :
       LET x == scan[s].session
       IN /\ scan[s].pc # "idle" => During(x, scan[s].token)
          /\ scan[s].pc \notin {"idle", "session"} => During(x, scan[s].at)

LEMMA ScannableIsDuring ==
  ASSUME TypeOK, NEW x \in SessionIds, NEW t \in Time,
         session[x].status # "NONE",
         IsScannable(session[x].status, session[x].startTime, SlotOf(x), t)
  PROVE  During(x, t)
<1>1. /\ session[x].startTime \in Int /\ t \in Int
      /\ EndsAt(session[x].startTime, SlotOf(x)) \in Int
  BY OpenedSessions, EndsAtIsNat, AttendanceAssumption DEF Time
<1>2. ~(t < session[x].startTime)
      /\ ~(t > EndsAt(session[x].startTime, SlotOf(x)))
  BY DEF IsScannable, SessionState
<1> QED
  BY <1>1, <1>2, SlotOfIsSlot DEF During

LEMMA DuringStep ==
  ASSUME IInv, [Next]_vars, NEW x \in SessionIds, session[x].status # "NONE",
         NEW t, During(x, t)
  PROVE  During(x, t)'
BY SessionStep DEF During

\* Every code is signed, and every admitted scan arrived, during its lecture.
LEMMA RoomStep ==
  ASSUME IInv, RoomInv, [Next]_vars
  PROVE  RoomInv'
<1>0. \A x \in SessionIds : \A t :
        session[x].status # "NONE" /\ During(x, t) => During(x, t)'
  BY DuringStep
<1>1. ASSUME NEW x \in SessionIds, NEW t, t = qr'[x], t # Never
      PROVE  During(x, t)'
  <2>1. CASE qr'[x] = qr[x]
    <3>1. session[x].status # "NONE" /\ During(x, t)
      BY <1>1, <2>1 DEF IInv, RowsBelong, RoomInv
    <3> QED
      BY <1>0, <3>1
  <2>2. CASE MintQrToken(x)
    <3>1. t = now /\ t \in Time /\ session[x].status # "NONE"
      BY <1>1, <2>2 DEF MintQrToken, IInv, TypeOK
    <3>2. During(x, t)
      BY <2>2, <3>1, ScannableIsDuring DEF MintQrToken, IInv
    <3> QED
      BY <1>0, <3>1, <3>2
  <2> QED
    BY <1>1, <2>1, <2>2, QrWriters DEF IInv
<1>2. ASSUME NEW s \in Students, NEW x, x = scan'[s].session,
             scan'[s].pc # "idle"
      PROVE  /\ \A t : t = scan'[s].token => During(x, t)'
             /\ scan'[s].pc # "session" =>
                  \A t : t = scan'[s].at => During(x, t)'
  <2>1. scan \in [Students -> Scan]
    BY DEF IInv, TypeOK
  <2>2. scan[s].pc # "idle" => /\ scan[s].session \in SessionIds
                               /\ session[scan[s].session].status # "NONE"
                               /\ scan[s].at \in Time
    BY DEF IInv, ScansInFlight
  <2>3. CASE scan'[s] = scan[s]
    BY <1>0, <1>2, <2>2, <2>3 DEF RoomInv
  <2>4. ASSUME NEW y \in SessionIds, PresentToken(s, y)
        PROVE  /\ \A t : t = scan'[s].token => During(x, t)'
               /\ scan'[s].pc = "session"
    <3>1. scan'[s] = [pc |-> "session", session |-> y, at |-> now,
                      token |-> qr[y]]
      BY <2>1, <2>4 DEF PresentToken, ScanStep
    <3>2. session[y].status # "NONE" /\ During(y, qr[y])
      BY <2>4 DEF PresentToken, IInv, RowsBelong, RoomInv
    <3> QED
      BY <1>0, <1>2, <3>1, <3>2
  <2>5. ASSUME scan[s].pc # "idle",
               scan'[s].session = scan[s].session,
               scan'[s].at = scan[s].at,
               scan'[s].token = scan[s].token,
               ReadSession(s) \/ CheckCohort(s) \/ CheckExisting(s)
        PROVE  /\ \A t : t = scan'[s].token => During(x, t)'
               /\ scan'[s].pc # "session" =>
                    \A t : t = scan'[s].at => During(x, t)'
    <3>1. During(x, scan[s].token)
      BY <1>2, <2>5 DEF RoomInv
    <3>2. During(x, scan[s].at)
      <4>1. CASE ReadSession(s)
        BY <1>2, <2>2, <2>5, <4>1, ScannableIsDuring DEF ReadSession, IInv
      <4>2. CASE CheckCohort(s) \/ CheckExisting(s)
        BY <1>2, <2>5, <4>2 DEF CheckCohort, CheckExisting, RoomInv
      <4> QED
        BY <2>5, <4>1, <4>2
    <3> QED
      BY <1>0, <1>2, <2>2, <2>5, <3>1, <3>2
  <2> QED
    BY <1>2, <2>3, <2>4, <2>5, ScanWriters DEF IInv
<1> QED
  BY <1>1, <1>2 DEF RoomInv

\* However many statements lie between a scan's arrival and its insert, a
\* PRESENT or LATE row was earned during the lecture.
THEOREM ScansStayInTheRoom == Spec => ScanFromTheRoom
<1> DEFINE FromTheRoom ==
      \A s \in Students, x \in SessionIds :
        row[s][x] = NoRow /\ row'[s][x].status \in Attended =>
          \E slot \in Slots \union {NoSlot} :
            \A t \in {scan[s].at, scan[s].token} :
              session[x].startTime <= t /\ t <= EndsAt(session[x].startTime, slot)
<1>1. Init => RoomInv
  BY DEF Init, RoomInv, NoScan
<1>2. IInv /\ RoomInv /\ [Next]_vars => RoomInv'
  BY RoomStep
<1>3. IInv /\ RoomInv /\ [Next]_vars => [FromTheRoom]_vars
  <2> SUFFICES ASSUME IInv, RoomInv, [Next]_vars,
                      NEW s \in Students, NEW x \in SessionIds,
                      row[s][x] = NoRow, row'[s][x].status \in Attended
               PROVE  \E slot \in Slots \union {NoSlot} :
                        \A t \in {scan[s].at, scan[s].token} :
                          /\ session[x].startTime <= t
                          /\ t <= EndsAt(session[x].startTime, slot)
    OBVIOUS
  <2>1. InsertAttendance(s) /\ scan[s].session = x
    <3>1. row'[s][x] # row[s][x]
      BY DEF NoRow, Attended
    <3>2. ASSUME NEW w \in Workers,
                 row'[s][x] = [status |-> "ABSENT", scanTime |-> sweep[w].at]
          PROVE  FALSE
      BY <3>2 DEF Attended
    <3> QED
      BY <3>1, <3>2, RowStep, Zenon
  <2>2. During(x, scan[s].at) /\ During(x, scan[s].token)
    BY <2>1 DEF InsertAttendance, RoomInv
  <2>3. PICK a \in Slots \union {NoSlot} :
          scan[s].at <= EndsAt(session[x].startTime, a)
    BY <2>2 DEF During
  <2>4. PICK b \in Slots \union {NoSlot} :
          scan[s].token <= EndsAt(session[x].startTime, b)
    BY <2>2 DEF During
  <2>5. /\ scan[s].at \in Int /\ scan[s].token \in Int
        /\ session[x].startTime \in Int
    <3>1. session[x].status # "NONE"
      BY <2>1 DEF InsertAttendance, IInv, ScansInFlight
    <3> QED
      BY <3>1, OpenedSessions, AttendanceAssumption
      DEF IInv, TypeOK, Scan, MaybeTime, Time, Never
  <2>6. LectureDuration(a) \in Int /\ LectureDuration(b) \in Int
    <3>1. NoSlot \in Slot
      BY DEF NoSlot, Slot, Clock, NoClock
    <3> QED
      BY <3>1, DurationIsPositive, AttendanceAssumption
  <2>7. CASE LectureDuration(a) <= LectureDuration(b)
    <3>1. scan[s].at <= EndsAt(session[x].startTime, b)
      BY <2>3, <2>5, <2>6, <2>7 DEF EndsAt
    <3> QED
      BY <2>2, <2>4, <3>1 DEF During
  <2>8. CASE ~(LectureDuration(a) <= LectureDuration(b))
    <3>1. scan[s].token <= EndsAt(session[x].startTime, a)
      BY <2>4, <2>5, <2>6, <2>8 DEF EndsAt
    <3> QED
      BY <2>2, <2>3, <3>1 DEF During
  <2> QED
    BY <2>7, <2>8
<1> QED
  BY <1>1, <1>2, <1>3, Inductive, PTL DEF Spec, ScanFromTheRoom

-----------------------------------------------------------------------------
(* The duplicate guard.  With one operator nothing slips in between the    *)
(* read of assertOccurrenceNotAlreadyOpened and the insert, so the         *)
(* statements of createSession, for all that they are apart, open no       *)
(* second session; attendance_duplicate shows that with two they may.      *)

OneOperator == \A u, v \in Staff : u = v

FarApart(s, t) == s - t > OpenLate \/ t - s > OpenLate

OpenedApart ==
  /\ \A x \in SessionIds : session[x].status # "NONE" => session[x].startTime <= now
  /\ \A x, y \in SessionIds :
       (/\ x # y
        /\ session[x].status # "NONE" /\ session[y].status # "NONE"
        /\ session[x].lecture = session[y].lecture
        /\ session[x].lecture # NoLecture)
       => FarApart(session[x].startTime, session[y].startTime)

\* What a request has learnt: what was opened had been opened when it read the
\* clock, and after the check, what is its lecture's is too old to be its twin.
DeskKnows(q) ==
  /\ q.pc \in {"load", "check"} =>
       /\ q.at \in Time /\ q.at <= now
       /\ \A x \in SessionIds :
            session[x].status # "NONE" => session[x].startTime <= q.at
  /\ q.pc = "create" /\ q.lecture # NoLecture =>
       \A x \in SessionIds :
         session[x].status # "NONE" /\ session[x].lecture = q.lecture
           => now - session[x].startTime > OpenLate

DeskInv ==
  /\ OneOperator
  /\ OpenedApart
  /\ \A u \in Staff : DeskKnows(request[u])

\* Nothing but the insert of createSession makes a session.
LEMMA OnlyInsertOpens ==
  ASSUME IInv, [Next]_vars, ~ \E u \in Staff : CreateSession(u),
         NEW x \in SessionIds, session[x].status = "NONE"
  PROVE  session'[x].status = "NONE"
<1>1. session \in [SessionIds -> SessionRow]
  BY DEF IInv, TypeOK
<1>2. ASSUME NEW u \in Staff, CloseSession(u) PROVE session'[x] = session[x]
  <2>1. request[u].session # x
    BY <1>2 DEF CloseSession, IInv, RequestsInFlight
  <2> QED
    BY <1>1, <1>2, <2>1 DEF CloseSession
<1>3. ASSUME NEW w \in Workers, CloseStale(w) PROVE session'[x] = session[x]
  BY <1>1, <1>3 DEF CloseStale, CloseIfOpen
<1>4. ASSUME NEW w \in Workers, MarkRoll(w) PROVE session'[x] = session[x]
  <2>1. session[sweep[w].current].status = "CLOSED"
    BY <1>4 DEF MarkRoll, IInv, PassesInFlight, Carries
  <2> QED
    BY <1>1, <1>4, <2>1 DEF MarkRoll, MarkSwept
<1> QED
  BY <1>2, <1>3, <1>4, SessionWriters

\* A request that moves on either opens, loads, checks, or has nothing to know.
LEMMA DeskWriters ==
  ASSUME TypeOK, [Next]_vars, NEW v \in Staff
  PROVE  \/ request'[v] = request[v]
         \/ \E l \in Openable : BeginOpen(v, l)
         \/ LoadSchedule(v)
         \/ CheckOccurrence(v)
         \/ request'[v].pc \in {"idle", "close"}
<1>1. request \in [Staff -> Request]
  BY DEF TypeOK
<1>2. ASSUME NEW u \in Staff, NEW next, RequestStep(u, next)
      PROVE  request'[v] = IF u = v THEN next ELSE request[v]
  BY <1>1, <1>2 DEF RequestStep
<1>3. ASSUME NEW u \in Staff, StaffStep(u)
      PROVE  \/ request'[v] = request[v]
             \/ \E l \in Openable : BeginOpen(v, l)
             \/ LoadSchedule(v)
             \/ CheckOccurrence(v)
             \/ request'[v].pc \in {"idle", "close"}
  <2>1. ASSUME NEW l \in Openable, BeginOpen(u, l)
        PROVE  request'[v] = request[v] \/ BeginOpen(v, l)
    BY <1>2, <2>1 DEF BeginOpen
  <2>2. CASE LoadSchedule(u)
    BY <1>2, <2>2 DEF LoadSchedule
  <2>3. CASE CheckOccurrence(u)
    BY <1>2, <2>3 DEF CheckOccurrence
  <2>4. CASE CreateSession(u) \/ CloseSession(u) \/ RequestEnds(u)
    BY <1>2, <2>4 DEF CreateSession, CloseSession, RequestEnds, NoRequest
  <2>5. ASSUME NEW x \in SessionIds, BeginClose(u, x)
        PROVE  request'[v] = request[v] \/ request'[v].pc = "close"
    <3>1. [NoRequest EXCEPT !.pc = "close", !.session = x].pc = "close"
      BY Zenon DEF NoRequest
    <3> QED
      BY <1>2, <2>5, <3>1 DEF BeginClose
  <2> QED
    BY <1>3, <2>1, <2>2, <2>3, <2>4, <2>5 DEF StaffStep
<1>4. ASSUME NEW s \in Students, StudentStep(s) PROVE UNCHANGED request
  BY <1>4 DEF StudentStep, PresentToken, ReadSession, CheckCohort,
              CheckExisting, InsertAttendance, ScanEnds, ScanStep
<1>5. ASSUME NEW w \in Workers, WorkerStep(w) \/ PassFails(w)
      PROVE  UNCHANGED request
  BY <1>5 DEF WorkerStep, StartPass, CloseStale, ListAwaiting, CallRoll,
              ReadRecorded, ReadSiblings, ReadAttended, WriteAbsences,
              MarkRoll, EndPass, PassFails, SweepStep
<1> QED
  BY <1>3, <1>4, <1>5
  DEF Next, vars, Tick, MintQrToken, EditSchedule, MoveCohort

\* The insert: all there was of the lecture is far behind.
LEMMA DeskOpens ==
  ASSUME IInv, DeskInv, NEW u \in Staff, CreateSession(u)
  PROVE  DeskInv'
<1>1. PICK x \in SessionIds :
        /\ session[x].status = "NONE"
        /\ session' = [session EXCEPT ![x] = Opened(request[u].lecture, now)]
        /\ now' = now /\ request' = [request EXCEPT ![u] = NoRequest]
        /\ request[u].pc = "create"
  BY DEF CreateSession, RequestStep
<1>2. /\ session \in [SessionIds -> SessionRow] /\ request \in [Staff -> Request]
      /\ now \in Nat
  BY AttendanceAssumption DEF IInv, TypeOK, Time
<1>3. PICK l \in Lectures \union {NoLecture} : l = request[u].lecture
  BY <1>2 DEF Request
<1>4. /\ session'[x].startTime = now /\ session'[x].lecture = l
      /\ \A y \in SessionIds : y # x => session'[y] = session[y]
  <2>1. Opened(l, now).startTime = now /\ Opened(l, now).lecture = l
    BY DEF Opened, Unopened
  <2> QED
    BY <1>1, <1>2, <1>3, <2>1
<1>5. \A y \in SessionIds :
        session[y].status # "NONE" =>
          /\ session[y].startTime \in Nat /\ session[y].startTime <= now
          /\ session[y].lecture = l /\ l # NoLecture
               => now - session[y].startTime > OpenLate
  BY <1>1, <1>3, OpenedSessions, AttendanceAssumption
  DEF DeskInv, DeskKnows, OpenedApart, IInv, Time
<1>6. \A v \in Staff : request'[v] = NoRequest
  BY <1>1, <1>2 DEF DeskInv, OneOperator
<1>7. \A v \in Staff : DeskKnows(request[v])'
  BY <1>6 DEF DeskKnows, NoRequest
<1>8. ASSUME NEW y \in SessionIds, session'[y].status # "NONE"
      PROVE  session'[y].startTime <= now'
  BY <1>1, <1>2, <1>4, <1>5, <1>8
<1>9. ASSUME NEW y \in SessionIds, NEW z \in SessionIds, y # z,
             session'[y].status # "NONE", session'[z].status # "NONE",
             session'[y].lecture = session'[z].lecture,
             session'[y].lecture # NoLecture
      PROVE  FarApart(session'[y].startTime, session'[z].startTime)
  <2>1. CASE y = x
    BY <1>4, <1>5, <1>9, <2>1 DEF FarApart
  <2>2. CASE z = x
    BY <1>4, <1>5, <1>9, <2>2 DEF FarApart
  <2>3. CASE y # x /\ z # x
    BY <1>4, <1>9, <2>3 DEF DeskInv, OpenedApart
  <2> QED
    BY <2>1, <2>2, <2>3
<1> QED
  BY <1>7, <1>8, <1>9 DEF DeskInv, OneOperator, OpenedApart

\* Anything else: the same sessions, a later clock, and a request that knows
\* what it knew or has just read it.
LEMMA DeskElse ==
  ASSUME IInv, DeskInv, [Next]_vars, ~ \E u \in Staff : CreateSession(u)
  PROVE  DeskInv'
<1>1. ASSUME NEW x \in SessionIds, session'[x].status # "NONE"
      PROVE  /\ session[x].status # "NONE"
             /\ session'[x].startTime = session[x].startTime
             /\ session'[x].lecture = session[x].lecture
             /\ session[x].startTime \in Nat
  <2>1. session[x].status # "NONE"
    BY <1>1, OnlyInsertOpens
  <2>2. session[x].startTime \in Nat
    BY <2>1, OpenedSessions, AttendanceAssumption DEF IInv, Time
  <2> QED
    BY <2>1, <2>2, SessionStep
<1>2. now \in Int /\ now' \in Int /\ now <= now' /\ now \in Time
  BY NowStep DEF IInv, TypeOK
<1>3. OpenedApart'
  BY <1>1, <1>2 DEF DeskInv, OpenedApart, FarApart
<1>4. ASSUME NEW q, DeskKnows(q), q.pc = "create" \/ q.at \in Int PROVE DeskKnows(q)'
  <2>1. OpenLate \in Nat
    BY WindowAssumption
  <2>2. q.pc \in {"load", "check"} =>
          /\ q.at \in Time /\ q.at <= now'
          /\ \A x \in SessionIds :
               session'[x].status # "NONE" => session'[x].startTime <= q.at
    BY <1>1, <1>2, <1>4, AttendanceAssumption DEF DeskKnows, Time
  <2>3. q.pc = "create" /\ q.lecture # NoLecture =>
          \A x \in SessionIds :
            session'[x].status # "NONE" /\ session'[x].lecture = q.lecture
              => now' - session'[x].startTime > OpenLate
    BY <1>1, <1>2, <1>4, <2>1 DEF DeskKnows
  <2> QED
    BY <2>2, <2>3 DEF DeskKnows
<1>5. ASSUME NEW v \in Staff PROVE DeskKnows(request[v])'
  <2>1. PICK q \in Request : q = request[v] /\ DeskKnows(q)
    BY DEF IInv, TypeOK, DeskInv
  <2>2. request \in [Staff -> Request]
    BY DEF IInv, TypeOK
  <2>3. SUFFICES ASSUME NEW r, r = request'[v] PROVE DeskKnows(r)'
    BY DEF DeskKnows
  <2>4. CASE r = q
    <3>1. q.at \in Int
      BY AttendanceAssumption DEF Request, MaybeTime, Time, Never
    <3> QED
      BY <1>4, <2>1, <2>4, <3>1
  <2>5. ASSUME NEW l \in Openable, BeginOpen(v, l) PROVE DeskKnows(r)'
    <3>1. /\ UNCHANGED <<now, session>>
          /\ r = [pc |-> IF l = NoLecture THEN "create" ELSE "load",
                  lecture |-> l, session |-> NoSession,
                  at |-> IF l = NoLecture THEN Never ELSE now]
      BY <2>2, <2>3, <2>5 DEF BeginOpen, RequestStep, rows
    <3> QED
      BY <1>2, <3>1 DEF DeskKnows, DeskInv, OpenedApart
  <2>6. CASE LoadSchedule(v)
    <3>1. UNCHANGED <<now, session>> /\ q.pc = "load" /\ r = [q EXCEPT !.pc = "check"]
      BY <2>1, <2>2, <2>3, <2>6 DEF LoadSchedule, RequestStep, rows
    <3>2. r.pc = "check" /\ r.at = q.at
      BY <3>1 DEF Request
    <3> QED
      BY <2>1, <3>1, <3>2 DEF DeskKnows
  <2>7. CASE CheckOccurrence(v)
    <3>1. /\ UNCHANGED <<now, session>> /\ q.pc = "check"
          /\ r = [q EXCEPT !.pc = "create", !.at = Never]
          /\ OpenedNear(q.lecture, q.at) = {}
      BY <2>1, <2>2, <2>3, <2>7 DEF CheckOccurrence, RequestStep, rows
    <3>2. r.pc = "create" /\ r.lecture = q.lecture
      BY <3>1 DEF Request
    <3>3. q.at \in Nat /\ q.at <= now /\ OpenLate \in Nat \ {0}
      BY <2>1, <3>1, WindowAssumption, AttendanceAssumption DEF DeskKnows, Time
    <3>4. ASSUME NEW x \in SessionIds, session[x].status # "NONE",
                 session[x].lecture = q.lecture
          PROVE  now - session[x].startTime > OpenLate
      <4>1. session[x].startTime <= q.at /\ session[x].startTime \in Nat
        BY <2>1, <3>1, <3>4, OpenedSessions, AttendanceAssumption
        DEF DeskKnows, IInv, Time
      <4>2. ~SameOccurrenceWindow(q.at, session[x].startTime)
        BY <3>1, <3>4 DEF OpenedNear
      <4> QED
        BY <1>2, <3>3, <4>1, <4>2 DEF SameOccurrenceWindow
    <3> QED
      BY <3>1, <3>2, <3>4 DEF DeskKnows
  <2>8. CASE r.pc \in {"idle", "close"}
    BY <2>8 DEF DeskKnows
  <2> QED
    BY <2>1, <2>3, <2>4, <2>5, <2>6, <2>7, <2>8, DeskWriters DEF IInv
<1> QED
  BY <1>3, <1>5 DEF DeskInv, OneOperator

\* One operator never opens a second session for an occurrence, however long
\* the statements of createSession take, whatever the sweep closes meanwhile
\* and however the timetable is edited.
THEOREM OneOperatorOpensOnce == OneOperator /\ Spec => []OneSessionPerOccurrence
<1>1. OneOperator /\ Init => DeskInv
  BY DEF Init, DeskInv, OpenedApart, DeskKnows, NoRequest, Unopened
<1>2. IInv /\ DeskInv /\ [Next]_vars => DeskInv'
  BY DeskOpens, DeskElse
<1>3. IInv /\ DeskInv => OneSessionPerOccurrence
  <2> SUFFICES ASSUME IInv, DeskInv, NEW x \in SessionIds,
                      session[x].lecture # NoLecture, NEW y \in Siblings(x)
               PROVE  FALSE
    BY DEF OneSessionPerOccurrence
  <2>1. /\ y \in SessionIds /\ y # x /\ session[y].status # "NONE"
        /\ session[y].lecture = session[x].lecture
        /\ SameOccurrenceWindow(session[x].startTime, session[y].startTime)
    BY DEF Siblings, OpenedNear
  <2>2. session[x].status # "NONE"
    BY DEF IInv, TypeOK, SessionRow, Unopened, OpenRow, ClosedRow
  <2>3. FarApart(session[x].startTime, session[y].startTime)
    BY <2>1, <2>2 DEF DeskInv, OpenedApart
  <2>4. session[x].startTime \in Nat /\ session[y].startTime \in Nat
    BY <2>1, <2>2, OpenedSessions, AttendanceAssumption DEF IInv, Time
  <2> QED
    BY <2>1, <2>3, <2>4, WindowAssumption DEF FarApart, SameOccurrenceWindow
<1> QED
  BY <1>1, <1>2, <1>3, Inductive, PTL DEF Spec
=============================================================================
