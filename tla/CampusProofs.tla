----------------------------- MODULE CampusProofs -----------------------------
(***************************************************************************)
(* The campus administration, for every number of rows, requests, calls    *)
(* and runs: who is addressed, the timetable's slots, accounts and their   *)
(* identities, the console's session and forms, and the seeds.             *)
(***************************************************************************)
EXTENDS Accounts, Timetable, Cohorts, WebSession, Seeds, Console, FiniteSetTheorems, TLAPS

-----------------------------------------------------------------------------
(* Who is addressed.                                                       *)

LEMMA TrimmedStays ==
  ASSUME NEW t \in Typed, ~t.padded PROVE Trim(t) = t
BY DEF Typed, Trim

\* The readers agree over anything that can be typed, on whichever side.
THEOREM NobodyIsRolledOutside == CohortsSpec => []NobodyRolledOutside
<1>1. NobodyRolledOutside
  <2> SUFFICES ASSUME NEW s \in Pupils, NEW a \in Address
               PROVE
      /\ OnTimetable(profile[s], a) <=> LetIn(profile[s], a)
      /\ \/ Reminded(profile[s], a) \/ OnTheRoll(profile[s], a)
         \/ OnTheRoster(profile[s], a) \/ SeesLink(profile[s], a)
         => OnTimetable(profile[s], a)
    BY DEF NobodyRolledOutside
  <2>1. /\ a.section \in Typed /\ ~a.section.padded /\ a.semester \in {1, 2}
        /\ a.section.word \in Words
    BY DEF Address, Typed
  <2>2. Trim(a.section) = a.section
    BY <2>1, TrimmedStays
  <2>3. OnTimetable(profile[s], a) <=> LetIn(profile[s], a)
    BY <2>2 DEF OnTimetable, LetIn
  <2>4. a.section # Nothing /\ a.section.word # NoWord
    BY <2>1, CohortAssumption DEF Nothing
  <2>5. \/ Reminded(profile[s], a) \/ OnTheRoll(profile[s], a)
        \/ OnTheRoster(profile[s], a) \/ SeesLink(profile[s], a)
        => profile[s].section = a.section /\ Semester(profile[s]) = a.semester
    BY <2>2, <2>4 DEF Reminded, OnTheRoll, OnTheRoster, InColumn, SeesLink
  <2>6. profile[s].section = a.section /\ Semester(profile[s]) = a.semester
          => OnTimetable(profile[s], a)
    BY <2>1, <2>2, <2>4 DEF OnTimetable, Resolves, IsFilled
  <2> QED
    BY <2>3, <2>5, <2>6
<1> QED
  BY <1>1, PTL

-----------------------------------------------------------------------------
(* The timetable.  What a request has read and checked is still so while   *)
(* no other request has written, which is what `late' tells: then the row  *)
(* it is about to write clashes with none.                                 *)

ClashesWithOne(l, b) == \E k \in Lectures \ {l} : Clashing(b, lecture[k])

CheckedInTime ==
  \A r \in Planners :
    LET p == planner[r]
    IN ~p.late =>
         /\ p.pc \in {"teacher", "slot", "room"} => Booked(p) = p.merged
         /\ p.pc = "room" => \A k \in Rivals(p.lecture, p.merged) :
                               lecture[k].teacher # p.merged.teacher
         /\ p.pc = "save" => ~ClashesWithOne(p.lecture, Booked(p))

TimetableInv == TimetableTypeOK /\ CheckedInTime /\ ClashesOnlyFromRaces

LEMMA MergedBookings ==
  /\ \A b \in Booking, d \in Draft : Merged(b, d) \in Booking
  /\ \A d \in Draft : FullyStated(d) => [Merged(NotBooked, d) EXCEPT !.active = TRUE] \in Booking
  /\ NoDraft \in Draft /\ [NoDraft EXCEPT !.active = "off"] \in Draft
  /\ NotBooked \notin Booking
<1>1. \A b \in Booking, d \in Draft : Merged(b, d) \in Booking
  BY TimetableAssumption DEF Merged, Booking, Draft
<1>2. ASSUME NEW d \in Draft, FullyStated(d)
      PROVE  [Merged(NotBooked, d) EXCEPT !.active = TRUE] \in Booking
  BY <1>2 DEF FullyStated, Merged, NotBooked, Booking, Draft
<1>3. NoDraft \in Draft /\ [NoDraft EXCEPT !.active = "off"] \in Draft
  BY DEF NoDraft, Draft
<1>4. NotBooked \notin Booking
  BY TimetableAssumption DEF NotBooked, Booking
<1> QED
  BY <1>1, <1>2, <1>3, <1>4

LEMMA RestingPlans ==
  ASSUME NEW l \in Lectures
  PROVE  /\ Resting(l) \in Planning /\ [Resting(l) EXCEPT !.pc = "reset"] \in Planning
         /\ Resting(l).pc = "idle" /\ [Resting(l) EXCEPT !.pc = "reset"].pc = "reset"
BY MergedBookings DEF Resting, Planning

LEMMA PlanningMoves ==
  ASSUME NEW p \in Planning, NEW pc \in {"slot", "save", "room"}
  PROVE  /\ [p EXCEPT !.pc = pc] \in Planning /\ [p EXCEPT !.pc = pc].pc = pc
         /\ [p EXCEPT !.pc = pc].lecture = p.lecture
         /\ [p EXCEPT !.pc = pc].draft = p.draft
         /\ [p EXCEPT !.pc = pc].merged = p.merged
         /\ [p EXCEPT !.pc = pc].late = p.late
BY DEF Planning

LEMMA LatePlans ==
  ASSUME NEW p \in Planning, NEW late \in BOOLEAN
  PROVE  /\ [p EXCEPT !.late = late] \in Planning
         /\ [p EXCEPT !.late = late].late = late
         /\ [p EXCEPT !.late = late].pc = p.pc
BY DEF Planning

LEMMA SomeLecture == (CHOOSE l \in Lectures : TRUE) \in Lectures
BY TimetableAssumption

LEMMA TimetableStarts == TimetableInit => TimetableInv
<1> SUFFICES ASSUME TimetableInit PROVE TimetableInv
  OBVIOUS
<1>1. /\ lecture \in [Lectures -> Booking \union {NotBooked}]
      /\ \A l, k \in Lectures : l # k => ~Clashing(lecture[l], lecture[k])
  BY TimetableAssumption DEF TimetableInit
<1>2. \A r \in Planners : planner[r] \in Planning /\ planner[r].pc = "idle"
  BY RestingPlans, SomeLecture DEF TimetableInit
<1>3. planner \in [Planners -> Planning]
  BY RestingPlans, SomeLecture DEF TimetableInit
<1> QED
  BY <1>1, <1>2, <1>3 DEF TimetableInit, TimetableInv, TimetableTypeOK, CheckedInTime, ClashesOnlyFromRaces

\* One request takes a step that writes no lecture.
LEMMA OnePlans ==
  ASSUME TimetableInv, NEW r \in Planners, NEW q \in Planning, Plans(r, q),
         UNCHANGED <<lecture, teaching, raced, saves>>, queued' \subseteq Lectures,
         ~q.late =>
           /\ q.pc \in {"teacher", "slot", "room"} => Booked(q) = q.merged
           /\ q.pc = "room" => \A k \in Rivals(q.lecture, q.merged) :
                                 lecture[k].teacher # q.merged.teacher
           /\ q.pc = "save" => ~ClashesWithOne(q.lecture, Booked(q))
  PROVE  TimetableInv'
<1>1. planner' = [planner EXCEPT ![r] = q] /\ planner \in [Planners -> Planning]
  BY DEF Plans, TimetableInv, TimetableTypeOK
<1>2. /\ planner' \in [Planners -> Planning]
      /\ planner'[r] = q /\ \A s \in Planners \ {r} : planner'[s] = planner[s]
  BY <1>1
<1>3. TimetableTypeOK'
  BY <1>2 DEF TimetableInv, TimetableTypeOK
<1>4. \A p : /\ Booked(p)' = Booked(p)
             /\ Rivals(p.lecture, p.merged)' = Rivals(p.lecture, p.merged)
             /\ ClashesWithOne(p.lecture, Booked(p))' <=> ClashesWithOne(p.lecture, Booked(p))
  BY DEF Booked, Rivals, ClashesWithOne
<1>5. CheckedInTime'
  <2> SUFFICES ASSUME NEW s \in Planners, NEW p, p = planner'[s], ~p.late
               PROVE  /\ p.pc \in {"teacher", "slot", "room"} => Booked(p)' = p.merged
                      /\ p.pc = "room" => \A k \in Rivals(p.lecture, p.merged)' :
                                            lecture'[k].teacher # p.merged.teacher
                      /\ p.pc = "save" => ~ClashesWithOne(p.lecture, Booked(p))'
    BY DEF CheckedInTime, Booked, Rivals, ClashesWithOne
  <2>1. CASE s = r
    BY <2>1, <1>2, <1>4
  <2>2. CASE s # r
    BY <2>2, <1>2, <1>4 DEF TimetableInv, CheckedInTime
  <2> QED
    BY <2>1, <2>2
<1>6. ClashesOnlyFromRaces'
  BY DEF TimetableInv, ClashesOnlyFromRaces
<1> QED
  BY <1>3, <1>5, <1>6 DEF TimetableInv

\* A request ends: refused, over or dead.
LEMMA OneRests ==
  ASSUME TimetableInv, NEW r \in Planners, PlanDone(r),
         UNCHANGED <<lecture, teaching, raced, saves>>, queued' \subseteq Lectures
  PROVE  TimetableInv'
<1> DEFINE q == Resting(CHOOSE l \in Lectures : TRUE)
<1>1. q \in Planning /\ q.pc = "idle"
  BY RestingPlans, SomeLecture
<1>2. Plans(r, q)
  BY DEF PlanDone
<1> QED
  BY <1>1, <1>2, OnePlans

LEMMA QueuedLectures ==
  TimetableInv => queued \subseteq Lectures /\ \A r \in Planners : planner[r] \in Planning
BY DEF TimetableInv, TimetableTypeOK

LEMMA BookingBegins ==
  ASSUME TimetableInv, NEW r \in Planners, NEW l \in Lectures, NEW d \in Drafts,
         BeginBooking(r, l, d)
  PROVE  TimetableInv'
<1> DEFINE m == [Merged(NotBooked, d) EXCEPT !.active = TRUE]
           q == [pc |-> "teacher", lecture |-> l, draft |-> d, late |-> FALSE, merged |-> m]
<1>1. /\ lecture[l] = NotBooked /\ FullyStated(d) /\ d \in Draft
      /\ Plans(r, q) /\ UNCHANGED <<lecture, teaching, queued, raced, saves>>
  BY TimetableAssumption DEF BeginBooking
<1>2. m \in Booking
  BY <1>1, MergedBookings
<1> HIDE DEF m
<1>3. q \in Planning
  BY <1>1, <1>2 DEF Planning
<1>4. Booked(q) = q.merged
  BY <1>1 DEF Booked
<1> QED
  BY <1>1, <1>3, <1>4, OnePlans, QueuedLectures

LEMMA EditBegins ==
  ASSUME TimetableInv, NEW r \in Planners, NEW l \in Lectures, NEW d \in Drafts,
         BeginEdit(r, l, d)
  PROVE  TimetableInv'
<1> DEFINE m == Merged(lecture[l], d)
           q == [pc |-> "teacher", lecture |-> l, draft |-> d, late |-> FALSE, merged |-> m]
<1>1. /\ lecture[l] # NotBooked /\ d \in Draft /\ lecture[l] \in Booking
      /\ Plans(r, q) /\ UNCHANGED <<lecture, teaching, queued, raced, saves>>
  BY TimetableAssumption DEF BeginEdit, TimetableInv, TimetableTypeOK
<1>2. m \in Booking
  BY <1>1, MergedBookings
<1>3. q.merged = Merged(lecture[q.lecture], q.draft) /\ q.lecture = l
  OBVIOUS
<1>4. Booked(q) = q.merged
  BY <1>1, <1>3 DEF Booked
<1> HIDE DEF m
<1>5. q \in Planning
  BY <1>1, <1>2 DEF Planning
<1> QED
  BY <1>1, <1>4, <1>5, OnePlans, QueuedLectures

\* Nothing is checked of a lecture that is given up: it clashes with none.
LEMMA DeactivationBegins ==
  ASSUME TimetableInv, NEW r \in Planners, NEW l \in Lectures, BeginDeactivation(r, l)
  PROVE  TimetableInv'
<1> DEFINE d == [NoDraft EXCEPT !.active = "off"]
           q == [pc |-> "save", lecture |-> l, merged |-> lecture[l], draft |-> d, late |-> FALSE]
<1>1. /\ lecture[l].active
      /\ Plans(r, q) /\ UNCHANGED <<lecture, teaching, queued, raced, saves>>
  BY DEF BeginDeactivation
<1>2. lecture[l] \in Booking /\ lecture[l] # NotBooked
  BY <1>1, MergedBookings DEF TimetableInv, TimetableTypeOK, NotBooked
<1>3. d \in Draft /\ d.active = "off"
  BY MergedBookings DEF NoDraft
<1> HIDE DEF d
<1>4. q \in Planning
  BY <1>2, <1>3 DEF Planning
<1>5. ~Booked(q).active
  BY <1>2, <1>3 DEF Booked, Merged
<1>6. ~ClashesWithOne(q.lecture, Booked(q))
  BY <1>5 DEF ClashesWithOne, Clashing
<1> QED
  BY <1>1, <1>4, <1>6, OnePlans, QueuedLectures

LEMMA TeacherIsChecked ==
  ASSUME TimetableInv, NEW r \in Planners, CheckTeacher(r) PROVE TimetableInv'
<1>1. /\ planner[r].pc = "teacher" /\ planner[r] \in Planning
      /\ UNCHANGED <<lecture, teaching, queued, raced, saves>>
  BY QueuedLectures DEF CheckTeacher
<1>2. CASE PlanDone(r)
  BY <1>1, <1>2, OneRests, QueuedLectures
<1>3. ASSUME NEW pc \in {"slot", "save"}, PlanOn(r, pc),
             pc = "save" => ~planner[r].merged.active
      PROVE  TimetableInv'
  <2> DEFINE q == [planner[r] EXCEPT !.pc = pc]
  <2>1. /\ q \in Planning /\ q.pc = pc /\ q.lecture = planner[r].lecture
        /\ q.draft = planner[r].draft /\ q.merged = planner[r].merged
        /\ q.late = planner[r].late
    <3>1. pc \in {"slot", "save", "room"}
      OBVIOUS
    <3> QED
      BY <3>1, <1>1, PlanningMoves
  <2>2. Plans(r, q)
    BY <1>3 DEF PlanOn
  <2> HIDE DEF q
  <2>3. ~q.late => Booked(q) = q.merged
    <3>1. Booked(q) = Booked(planner[r])
      BY <2>1 DEF Booked
    <3> QED
      BY <2>1, <3>1, <1>1 DEF TimetableInv, CheckedInTime
  <2>4. ~q.late /\ q.pc = "save" => ~ClashesWithOne(q.lecture, Booked(q))
    BY <2>1, <2>3, <1>3 DEF ClashesWithOne, Clashing
  <2> QED
    BY <2>1, <2>2, <2>3, <2>4, <1>1, <1>3, OnePlans, QueuedLectures
<1> QED
  BY <1>1, <1>2, <1>3 DEF CheckTeacher, HoldsSlot

LEMMA InstructorIsChecked ==
  ASSUME TimetableInv, NEW r \in Planners, FindInstructorConflict(r) PROVE TimetableInv'
<1>1. /\ planner[r].pc = "slot" /\ planner[r] \in Planning
      /\ UNCHANGED <<lecture, teaching, queued, raced, saves>>
  BY QueuedLectures DEF FindInstructorConflict
<1>2. CASE PlanDone(r)
  BY <1>1, <1>2, OneRests, QueuedLectures
<1>3. ASSUME PlanOn(r, "room"),
             ~ \E k \in Rivals(planner[r].lecture, planner[r].merged) :
                 lecture[k].teacher = planner[r].merged.teacher
      PROVE  TimetableInv'
  <2> DEFINE q == [planner[r] EXCEPT !.pc = "room"]
  <2>1. /\ q \in Planning /\ q.pc = "room" /\ q.lecture = planner[r].lecture
        /\ q.draft = planner[r].draft /\ q.merged = planner[r].merged
        /\ q.late = planner[r].late
    BY <1>1, PlanningMoves
  <2>2. Plans(r, q)
    BY <1>3 DEF PlanOn
  <2> HIDE DEF q
  <2>3. ~q.late => Booked(q) = q.merged
    <3>1. Booked(q) = Booked(planner[r])
      BY <2>1 DEF Booked
    <3> QED
      BY <2>1, <3>1, <1>1 DEF TimetableInv, CheckedInTime
  <2>4. \A k \in Rivals(q.lecture, q.merged) : lecture[k].teacher # q.merged.teacher
    BY <2>1, <1>3
  <2> QED
    BY <2>1, <2>2, <2>3, <2>4, <1>1, OnePlans, QueuedLectures
<1> QED
  BY <1>1, <1>2, <1>3 DEF FindInstructorConflict

LEMMA RoomIsChecked ==
  ASSUME TimetableInv, NEW r \in Planners, FindRoomConflict(r) PROVE TimetableInv'
<1>1. /\ planner[r].pc = "room" /\ planner[r] \in Planning
      /\ UNCHANGED <<lecture, teaching, queued, raced, saves>>
  BY QueuedLectures DEF FindRoomConflict
<1>2. CASE PlanDone(r)
  BY <1>1, <1>2, OneRests, QueuedLectures
<1>3. ASSUME PlanOn(r, "save"),
             ~ \E k \in Rivals(planner[r].lecture, planner[r].merged) :
                 lecture[k].room = planner[r].merged.room
      PROVE  TimetableInv'
  <2> DEFINE q == [planner[r] EXCEPT !.pc = "save"]
  <2>1. /\ q \in Planning /\ q.pc = "save" /\ q.lecture = planner[r].lecture
        /\ q.draft = planner[r].draft /\ q.merged = planner[r].merged
        /\ q.late = planner[r].late
    BY <1>1, PlanningMoves
  <2>2. Plans(r, q)
    BY <1>3 DEF PlanOn
  <2> HIDE DEF q
  <2>3. ~q.late => /\ Booked(q) = q.merged
                   /\ \A k \in Rivals(q.lecture, q.merged) : lecture[k].teacher # q.merged.teacher
    <3>1. Booked(q) = Booked(planner[r])
      BY <2>1 DEF Booked
    <3> QED
      BY <2>1, <3>1, <1>1 DEF TimetableInv, CheckedInTime
  <2>4. \A k \in Rivals(q.lecture, q.merged) : lecture[k].room # q.merged.room
    BY <2>1, <1>3
  <2>5. ~q.late => ~ClashesWithOne(q.lecture, Booked(q))
    BY <2>3, <2>4 DEF ClashesWithOne, Clashing, Rivals, Overlaps
  <2> QED
    BY <2>1, <2>2, <2>5, <1>1, OnePlans, QueuedLectures
<1> QED
  BY <1>1, <1>2, <1>3 DEF FindRoomConflict

\* Whoever is between a reading and a write is late, so the only row whose checks
\* are relied upon is the one written.
LEMMA LectureIsSaved ==
  ASSUME TimetableInv, NEW r \in Planners, Save(r) PROVE TimetableInv'
<1> DEFINE p == planner[r]
           l == p.lecture
           b == Booked(p)
           q == IF lecture[l] = NotBooked THEN Resting(CHOOSE k \in Lectures : TRUE)
                ELSE [Resting(l) EXCEPT !.pc = "reset"]
<1>1. /\ p.pc = "save" /\ saves' = saves + 1
      /\ lecture' = [lecture EXCEPT ![l] = b]
      /\ raced' = IF p.late THEN raced \union {l} ELSE raced
      /\ planner' = [s \in Planners |->
          IF s = r THEN q
          ELSE [planner[s] EXCEPT !.late = planner[s].pc \notin {"idle", "reset"}]]
      /\ UNCHANGED <<teaching, queued>>
  BY DEF Save
<1>2. /\ p \in Planning /\ l \in Lectures /\ p.draft \in Draft
      /\ p.merged \in Booking \union {NotBooked} /\ p.late \in BOOLEAN
  BY DEF TimetableInv, TimetableTypeOK, Planning
<1>3. b \in Booking \union {NotBooked}
  BY <1>2, MergedBookings DEF Booked, TimetableInv, TimetableTypeOK
<1>4. ~p.late => \A k \in Lectures \ {l} : ~Clashing(b, lecture[k])
  BY <1>1 DEF TimetableInv, CheckedInTime, ClashesWithOne
<1>0. q \in Planning /\ q.pc \in {"idle", "reset"}
  BY <1>2, RestingPlans, SomeLecture
<1> HIDE DEF p, l, b, q
<1>5. /\ lecture' \in [Lectures -> Booking \union {NotBooked}]
      /\ lecture'[l] = b /\ \A k \in Lectures \ {l} : lecture'[k] = lecture[k]
  BY <1>1, <1>2, <1>3 DEF TimetableInv, TimetableTypeOK
<1>6. \A s \in Planners :
        /\ planner'[s] \in Planning
        /\ ~planner'[s].late => planner'[s].pc \in {"idle", "reset"}
  <2>1. planner'[r] \in Planning /\ planner'[r].pc \in {"idle", "reset"}
    BY <1>0, <1>1
  <2>2. ASSUME NEW s \in Planners, s # r
        PROVE  planner'[s] \in Planning /\ (~planner'[s].late => planner'[s].pc \in {"idle", "reset"})
    <3>1. planner[s] \in Planning
      BY QueuedLectures
    <3>2. planner'[s] = [planner[s] EXCEPT !.late = planner[s].pc \notin {"idle", "reset"}]
      BY <1>1, <2>2
    <3>3. PICK late \in BOOLEAN : late = (planner[s].pc \notin {"idle", "reset"})
      OBVIOUS
    <3>4. planner'[s] = [planner[s] EXCEPT !.late = late]
      BY <3>2, <3>3
    <3>5. /\ planner'[s] \in Planning /\ planner'[s].late = late
          /\ planner'[s].pc = planner[s].pc
      BY <3>1, <3>4, LatePlans
    <3> QED
      BY <3>3, <3>5
  <2> QED
    BY <2>1, <2>2
<1>7. planner' \in [Planners -> Planning]
  BY <1>1, <1>6
<1>8. TimetableTypeOK'
  BY <1>1, <1>2, <1>5, <1>7 DEF TimetableInv, TimetableTypeOK
<1>9. CheckedInTime'
  BY <1>6 DEF CheckedInTime
<1>10. ClashesOnlyFromRaces'
  <2> SUFFICES ASSUME NEW i \in Lectures, NEW k \in Lectures, i # k,
                      Clashing(lecture'[i], lecture'[k]), i \notin raced', k \notin raced'
               PROVE  FALSE
    BY DEF ClashesOnlyFromRaces, Clashing
  <2>1. i \notin raced /\ k \notin raced
    BY <1>1
  <2>2. CASE i # l /\ k # l
    BY <2>1, <2>2, <1>5 DEF TimetableInv, ClashesOnlyFromRaces
  <2>3. CASE i = l
    BY <2>3, <1>1, <1>2, <1>4, <1>5
  <2>4. CASE k = l
    <3>1. ~Clashing(lecture'[k], lecture'[i])
      BY <2>4, <1>1, <1>2, <1>4, <1>5
    <3>2. /\ lecture'[i] \in Booking \union {NotBooked}
          /\ lecture'[k] \in Booking \union {NotBooked}
      BY <1>5
    <3>3. \A x, y \in Booking \union {NotBooked} : Clashing(x, y) => Clashing(y, x)
      BY TimetableAssumption DEF Clashing, Booking, NotBooked
    <3> QED
      BY <3>1, <3>2, <3>3
  <2> QED
    BY <2>2, <2>3, <2>4
<1> QED
  BY <1>8, <1>9, <1>10 DEF TimetableInv

LEMMA TimetableStep ==
  ASSUME TimetableInv, [TimetableNext]_timetableVars PROVE TimetableInv'
<1>1. ASSUME NEW r \in Planners, PlannerStep(r) PROVE TimetableInv'
  <2>1. CASE ResetReminders(r) \/ PlannerDies(r)
    BY <2>1, OneRests, QueuedLectures DEF ResetReminders, PlannerDies
  <2> QED
    BY <1>1, <2>1, BookingBegins, EditBegins, DeactivationBegins, TeacherIsChecked,
       InstructorIsChecked, RoomIsChecked, LectureIsSaved DEF PlannerStep
<1>2. ASSUME UNCHANGED <<lecture, planner, raced, saves>>, teaching' \subseteq Teachers,
             queued' \subseteq Lectures
      PROVE  TimetableInv'
  BY <1>2 DEF TimetableInv, TimetableTypeOK, CheckedInTime, ClashesOnlyFromRaces, Booked,
              Rivals, ClashesWithOne
<1>3. teaching \subseteq Teachers /\ queued \subseteq Lectures
  BY DEF TimetableInv, TimetableTypeOK
<1>4. ASSUME NEW t \in Teachers, CloseTeacher(t) PROVE TimetableInv'
  BY <1>2, <1>3, <1>4 DEF CloseTeacher
<1>5. CASE QueueReminders \/ UNCHANGED timetableVars
  BY <1>2, <1>3, <1>5 DEF QueueReminders, timetableVars
<1> QED
  BY <1>1, <1>4, <1>5 DEF TimetableNext

\* Two lectures share a room or an instructor at one hour only if one of them was
\* written by a request another had overtaken (lecture-schedule.service).
THEOREM SlotsAreKept == TimetableSpec => []ClashesOnlyFromRaces
<1>1. TimetableInv => ClashesOnlyFromRaces
  BY DEF TimetableInv
<1> QED
  BY <1>1, TimetableStarts, TimetableStep, PTL DEF TimetableSpec

-----------------------------------------------------------------------------
(* Accounts and identities.  A row, once there, keeps its link; what a     *)
(* request that is under way relies on is kept by every other one, or the  *)
(* identity it holds is excused and its count of the owners is beaten.     *)

Standing ==
  [status : {"PENDING", "ACTIVE", "REJECTED"}, active : BOOLEAN,
   verified : BOOLEAN, by : People \union {NoOne}, email : Emails,
   auth : Identities \union {NoIdentity}]

\* The identity a request holds is its target's, as long as there is one.
HoldsTheLink(r) ==
  IF Exists(r.target) THEN user[r.target].auth = r.auth ELSE r.auth \in excused

Knows(r) ==
  /\ r.pc # "idle" => r.target \in People
  /\ r.pc \in {"approve", "reject"} =>
       r.actor \in People /\ Role[r.target] = "STUDENT"
  /\ r.pc \in {"approve", "reject", "count", "provider", "write", "restore", "removing",
               "delete", "sync"} => user[r.target] # NoUser
  /\ r.pc \in {"count", "provider"} /\ Exists(r.target) => user[r.target].auth = r.auth
  /\ r.pc \in {"count", "provider", "write", "restore"} /\ r.auth # NoIdentity => HoldsTheLink(r)
  /\ r.pc \in {"provider", "restore", "insert", "undo", "complete"} => r.auth \in Identities
  /\ r.pc \in {"provider", "provision", "insert", "undo", "complete", "sync"} =>
       r.edit.email \in Emails
  /\ r.pc \in {"write", "sync"} /\ Exists(r.target) /\ r.edit.email # NoEmail
       /\ user[r.target].auth # NoIdentity => r.edit.email \in had[user[r.target].auth]
  /\ r.pc \in {"insert", "complete"} => r.edit.email \in had[r.auth]

\* Who is about to put an owner down has counted others, unless the count is beaten.
Deposes(r) ==
  /\ r.pc \in {"provider", "write", "delete"} /\ Role[r.target] = "SYSTEM_OWNER"
  /\ r.pc = "delete" \/ r.edit.active = "off"
HasCounted(r) == Deposes(r) => r.beaten \/ OtherOwners(r.target) # {}

ClerksKnow == \A c \in Clerks : Knows(clerk[c]) /\ HasCounted(clerk[c])

AccountsInv ==
  /\ AccountsTypeOK /\ ClerksKnow
  /\ AddressFromTheProvider /\ NoIdentityAbandoned

LEMMA UserIs ==
  /\ User = {NoUser, Removed} \union Standing
  /\ NoUser.status = "NONE" /\ NoUser.auth = NoIdentity /\ NoUser.by = NoOne
  /\ ~NoUser.active /\ NoUser.email = NoEmail
  /\ Removed.status = "REMOVED" /\ Removed.auth = NoIdentity /\ Removed.by = NoOne
  /\ ~Removed.active /\ Removed.email = NoEmail
  /\ Removed # NoUser
  /\ \A u \in Standing : /\ u.status \in {"PENDING", "ACTIVE", "REJECTED"} /\ u # NoUser
                         /\ u.email \in Emails /\ u.auth \in Identities \union {NoIdentity}
BY DEF User, Standing, NoUser, Removed

\* A row that exists is whole.
LEMMA ExistingRows ==
  ASSUME AccountsTypeOK, NEW p \in People
  PROVE  /\ Exists(p) <=> user[p] \in Standing
         /\ user[p] \in {NoUser, Removed} \union Standing
         /\ ~Exists(p) => user[p].auth = NoIdentity
         /\ user[p].auth \in Identities \union {NoIdentity}
BY UserIs DEF AccountsTypeOK, Exists

\* What a step may do to a row, and what it leaves to the others.
RowMoves(p) ==
  /\ user'[p] \in User
  /\ user[p] # NoUser => user'[p] # NoUser
  /\ user[p] # NoUser /\ Exists(p)' => Exists(p) /\ user'[p].auth = user[p].auth
  /\ Exists(p) /\ ~Exists(p)' => user[p].auth \in excused' \union {NoIdentity}
  /\ user'[p].auth # NoIdentity => user'[p].email \in had'[user'[p].auth]
  /\ notice'[p] \in {"NONE", "ACCOUNT_APPROVED", "ACCOUNT_REJECTED"}

Grows ==
  /\ \A i \in Identities : had[i] \subseteq had'[i]
  /\ excused \subseteq excused'
  /\ \A p \in People : RowMoves(p)

\* Of a request nothing but `beaten' is changed by others.
Carries(r, q) ==
  /\ q.pc = r.pc /\ q.actor = r.actor /\ q.target = r.target /\ q.edit = r.edit
  /\ q.auth = r.auth /\ q.previous = r.previous
  /\ r.beaten => q.beaten

LEMMA KnowledgeStays ==
  ASSUME AccountsTypeOK, Grows, NEW r \in Request, NEW q \in Request, Carries(r, q), Knows(r)
  PROVE  Knows(q)'
<1> USE DEF Carries
<1>1. CASE q.pc = "idle"
  BY <1>1 DEF Knows
<1>2. CASE q.pc # "idle"
  <2>1. q.target \in People
    BY <1>2 DEF Knows
  <2>2. /\ user[q.target] # NoUser => user'[q.target] # NoUser
        /\ user[q.target] # NoUser /\ Exists(q.target)' =>
             Exists(q.target) /\ user'[q.target].auth = user[q.target].auth
        /\ Exists(q.target) /\ ~Exists(q.target)' =>
             user[q.target].auth \in excused' \union {NoIdentity}
        /\ user[q.target].auth \in Identities \union {NoIdentity}
        /\ excused \subseteq excused' /\ \A i \in Identities : had[i] \subseteq had'[i]
    BY <2>1, ExistingRows DEF Grows, RowMoves
  <2>3. /\ q.pc \in {"approve", "reject"} => q.actor \in People /\ Role[q.target] = "STUDENT"
        /\ q.pc \in {"approve", "reject", "count", "provider", "write", "restore", "removing",
                     "delete", "sync"} => user'[q.target] # NoUser
        /\ q.pc \in {"provider", "restore", "insert", "undo", "complete"} => q.auth \in Identities
        /\ q.pc \in {"provider", "provision", "insert", "undo", "complete", "sync"} =>
             q.edit.email \in Emails
    BY <2>2 DEF Knows
  <2>4. q.pc \in {"count", "provider"} /\ Exists(q.target)' => user'[q.target].auth = q.auth
    BY <2>2 DEF Knows
  <2>5. ASSUME q.pc \in {"count", "provider", "write", "restore"}, q.auth # NoIdentity
        PROVE  IF Exists(q.target)' THEN user'[q.target].auth = q.auth ELSE q.auth \in excused'
    BY <2>2, <2>5 DEF Knows, HoldsTheLink
  <2>6. ASSUME q.pc \in {"write", "sync"}, Exists(q.target)', q.edit.email # NoEmail,
               user'[q.target].auth # NoIdentity
        PROVE  q.edit.email \in had'[user'[q.target].auth]
    BY <2>2, <2>6 DEF Knows
  <2>7. q.pc \in {"insert", "complete"} => q.edit.email \in had'[q.auth]
    BY <2>2 DEF Knows
  <2> QED
    BY <2>1, <2>3, <2>4, <2>5, <2>6, <2>7 DEF Knows, HoldsTheLink
<1> QED
  BY <1>1, <1>2

LEMMA CountStays ==
  ASSUME NEW r \in Request, NEW q \in Request, Carries(r, q), HasCounted(r),
         \/ ActiveOwners \subseteq ActiveOwners'
         \/ q.pc \notin {"provider", "write", "delete"}
         \/ q.beaten
  PROVE  HasCounted(q)'
BY DEF Carries, HasCounted, Deposes, OtherOwners

\* A step of one request or of none, whatever it does to the others.
LEMMA OneRequestSteps ==
  ASSUME AccountsInv, Grows, NEW c, NEW q, NEW held,
         clerk' \in [Clerks -> Request],
         c \in Clerks => /\ held = clerk[c].auth /\ clerk'[c] = q
                        /\ Knows(q)' /\ HasCounted(q)',
         \A d \in Clerks \ {c} :
            /\ Carries(clerk[d], clerk'[d])
            /\ \/ ActiveOwners \subseteq ActiveOwners'
               \/ clerk'[d].pc \notin {"provider", "write", "delete"}
               \/ clerk'[d].beaten,
         user' \in [People -> User],
         identity' \in [Identities -> Emails \union {NoEmail}],
         had' \in [Identities -> SUBSET Emails],
         notice' \in [People -> {"NONE", "ACCOUNT_APPROVED", "ACCOUNT_REJECTED"}],
         excused' \subseteq Identities,
         \* what it holds it hands on, and what it makes it holds
         c \in Clerks /\ clerk[c].pc \in {"insert", "undo"} =>
            \/ q.pc \in {"insert", "undo"} /\ q.auth = held
            \/ held \in excused' \/ identity'[held] = NoEmail \/ Linked(held)' # {},
         \A i \in Identities : identity[i] = NoEmail /\ identity'[i] # NoEmail =>
            i \in excused' \/ Linked(i)' # {} \/ (c \in Clerks /\ q.pc = "insert" /\ q.auth = i)
  PROVE  AccountsInv'
<1>1. AccountsTypeOK'
  BY DEF AccountsTypeOK
<1>2. ClerksKnow'
  <2> SUFFICES ASSUME NEW d \in Clerks, NEW o, o = clerk'[d]
               PROVE  Knows(o)' /\ HasCounted(o)'
    BY DEF ClerksKnow
  <2>1. CASE d = c
    BY <2>1
  <2>2. CASE d # c
    <3>1. clerk[d] \in Request /\ o \in Request /\ AccountsTypeOK
      BY DEF AccountsInv, AccountsTypeOK
    <3>2. Carries(clerk[d], o) /\ Knows(clerk[d]) /\ HasCounted(clerk[d])
      BY <2>2 DEF AccountsInv, ClerksKnow
    <3>3. Knows(o)'
      BY <3>1, <3>2, KnowledgeStays
    <3>4. HasCounted(o)'
      BY <2>2, <3>1, <3>2, CountStays
    <3> QED
      BY <3>3, <3>4
  <2> QED
    BY <2>1, <2>2
<1>3. AddressFromTheProvider'
  BY DEF AddressFromTheProvider, Grows, RowMoves
<1>4. NoIdentityAbandoned'
  <2> SUFFICES ASSUME NEW i \in Identities, i \notin excused', identity'[i] # NoEmail,
                      Linked(i)' = {}
               PROVE  \E d \in Clerks : clerk'[d].auth = i /\ clerk'[d].pc \in {"insert", "undo"}
    BY DEF NoIdentityAbandoned
  <2>1. CASE identity[i] = NoEmail
    BY <2>1
  <2>2. CASE identity[i] # NoEmail
    <3>1. i \notin excused
      BY DEF Grows
    <3>2. Linked(i) = {}
      <4> SUFFICES ASSUME NEW p \in People, Exists(p), user[p].auth = i
                   PROVE  FALSE
        BY DEF Linked
      <4>1. user[p] # NoUser /\ i # NoIdentity
        BY UserIs, AccountsAssumption DEF Exists
      <4>2. Exists(p)' /\ user'[p].auth = i
        BY <4>1 DEF Grows, RowMoves
      <4> QED
        BY <4>2 DEF Linked, Exists
    <3>3. PICK d \in Clerks : clerk[d].auth = i /\ clerk[d].pc \in {"insert", "undo"}
      BY <2>2, <3>1, <3>2 DEF AccountsInv, NoIdentityAbandoned
    <3>4. CASE d = c
      BY <3>3, <3>4
    <3>5. CASE d # c
      BY <3>3, <3>5 DEF Carries
    <3> QED
      BY <3>4, <3>5
  <2> QED
    BY <2>1, <2>2
<1> QED
  BY <1>1, <1>2, <1>3, <1>4 DEF AccountsInv

\* Rows that nobody has touched.
LEMMA RowRests ==
  ASSUME AccountsInv, NEW p \in People, user'[p] = user[p], notice'[p] = notice[p],
         \A i \in Identities : had[i] \subseteq had'[i]
  PROVE  RowMoves(p)
<1>1. user[p].auth \in Identities \union {NoIdentity}
  BY ExistingRows DEF AccountsInv
<1> QED
  BY <1>1 DEF AccountsInv, AccountsTypeOK, AddressFromTheProvider,
              RowMoves, Exists

LEMMA RowsRest ==
  ASSUME AccountsInv, UNCHANGED <<user, notice>>,
         \A i \in Identities : had[i] \subseteq had'[i], excused \subseteq excused'
  PROVE  Grows /\ ActiveOwners' = ActiveOwners
<1>1. ActiveOwners' = ActiveOwners
  BY DEF ActiveOwners, Owners, Exists
<1> QED
  BY <1>1, RowRests DEF Grows

\* What a request may hold next: a request of the same clerk, or none.
LEMMA IdleIs ==
  /\ Idle \in Request /\ Idle.pc = "idle" /\ Idle.auth = NoIdentity
  /\ Unchanging \in Edit /\ ~Unchanging.title
BY DEF Idle, Request, Unchanging, Edit

LEMMA IdleKnows == \A q : q = Idle => Knows(q)' /\ HasCounted(q)'
BY IdleIs DEF Knows, HasCounted, Deposes

LEMMA RequestMoves ==
  ASSUME NEW r \in Request, NEW pc \in {"write", "delete", "provider", "restore", "undo"}
  PROVE  /\ [r EXCEPT !.pc = pc] \in Request /\ [r EXCEPT !.pc = pc].pc = pc
         /\ [r EXCEPT !.pc = pc].target = r.target /\ [r EXCEPT !.pc = pc].auth = r.auth
         /\ [r EXCEPT !.pc = pc].edit = r.edit /\ [r EXCEPT !.pc = pc].previous = r.previous
         /\ [r EXCEPT !.pc = pc].actor = r.actor /\ [r EXCEPT !.pc = pc].beaten = r.beaten
BY DEF Request

\* The clerk takes something up, goes on or lets it go, and nothing else happens.
LEMMA OnlyTheClerk ==
  ASSUME AccountsInv, NEW c \in Clerks, NEW q \in Request, Holds(c, q),
         UNCHANGED <<user, providerVars, notice>>,
         Knows(q), HasCounted(q),
         clerk[c].pc \in {"insert", "undo"} =>
           q.pc \in {"insert", "undo"} /\ q.auth = clerk[c].auth
  PROVE  AccountsInv'
<1>1. Grows /\ ActiveOwners' = ActiveOwners
  BY RowsRest DEF providerVars
<1>2. /\ clerk' \in [Clerks -> Request] /\ clerk'[c] = q
      /\ \A d \in Clerks \ {c} : clerk'[d] = clerk[d]
  BY DEF Holds, AccountsInv, AccountsTypeOK
<1>3. Knows(q)' /\ HasCounted(q)'
  BY <1>1 DEF Knows, HoldsTheLink, HasCounted, Deposes, OtherOwners, Exists, providerVars
<1>4. PICK held : held = clerk[c].auth
  OBVIOUS
<1> QED
  BY <1>1, <1>2, <1>3, <1>4, OneRequestSteps DEF Carries, AccountsInv, AccountsTypeOK, providerVars

LEMMA TypesOfAccounts ==
  ASSUME AccountsInv
  PROVE  /\ AccountsTypeOK /\ \A c \in Clerks : clerk[c] \in Request
         /\ \A p \in People : Exists(p) =>
              /\ user[p] # NoUser /\ user[p].email \in Emails
              /\ user[p].auth \in Identities \union {NoIdentity}
BY ExistingRows, UserIs DEF AccountsInv, AccountsTypeOK

LEMMA DecisionBegins ==
  ASSUME AccountsInv, NEW c \in Clerks, IsFree(c), NEW actor \in People, NEW p \in People,
         NEW verdict \in {"approve", "reject"}, BeginDecision(c, actor, p, verdict)
  PROVE  AccountsInv'
<1> DEFINE q == [Idle EXCEPT !.pc = verdict, !.actor = actor, !.target = p]
<1>1. /\ q \in Request /\ q.pc = verdict /\ q.actor = actor /\ q.target = p
  BY DEF Idle, Request, Unchanging, Edit
<1>2. /\ Exists(p) /\ Role[p] = "STUDENT" /\ Holds(c, q)
      /\ UNCHANGED <<user, providerVars, notice>>
  BY DEF BeginDecision
<1> HIDE DEF q
<1>3. Knows(q) /\ HasCounted(q)
  BY <1>1, <1>2, TypesOfAccounts DEF Knows, HasCounted, Deposes
<1> QED
  BY <1>1, <1>2, <1>3, OnlyTheClerk DEF IsFree

\* An edit of a row as it stands: whatever it waits for next, it holds the row's
\* link, and gives it no address its identity has not had.
LEMMA EditedKnows ==
  ASSUME AccountsInv, NEW p \in People, Exists(p), NEW edit \in Edit, NEW q \in Request,
         q.pc = Onward(p, edit) \/ q.pc = "count",
         q.target = p, q.edit = edit, q.auth = user[p].auth
  PROVE  Knows(q)
<1>1. /\ q.pc \in {"provider", "write", "count"}
      /\ q.pc = "provider" => NewAddress(p, edit) /\ user[p].auth # NoIdentity
      /\ q.pc = "write" => ~NewAddress(p, edit) \/ user[p].auth = NoIdentity
  BY DEF Onward
<1>2. /\ user[p] # NoUser /\ user[p].auth \in Identities \union {NoIdentity}
      /\ edit.email \in Emails \union {NoEmail}
  BY TypesOfAccounts DEF Edit
<1>3. q.pc = "write" /\ edit.email # NoEmail /\ user[p].auth # NoIdentity
        => edit.email \in had[user[p].auth]
  BY <1>1 DEF NewAddress, AccountsInv, AddressFromTheProvider
<1>4. q.pc = "provider" => edit.email \in Emails /\ q.auth \in Identities
  BY <1>1, <1>2 DEF NewAddress
<1> QED
  BY <1>1, <1>2, <1>3, <1>4 DEF Knows, HoldsTheLink

LEMMA AdminUpdateBegins ==
  ASSUME AccountsInv, NEW c \in Clerks, IsFree(c), NEW actor, NEW p \in People,
         NEW edit \in Edits, BeginAdminUpdate(c, actor, p, edit)
  PROVE  AccountsInv'
<1> DEFINE q == [Idle EXCEPT !.pc = Onward(p, edit), !.target = p, !.edit = edit,
                             !.auth = user[p].auth, !.previous = user[p].email]
<1>1. /\ Exists(p) /\ Role[p] \in {"INSTRUCTOR", "STUDENT"} /\ Holds(c, q)
      /\ UNCHANGED <<user, providerVars, notice>> /\ edit \in Edit
  BY AccountsAssumption DEF BeginAdminUpdate
<1>2. /\ user[p].auth \in Identities \union {NoIdentity} /\ user[p].email \in Emails
      /\ Onward(p, edit) \in {"provider", "write"}
  BY <1>1, TypesOfAccounts DEF Onward
<1>3. /\ q \in Request /\ q.pc = Onward(p, edit) /\ q.target = p /\ q.edit = edit
      /\ q.auth = user[p].auth
  BY <1>1, <1>2 DEF Idle, Request
<1> HIDE DEF q
<1>4. Knows(q)
  BY <1>1, <1>3, EditedKnows
<1>5. HasCounted(q)
  BY <1>1, <1>3 DEF HasCounted, Deposes
<1> QED
  BY <1>1, <1>3, <1>4, <1>5, OnlyTheClerk DEF IsFree

LEMMA OwnerUpdateBegins ==
  ASSUME AccountsInv, NEW c \in Clerks, IsFree(c), NEW actor, NEW p \in People,
         NEW edit \in Edits, BeginOwnerUpdate(c, actor, p, edit)
  PROVE  AccountsInv'
<1> DEFINE to == IF Role[p] = "SYSTEM_OWNER" /\ edit.active = "off" THEN "count"
                 ELSE Onward(p, edit)
           q == [Idle EXCEPT !.pc = to, !.target = p, !.edit = edit,
                             !.auth = user[p].auth, !.previous = user[p].email]
<1>1. /\ Exists(p) /\ Holds(c, q)
      /\ UNCHANGED <<user, providerVars, notice>> /\ edit \in Edit
  BY AccountsAssumption DEF BeginOwnerUpdate
<1>2. /\ user[p].auth \in Identities \union {NoIdentity} /\ user[p].email \in Emails
      /\ to \in {"provider", "write", "count"}
      /\ to = "count" \/ (to = Onward(p, edit) /\ ~(Role[p] = "SYSTEM_OWNER" /\ edit.active = "off"))
  BY <1>1, TypesOfAccounts DEF Onward
<1> HIDE DEF to
<1>3. /\ q \in Request /\ q.pc = to /\ q.target = p /\ q.edit = edit
      /\ q.auth = user[p].auth
  BY <1>1, <1>2 DEF Idle, Request
<1> HIDE DEF q
<1>4. Knows(q)
  BY <1>1, <1>2, <1>3, EditedKnows
<1>5. HasCounted(q)
  BY <1>2, <1>3 DEF HasCounted, Deposes, Onward
<1> QED
  BY <1>1, <1>3, <1>4, <1>5, OnlyTheClerk DEF IsFree

LEMMA ProfileBegins ==
  ASSUME AccountsInv, NEW c \in Clerks, IsFree(c), NEW p \in People, NEW e \in Emails,
         BeginProfile(c, p, e)
  PROVE  AccountsInv'
<1> DEFINE q == [Idle EXCEPT !.pc = "write", !.target = p, !.edit.email = e]
<1>1. /\ Exists(p) /\ e = user[p].email /\ Holds(c, q)
      /\ UNCHANGED <<user, providerVars, notice>>
  BY DEF BeginProfile, Admitted, MayKeepAddress
<1>2. /\ q \in Request /\ q.pc = "write" /\ q.target = p /\ q.edit.email = e
      /\ q.auth = NoIdentity /\ q.edit.active = "keep"
  BY DEF Idle, Request, Unchanging, Edit
<1> HIDE DEF q
<1>3. Knows(q) /\ HasCounted(q)
  BY <1>1, <1>2, TypesOfAccounts
     DEF Knows, HasCounted, Deposes, AccountsInv, AddressFromTheProvider
<1> QED
  BY <1>1, <1>2, <1>3, OnlyTheClerk DEF IsFree

LEMMA RemovalBegins ==
  ASSUME AccountsInv, NEW c \in Clerks, IsFree(c), NEW actor, NEW p \in People,
         BeginRemove(c, actor, p)
  PROVE  AccountsInv'
<1> DEFINE to == IF Role[p] = "SYSTEM_OWNER" THEN "removing" ELSE "delete"
           q == [Idle EXCEPT !.pc = to, !.target = p]
<1>1. /\ Exists(p) /\ Holds(c, q) /\ UNCHANGED <<user, providerVars, notice>>
  BY DEF BeginRemove
<1>2. to \in {"removing", "delete"} /\ (to = "delete" => Role[p] # "SYSTEM_OWNER")
  OBVIOUS
<1> HIDE DEF to
<1>3. q \in Request /\ q.pc = to /\ q.target = p
  BY <1>2 DEF Idle, Request, Unchanging, Edit
<1> HIDE DEF q
<1>4. Knows(q) /\ HasCounted(q)
  BY <1>1, <1>2, <1>3, TypesOfAccounts DEF Knows, HasCounted, Deposes
<1> QED
  BY <1>1, <1>3, <1>4, OnlyTheClerk DEF IsFree

LEMMA CreationBegins ==
  ASSUME AccountsInv, NEW c \in Clerks, IsFree(c), NEW actor, NEW p \in People,
         NEW e \in Emails, NEW verified \in {"on", "off"}, BeginCreate(c, actor, p, e, verified)
  PROVE  AccountsInv'
<1> DEFINE q == [Idle EXCEPT !.pc = "provision", !.target = p,
                   !.edit = [Unchanging EXCEPT !.email = e, !.verified = verified]]
<1>1. Holds(c, q) /\ UNCHANGED <<user, providerVars, notice>>
  BY DEF BeginCreate
<1>2. q \in Request /\ q.pc = "provision" /\ q.target = p /\ q.edit.email = e
  BY DEF Idle, Request, Unchanging, Edit
<1> HIDE DEF q
<1>3. Knows(q) /\ HasCounted(q)
  BY <1>2 DEF Knows, HasCounted, Deposes
<1> QED
  BY <1>1, <1>2, <1>3, OnlyTheClerk DEF IsFree

LEMMA CompletionBegins ==
  ASSUME AccountsInv, NEW c \in Clerks, IsFree(c), NEW i \in Identities, NEW e \in had[i],
         NEW p \in People, BeginComplete(c, i, e, p)
  PROVE  AccountsInv'
<1> DEFINE q == [Idle EXCEPT !.pc = "complete", !.target = p, !.auth = i,
                   !.edit = [Unchanging EXCEPT !.email = e]]
<1>0. e \in Emails
  BY DEF AccountsInv, AccountsTypeOK
<1>1. Holds(c, q) /\ UNCHANGED <<user, providerVars, notice>>
  BY DEF BeginComplete
<1>2. /\ q \in Request /\ q.pc = "complete" /\ q.target = p /\ q.edit.email = e
      /\ q.auth = i
  BY <1>0 DEF Idle, Request, Unchanging, Edit
<1> HIDE DEF q
<1>3. Knows(q) /\ HasCounted(q)
  BY <1>0, <1>2 DEF Knows, HasCounted, Deposes
<1> QED
  BY <1>1, <1>2, <1>3, OnlyTheClerk DEF IsFree

LEMMA SyncBegins ==
  ASSUME AccountsInv, NEW c \in Clerks, IsFree(c), NEW i \in Identities, NEW e \in had[i],
         NEW p \in People, BeginSync(c, i, e, p)
  PROVE  AccountsInv'
<1> DEFINE q == [Idle EXCEPT !.pc = "sync", !.target = p,
                   !.edit = [Unchanging EXCEPT !.email = e]]
<1>0. e \in Emails
  BY DEF AccountsInv, AccountsTypeOK
<1>1. /\ Exists(p) /\ user[p].auth = i
      /\ Holds(c, q) /\ UNCHANGED <<user, providerVars, notice>>
  BY DEF BeginSync, Linked
<1>2. /\ q \in Request /\ q.pc = "sync" /\ q.target = p /\ q.edit.email = e
  BY <1>0 DEF Idle, Request, Unchanging, Edit
<1> HIDE DEF q
<1>3. Knows(q) /\ HasCounted(q)
  BY <1>0, <1>1, <1>2, TypesOfAccounts DEF Knows, HasCounted, Deposes
<1> QED
  BY <1>1, <1>2, <1>3, OnlyTheClerk DEF IsFree

\* A request that has nothing more to do lets go of what it does not hold.
LEMMA ClerkAnswers ==
  ASSUME AccountsInv, NEW c \in Clerks, Answered(c), UNCHANGED <<user, providerVars, notice>>,
         clerk[c].pc \notin {"insert", "undo"}
  PROVE  AccountsInv'
<1>1. Knows(Idle) /\ HasCounted(Idle)
  BY IdleIs DEF Knows, HasCounted, Deposes
<1> QED
  BY <1>1, IdleIs, OnlyTheClerk DEF Answered

LEMMA OwnersAreCounted ==
  ASSUME AccountsInv, NEW c \in Clerks, CountOwners(c) PROVE AccountsInv'
<1> DEFINE r == clerk[c]
           to == IF r.pc = "removing" THEN "delete" ELSE Onward(r.target, r.edit)
           q == [r EXCEPT !.pc = to]
<1>1. /\ r.pc \in {"count", "removing"} /\ UNCHANGED <<user, providerVars, notice>>
      /\ IF OtherOwners(r.target) = {} THEN Answered(c) ELSE Holds(c, q)
  BY DEF CountOwners, Proceed
<1>2. r \in Request /\ Knows(r)
  BY TypesOfAccounts DEF AccountsInv, ClerksKnow
<1>3. to \in {"delete", "provider", "write"} /\ (r.pc = "removing" <=> to = "delete")
  BY <1>1 DEF Onward
<1>4. r.pc = "count" => to = Onward(r.target, r.edit)
  OBVIOUS
<1>5. r.target \in People /\ user[r.target] # NoUser
  BY <1>1, <1>2 DEF Knows
<1> HIDE DEF r, to
<1>6. /\ q \in Request /\ q.pc = to /\ q.target = r.target /\ q.auth = r.auth
      /\ q.edit = r.edit
  <2>1. to \in {"write", "delete", "provider", "restore", "undo"}
    BY <1>3
  <2> QED
    BY <1>2, <2>1, RequestMoves
<1> HIDE DEF q
<1>7. CASE OtherOwners(r.target) = {}
  BY <1>1, <1>7, ClerkAnswers DEF r
<1>8. CASE OtherOwners(r.target) # {}
  <2>1. HasCounted(q)
    BY <1>6, <1>8 DEF HasCounted
  <2>2. Knows(q)
    <3>1. CASE r.pc = "removing"
      BY <3>1, <1>3, <1>5, <1>6 DEF Knows
    <3>2. CASE r.pc = "count" /\ Exists(r.target)
      <4>1. q.auth = user[r.target].auth /\ r.edit \in Edit
        BY <3>2, <1>2, <1>6 DEF Knows, Request
      <4> QED
        BY <4>1, <3>2, <1>4, <1>5, <1>6, EditedKnows
    <3>3. CASE r.pc = "count" /\ ~Exists(r.target)
      <4>1. to = "write"
        BY <3>3, <1>4, <1>5, ExistingRows, TypesOfAccounts DEF Onward
      <4>2. r.auth # NoIdentity => r.auth \in excused
        BY <3>3, <1>2 DEF Knows, HoldsTheLink
      <4> QED
        BY <4>1, <4>2, <3>3, <1>5, <1>6 DEF Knows, HoldsTheLink
    <3> QED
      BY <3>1, <3>2, <3>3, <1>1 DEF r
  <2> QED
    BY <2>1, <2>2, <1>1, <1>6, <1>8, OnlyTheClerk DEF r
<1> QED
  BY <1>7, <1>8

-----------------------------------------------------------------------------
(* The provider's side.                                                    *)

\* An identity is moved, made or unmade, and no row changes.
LEMMA ProviderMoves ==
  ASSUME AccountsInv, NEW c \in Clerks, NEW q \in Request, Holds(c, q),
         NEW held, held = clerk[c].auth,
         UNCHANGED <<user, notice>>,
         identity' \in [Identities -> Emails \union {NoEmail}],
         had' \in [Identities -> SUBSET Emails],
         excused' \subseteq Identities,
         \A i \in Identities : had[i] \subseteq had'[i], excused \subseteq excused',
         Knows(q)', HasCounted(q),
         clerk[c].pc \in {"insert", "undo"} =>
            held \in excused' \/ identity'[held] = NoEmail,
         \A i \in Identities : identity[i] = NoEmail /\ identity'[i] # NoEmail =>
            i \in excused' \/ Linked(i) # {} \/ (q.pc = "insert" /\ q.auth = i)
  PROVE  AccountsInv'
<1>1. Grows /\ ActiveOwners' = ActiveOwners
  BY RowsRest
<1>2. /\ clerk' \in [Clerks -> Request] /\ clerk'[c] = q
      /\ \A d \in Clerks \ {c} : clerk'[d] = clerk[d]
  BY DEF Holds, AccountsInv, AccountsTypeOK
<1>3. HasCounted(q)'
  BY <1>1 DEF HasCounted, Deposes, OtherOwners
<1>4. \A i \in Identities : Linked(i)' = Linked(i)
  BY DEF Linked, Exists
<1>5. \A d \in Clerks \ {c} :
        /\ Carries(clerk[d], clerk'[d])
        /\ \/ ActiveOwners \subseteq ActiveOwners'
           \/ clerk'[d].pc \notin {"provider", "write", "delete"}
           \/ clerk'[d].beaten
  BY <1>1, <1>2 DEF Carries
<1>6. /\ user' \in [People -> User]
      /\ notice' \in [People -> {"NONE", "ACCOUNT_APPROVED", "ACCOUNT_REJECTED"}]
  BY DEF AccountsInv, AccountsTypeOK
<1>7. \A i \in Identities : identity[i] = NoEmail /\ identity'[i] # NoEmail =>
        i \in excused' \/ Linked(i)' # {} \/ (c \in Clerks /\ q.pc = "insert" /\ q.auth = i)
  BY <1>4
<1> QED
  BY <1>1, <1>2, <1>3, <1>5, <1>6, <1>7, OneRequestSteps

LEMMA IdentityIsMoved ==
  ASSUME AccountsInv, NEW c \in Clerks, MoveIdentity(c) PROVE AccountsInv'
<1> DEFINE r == clerk[c]
           q == [r EXCEPT !.pc = "write"]
<1>1. r.pc = "provider" /\ UNCHANGED <<user, notice, excused>>
  BY DEF MoveIdentity
<1>2. r \in Request /\ Knows(r) /\ HasCounted(r)
  BY TypesOfAccounts DEF AccountsInv, ClerksKnow
<1>3. CASE Answered(c) /\ UNCHANGED <<identity, had>>
  BY <1>1, <1>3, ClerkAnswers DEF providerVars
<1>4. ASSUME identity' = [identity EXCEPT ![r.auth] = r.edit.email],
             had' = [had EXCEPT ![r.auth] = had[r.auth] \union {r.edit.email}],
             NEW o \in Request, Holds(c, o), o = Idle \/ o = q
      PROVE  AccountsInv'
  <2>1. r.auth \in Identities /\ r.edit.email \in Emails /\ r.target \in People
        /\ user[r.target] # NoUser
    BY <1>1, <1>2 DEF Knows
  <2>2. /\ identity' \in [Identities -> Emails \union {NoEmail}]
        /\ had' \in [Identities -> SUBSET Emails]
        /\ \A i \in Identities : had[i] \subseteq had'[i]
        /\ r.edit.email \in had'[r.auth]
        /\ \A i \in Identities \ {r.auth} : identity'[i] = identity[i]
    BY <1>4, <2>1 DEF AccountsInv, AccountsTypeOK
  <2>3. r.auth \in excused \/ Linked(r.auth) # {}
    <3>1. r.auth # NoIdentity
      BY <2>1, AccountsAssumption
    <3> QED
      BY <3>1, <2>1, <1>1, <1>2 DEF Knows, HoldsTheLink, Linked
  <2>4. /\ q.pc = "write" /\ q.target = r.target /\ q.auth = r.auth
        /\ q.edit = r.edit /\ q.beaten = r.beaten /\ q \in Request
    BY <1>2, RequestMoves
  <2>5. HasCounted(o)
    <3>1. HasCounted(q)
      BY <2>4, <1>1, <1>2 DEF HasCounted, Deposes
    <3> QED
      BY <3>1, <1>4, IdleIs DEF HasCounted, Deposes
  <2>6. Knows(o)'
    <3>1. PICK w \in Request : w = q
      BY <2>4
    <3>2. /\ w.pc = "write" /\ w.target \in People /\ user[w.target] # NoUser
          /\ Exists(w.target) => user[w.target].auth = w.auth
          /\ ~Exists(w.target) => w.auth \in excused
          /\ w.edit.email \in had'[w.auth]
      BY <3>1, <2>1, <2>2, <2>4, <1>1, <1>2, AccountsAssumption DEF Knows, HoldsTheLink
    <3>3. Knows(w)'
      BY <3>2, <1>1 DEF Knows, HoldsTheLink, Exists
    <3> QED
      BY <3>1, <3>3, <1>4, IdleKnows
  <2>7. PICK held : held = clerk[c].auth
    OBVIOUS
  <2>8. UNCHANGED <<user, notice>> /\ excused' \subseteq Identities /\ excused \subseteq excused'
    BY <1>1 DEF AccountsInv, AccountsTypeOK
  <2>9. clerk[c].pc \notin {"insert", "undo"}
    BY <1>1
  <2>10. \A i \in Identities : identity[i] = NoEmail /\ identity'[i] # NoEmail =>
           i \in excused' \/ Linked(i) # {} \/ (o.pc = "insert" /\ o.auth = i)
    BY <2>2, <2>3, <2>8
  <2> QED
    BY <1>4, <2>2, <2>5, <2>6, <2>7, <2>8, <2>9, <2>10, ProviderMoves
<1>5. q \in Request
  BY <1>2, RequestMoves
<1> QED
  BY <1>1, <1>3, <1>4, <1>5, IdleIs DEF MoveIdentity, Answered, Proceed

LEMMA IdentityIsRestored ==
  ASSUME AccountsInv, NEW c \in Clerks, Restore(c) PROVE AccountsInv'
<1> DEFINE r == clerk[c]
<1>1. r.pc = "restore" /\ Answered(c) /\ UNCHANGED <<user, had, notice, excused>>
  BY DEF Restore
<1>2. r \in Request /\ Knows(r)
  BY TypesOfAccounts DEF AccountsInv, ClerksKnow
<1>3. CASE UNCHANGED identity
  BY <1>1, <1>3, ClerkAnswers DEF providerVars
<1>4. CASE identity' = [identity EXCEPT ![r.auth] = r.previous]
  <2>1. r.auth \in Identities /\ r.previous \in Emails \union {NoEmail}
        /\ r.target \in People /\ r.auth # NoIdentity
    BY <1>1, <1>2, AccountsAssumption DEF Knows, Request
  <2>2. /\ identity' \in [Identities -> Emails \union {NoEmail}]
        /\ \A i \in Identities \ {r.auth} : identity'[i] = identity[i]
    BY <1>4, <2>1 DEF AccountsInv, AccountsTypeOK
  <2>3. r.auth \in excused \/ Linked(r.auth) # {}
    BY <2>1, <1>1, <1>2 DEF Knows, HoldsTheLink, Linked
  <2>4. HasCounted(Idle)
    BY IdleIs DEF HasCounted, Deposes
  <2>5. PICK o, held : o \in Request /\ o = Idle /\ held = clerk[c].auth
    BY IdleIs
  <2> QED
    BY <1>1, <2>2, <2>3, <2>4, <2>5, IdleKnows, ProviderMoves
       DEF AccountsInv, AccountsTypeOK, Answered
<1> QED
  BY <1>3, <1>4 DEF Restore

LEMMA IdentityIsProvisioned ==
  ASSUME AccountsInv, NEW c \in Clerks, Provision(c) PROVE AccountsInv'
<1> DEFINE r == clerk[c]
<1>1. r.pc = "provision" /\ UNCHANGED <<user, notice, excused>>
  BY DEF Provision
<1>2. r \in Request /\ Knows(r)
  BY TypesOfAccounts DEF AccountsInv, ClerksKnow
<1>3. CASE Answered(c) /\ UNCHANGED <<identity, had>>
  BY <1>1, <1>3, ClerkAnswers DEF providerVars
<1>4. ASSUME NEW i \in Identities, had[i] = {},
             identity' = [identity EXCEPT ![i] = r.edit.email],
             had' = [had EXCEPT ![i] = {r.edit.email}],
             Holds(c, [r EXCEPT !.pc = "insert", !.auth = i])
      PROVE  AccountsInv'
  <2> DEFINE q == [r EXCEPT !.pc = "insert", !.auth = i]
  <2>1. q \in Request /\ q.pc = "insert" /\ q.auth = i /\ q.target = r.target /\ q.edit = r.edit
    BY <1>2 DEF Request
  <2> HIDE DEF q
  <2>2. r.edit.email \in Emails /\ r.target \in People
    BY <1>1, <1>2 DEF Knows
  <2>3. /\ identity' \in [Identities -> Emails \union {NoEmail}]
        /\ had' \in [Identities -> SUBSET Emails]
        /\ \A j \in Identities : had[j] \subseteq had'[j]
        /\ r.edit.email \in had'[i]
        /\ \A j \in Identities \ {i} : identity'[j] = identity[j]
    BY <1>4, <2>2 DEF AccountsInv, AccountsTypeOK
  <2>4. PICK o, held : o \in Request /\ o = q /\ held = clerk[c].auth
    BY <2>1
  <2>5. Knows(o)'
    BY <2>1, <2>2, <2>3, <2>4 DEF Knows
  <2>6. HasCounted(o)
    BY <2>1, <2>4 DEF HasCounted, Deposes
  <2>7. Holds(c, o)
    BY <1>4, <2>4 DEF q
  <2> QED
    BY <1>1, <2>1, <2>3, <2>4, <2>5, <2>6, <2>7, ProviderMoves DEF AccountsInv, AccountsTypeOK
<1> QED
  BY <1>3, <1>4 DEF Provision, Unused

LEMMA IdentityIsUnmade ==
  ASSUME AccountsInv, NEW c \in Clerks, Undo(c) PROVE AccountsInv'
<1> DEFINE r == clerk[c]
<1>1. r.pc = "undo" /\ Answered(c) /\ UNCHANGED <<user, had, notice>>
  BY DEF Undo
<1>2. r.auth \in Identities
  BY <1>1, TypesOfAccounts DEF AccountsInv, ClerksKnow, Knows
<1>3. /\ identity' \in [Identities -> Emails \union {NoEmail}]
      /\ excused' \subseteq Identities /\ excused \subseteq excused'
      /\ r.auth \in excused' \/ identity'[r.auth] = NoEmail
      /\ \A i \in Identities : identity[i] = NoEmail => identity'[i] = NoEmail
  BY <1>2 DEF Undo, AccountsInv, AccountsTypeOK
<1>4. HasCounted(Idle)
  BY IdleIs DEF HasCounted, Deposes
<1>5. PICK o, held : o \in Request /\ o = Idle /\ held = clerk[c].auth
  BY IdleIs
<1> QED
  BY <1>1, <1>3, <1>4, <1>5, IdleKnows, ProviderMoves DEF AccountsInv, AccountsTypeOK, Answered

LEMMA RequestIsLost ==
  ASSUME AccountsInv, NEW c \in Clerks, RequestLost(c) PROVE AccountsInv'
<1> DEFINE r == clerk[c]
<1>1. /\ Answered(c) /\ UNCHANGED <<user, identity, had, notice>>
      /\ excused' = excused \union ({r.auth} \ {NoIdentity})
  BY DEF RequestLost
<1>2. r \in Request /\ Knows(r)
  BY TypesOfAccounts DEF AccountsInv, ClerksKnow
<1>3. r.auth \in Identities \union {NoIdentity}
  BY <1>2 DEF Request
<1>4. r.pc \in {"insert", "undo"} => r.auth \in excused'
  BY <1>1, <1>2, AccountsAssumption DEF Knows
<1>5. HasCounted(Idle)
  BY IdleIs DEF HasCounted, Deposes
<1>6. PICK o, held : o \in Request /\ o = Idle /\ held = clerk[c].auth
  BY IdleIs
<1>7. excused' \subseteq Identities /\ excused \subseteq excused'
  BY <1>1, <1>3 DEF AccountsInv, AccountsTypeOK
<1> QED
  BY <1>1, <1>4, <1>5, <1>6, <1>7, IdleKnows, ProviderMoves DEF AccountsInv, AccountsTypeOK, Answered

LEMMA PeopleSignUp ==
  ASSUME AccountsInv, NEW i \in Identities, NEW e \in Emails,
         SignUp(i, e) \/ ChangeAddress(i, e)
  PROVE  AccountsInv'
<1>1. /\ UNCHANGED <<user, notice, clerk>>
      /\ identity' \in [Identities -> Emails \union {NoEmail}]
      /\ had' \in [Identities -> SUBSET Emails]
      /\ excused' \subseteq Identities /\ excused \subseteq excused'
      /\ \A j \in Identities : had[j] \subseteq had'[j]
      /\ \A j \in Identities : identity[j] = NoEmail /\ identity'[j] # NoEmail => j \in excused'
  BY DEF SignUp, ChangeAddress, Unused, AccountsInv, AccountsTypeOK
<1>2. Grows /\ ActiveOwners' = ActiveOwners
  BY <1>1, RowsRest
<1>3. PICK c : c \notin Clerks
  <2>1. {x \in Clerks : x \notin x} \notin Clerks
    OBVIOUS
  <2> QED
    BY <2>1
<1> QED
  BY <1>1, <1>2, <1>3, OneRequestSteps DEF Carries, AccountsInv, AccountsTypeOK

-----------------------------------------------------------------------------
(* The rows.                                                               *)

LEMMA RowIsWritten ==
  ASSUME AccountsInv, NEW c \in Clerks, Answered(c), NEW p \in People, NEW u \in User,
         user' = [user EXCEPT ![p] = u], RowMoves(p), UNCHANGED providerVars,
         notice' \in [People -> {"NONE", "ACCOUNT_APPROVED", "ACCOUNT_REJECTED"}],
         \A o \in People \ {p} : notice'[o] = notice[o],
         p \in ActiveOwners => p \in ActiveOwners',
         NEW held, held = clerk[c].auth,
         clerk[c].pc \in {"insert", "undo"} => Linked(held)' # {}
  PROVE  AccountsInv'
<1>1. /\ user' \in [People -> User]
      /\ \A o \in People \ {p} : user'[o] = user[o]
  BY DEF AccountsInv, AccountsTypeOK
<1>2. Grows
  <2>1. \A o \in People : RowMoves(o)
    BY <1>1, RowRests DEF providerVars
  <2> QED
    BY <2>1 DEF Grows, providerVars
<1>3. ActiveOwners \subseteq ActiveOwners'
  BY <1>1 DEF ActiveOwners, Owners, Exists
<1>4. /\ clerk' \in [Clerks -> Request] /\ clerk'[c] = Idle
      /\ \A d \in Clerks \ {c} : clerk'[d] = clerk[d]
  BY IdleIs DEF Answered, Holds, AccountsInv, AccountsTypeOK
<1>5. PICK q \in Request : q = Idle
  BY IdleIs
<1>6. /\ identity' \in [Identities -> Emails \union {NoEmail}]
      /\ had' \in [Identities -> SUBSET Emails] /\ excused' \subseteq Identities
      /\ \A i \in Identities : identity'[i] = identity[i]
  BY DEF AccountsInv, AccountsTypeOK, providerVars
<1>7. \A d \in Clerks \ {c} :
        /\ Carries(clerk[d], clerk'[d])
        /\ \/ ActiveOwners \subseteq ActiveOwners'
           \/ clerk'[d].pc \notin {"provider", "write", "delete"}
           \/ clerk'[d].beaten
  BY <1>3, <1>4 DEF Carries
<1>8. Knows(q)' /\ HasCounted(q)'
  BY <1>5, IdleKnows
<1> QED
  BY <1>1, <1>2, <1>4, <1>5, <1>6, <1>7, <1>8, OneRequestSteps

\* A row that keeps its link, as standing rows do.
LEMMA StandingRowMoves ==
  ASSUME AccountsInv, NEW p \in People, Exists(p), NEW u \in Standing, user'[p] = u,
         UNCHANGED providerVars,
         u.auth = user[p].auth,
         u.auth # NoIdentity => u.email \in had[u.auth],
         notice'[p] \in {notice[p], "ACCOUNT_APPROVED", "ACCOUNT_REJECTED"}
  PROVE  RowMoves(p) /\ Exists(p)'
<1>1. Exists(p)' /\ u \in User /\ u # NoUser
  BY UserIs DEF Exists
<1>2. notice[p] \in {"NONE", "ACCOUNT_APPROVED", "ACCOUNT_REJECTED"}
  BY DEF AccountsInv, AccountsTypeOK
<1> QED
  BY <1>1, <1>2 DEF RowMoves, AccountsInv, providerVars

LEMMA DecidedStands ==
  ASSUME NEW u \in Standing, NEW a \in People
  PROVE  /\ Approved(u, a) \in Standing /\ Approved(u, a).status = "ACTIVE"
         /\ Approved(u, a).auth = u.auth /\ Approved(u, a).email = u.email
         /\ Rejected(u) \in Standing /\ Rejected(u).status = "REJECTED"
         /\ Rejected(u).auth = u.auth /\ Rejected(u).email = u.email
<1>1. /\ Approved(u, a) \in Standing /\ Approved(u, a).status = "ACTIVE"
      /\ Approved(u, a).auth = u.auth /\ Approved(u, a).email = u.email
  BY DEF Standing, Approved
<1>2. /\ Rejected(u) \in Standing /\ Rejected(u).status = "REJECTED"
      /\ Rejected(u).auth = u.auth /\ Rejected(u).email = u.email
  BY DEF Standing, Rejected
<1> QED
  BY <1>1, <1>2

LEMMA ReaddressedStands ==
  ASSUME NEW u \in Standing, NEW e \in Emails
  PROVE  /\ [u EXCEPT !.email = e] \in Standing /\ [u EXCEPT !.email = e].email = e
         /\ [u EXCEPT !.email = e].auth = u.auth /\ [u EXCEPT !.email = e].status = u.status
         /\ [u EXCEPT !.email = e].active = u.active
BY DEF Standing

LEMMA EditedStands ==
  ASSUME NEW u \in Standing, NEW edit \in Edit
  PROVE  /\ Edited(u, edit) \in Standing
         /\ Edited(u, edit).auth = u.auth /\ Edited(u, edit).status = u.status
         /\ Edited(u, edit).email = IF edit.email = NoEmail THEN u.email ELSE edit.email
         /\ edit.active # "off" /\ u.active => Edited(u, edit).active
<1> DEFINE e == IF edit.email = NoEmail THEN u.email ELSE edit.email
           on == Flag(u.active, edit.active)
           seen == Flag(u.verified, edit.verified)
<1>1. e \in Emails
  BY DEF Edit, Standing
<1>2. on \in BOOLEAN /\ seen \in BOOLEAN /\ (edit.active # "off" /\ u.active => on)
  BY DEF Flag, Edit, Standing
<1>3. Edited(u, edit) = [u EXCEPT !.email = e, !.active = on, !.verified = seen]
  BY DEF Edited
<1> HIDE DEF e, on, seen
<1>4. /\ Edited(u, edit) \in Standing
      /\ Edited(u, edit).auth = u.auth /\ Edited(u, edit).status = u.status
      /\ Edited(u, edit).email = e /\ Edited(u, edit).active = on
  BY <1>1, <1>2, <1>3 DEF Standing
<1> QED
  BY <1>2, <1>4 DEF e

LEMMA DecisionIsWritten ==
  ASSUME AccountsInv, NEW c \in Clerks, Approve(c) \/ Reject(c) PROVE AccountsInv'
<1> DEFINE r == clerk[c]
<1>0. PICK p : p = r.target
  OBVIOUS
<1>1. /\ r.pc \in {"approve", "reject"} /\ Exists(p) /\ Answered(c) /\ UNCHANGED providerVars
  BY <1>0 DEF Approve, Reject
<1>2. /\ p \in People /\ r.actor \in People /\ Role[p] = "STUDENT"
  BY <1>0, <1>1 DEF AccountsInv, ClerksKnow, Knows
<1>3. user[p] \in Standing
  BY <1>1, <1>2, ExistingRows DEF AccountsInv
<1>4. PICK u \in Standing :
        /\ user' = [user EXCEPT ![p] = u]
        /\ u.auth = user[p].auth /\ u.email = user[p].email
        /\ \E n \in {"ACCOUNT_APPROVED", "ACCOUNT_REJECTED"} : notice' = [notice EXCEPT ![p] = n]
  <2>1. /\ Approved(user[p], r.actor) \in Standing /\ Rejected(user[p]) \in Standing
        /\ \A u \in {Approved(user[p], r.actor), Rejected(user[p])} :
             u.auth = user[p].auth /\ u.email = user[p].email
    BY <1>2, <1>3, DecidedStands
  <2> QED
    BY <2>1, <1>0, <1>2, <1>3 DEF Approve, Reject
<1>5. /\ user'[p] = u
      /\ notice' \in [People -> {"NONE", "ACCOUNT_APPROVED", "ACCOUNT_REJECTED"}]
      /\ \A o \in People \ {p} : notice'[o] = notice[o]
      /\ notice'[p] \in {"ACCOUNT_APPROVED", "ACCOUNT_REJECTED"}
  BY <1>2, <1>4 DEF AccountsInv, AccountsTypeOK
<1>6. RowMoves(p)
  BY <1>1, <1>2, <1>4, <1>5, StandingRowMoves DEF AccountsInv, AddressFromTheProvider
<1>7. p \notin ActiveOwners /\ u \in User
  BY <1>2, UserIs DEF ActiveOwners, Owners
<1>8. PICK held : held = clerk[c].auth
  OBVIOUS
<1> QED
  BY <1>1, <1>2, <1>4, <1>5, <1>6, <1>7, <1>8, RowIsWritten

LEMMA AddressIsSynced ==
  ASSUME AccountsInv, NEW c \in Clerks, Sync(c) PROVE AccountsInv'
<1> DEFINE r == clerk[c]
<1>0. PICK p, e : p = r.target /\ e = r.edit.email
  OBVIOUS
<1>1. /\ r.pc = "sync" /\ Answered(c) /\ UNCHANGED <<providerVars, notice>>
      /\ UNCHANGED providerVars /\ notice' = notice
  BY DEF Sync
<1>2. Knows(r) /\ p \in People /\ e \in Emails
  BY <1>0, <1>1 DEF AccountsInv, ClerksKnow, Knows
<1>3. CASE UNCHANGED user
  BY <1>1, <1>3, ClerkAnswers
<1>4. CASE Exists(p) /\ user' = [user EXCEPT ![p].email = e]
  <2>1. user[p] \in Standing
    BY <1>2, <1>4, ExistingRows DEF AccountsInv
  <2>2. PICK u \in Standing :
          /\ u = [user[p] EXCEPT !.email = e]
          /\ u.email = e /\ u.auth = user[p].auth /\ u.status = user[p].status
          /\ u.active = user[p].active
    <3>1. PICK w \in Standing : w = user[p]
      BY <2>1
    <3>2. /\ [w EXCEPT !.email = e] \in Standing /\ [w EXCEPT !.email = e].email = e
          /\ [w EXCEPT !.email = e].auth = w.auth /\ [w EXCEPT !.email = e].status = w.status
          /\ [w EXCEPT !.email = e].active = w.active
      BY <1>2, ReaddressedStands
    <3> QED
      BY <3>1, <3>2
  <2>3. user' = [user EXCEPT ![p] = u] /\ user \in [People -> User]
    BY <1>4, <2>2 DEF AccountsInv, AccountsTypeOK
  <2>4. user'[p] = u /\ notice'[p] = notice[p] /\ u \in User
    BY <2>3, <1>1, <1>2, UserIs
  <2>5. u.auth # NoIdentity => u.email \in had[u.auth]
    BY <1>0, <1>1, <1>2, <1>4, <2>2, AccountsAssumption DEF Knows
  <2>6. RowMoves(p) /\ Exists(p)'
    BY <1>1, <1>2, <1>4, <2>2, <2>4, <2>5, StandingRowMoves
  <2>7. p \in ActiveOwners => p \in ActiveOwners'
    BY <1>2, <2>2, <2>4, <2>6 DEF ActiveOwners, Owners
  <2>8. PICK held : held = clerk[c].auth
    OBVIOUS
  <2> QED
    BY <1>1, <1>2, <2>3, <2>4, <2>6, <2>7, <2>8, RowIsWritten DEF AccountsInv, AccountsTypeOK
<1> QED
  BY <1>0, <1>3, <1>4 DEF Sync

\* Insert and Complete: the address of the row that is made is the one its identity
\* was made with, or has claimed.
LEMMA RowIsMade ==
  ASSUME AccountsInv, NEW c \in Clerks, clerk[c].pc \in {"insert", "complete"},
         Insertable(clerk[c]), Answered(c), UNCHANGED <<providerVars, notice>>,
         NEW u \in Standing, u.email = clerk[c].edit.email, u.auth = clerk[c].auth,
         user' = [user EXCEPT ![clerk[c].target] = u]
  PROVE  AccountsInv'
<1> DEFINE r == clerk[c]
<1>0. PICK p : p = r.target
  OBVIOUS
<1>1. /\ Knows(r) /\ p \in People /\ user[p] = NoUser
      /\ u.auth \in Identities /\ u.email \in had[u.auth]
  BY <1>0 DEF AccountsInv, ClerksKnow, Knows, Insertable
<1>2. ~Exists(p) /\ user[p].status = "NONE"
  BY <1>1, UserIs DEF Exists
<1>3. notice[p] \in {"NONE", "ACCOUNT_APPROVED", "ACCOUNT_REJECTED"}
  BY <1>1 DEF AccountsInv, AccountsTypeOK
<1>4. user' = [user EXCEPT ![p] = u] /\ user \in [People -> User]
  BY <1>0 DEF AccountsInv, AccountsTypeOK
<1>5. user'[p] = u /\ u \in User /\ u # NoUser
  BY <1>1, <1>4, UserIs
<1>6. RowMoves(p)
  BY <1>1, <1>2, <1>3, <1>5 DEF RowMoves, providerVars
<1>7. p \notin ActiveOwners
  BY <1>2 DEF ActiveOwners, Owners
<1>8. PICK held : held = clerk[c].auth
  OBVIOUS
<1>9. Linked(held)' # {}
  BY <1>1, <1>5, <1>8, UserIs DEF Linked, Exists
<1> QED
  BY <1>1, <1>4, <1>5, <1>6, <1>7, <1>8, <1>9, RowIsWritten DEF AccountsInv, AccountsTypeOK

LEMMA CreatedStands ==
  ASSUME NEW r \in Request, r.edit.email \in Emails, r.auth \in Identities
  PROVE  /\ Created(r) \in Standing
         /\ Created(r).email = r.edit.email /\ Created(r).auth = r.auth
         /\ [Created(r) EXCEPT !.verified = FALSE, !.status = "PENDING"] \in Standing
         /\ [Created(r) EXCEPT !.verified = FALSE, !.status = "PENDING"].email = r.edit.email
         /\ [Created(r) EXCEPT !.verified = FALSE, !.status = "PENDING"].auth = r.auth
<1> DEFINE verified == r.edit.verified = "on"
<1>1. verified \in BOOLEAN
  OBVIOUS
<1>2. Created(r) = [NoUser EXCEPT !.status = IF verified THEN "ACTIVE" ELSE "PENDING",
                                  !.verified = verified, !.active = TRUE,
                                  !.email = r.edit.email, !.auth = r.auth]
  BY DEF Created
<1> HIDE DEF verified
<1>3. /\ Created(r) \in Standing
      /\ Created(r).email = r.edit.email /\ Created(r).auth = r.auth
  BY <1>1, <1>2 DEF NoUser, Standing
<1> QED
  BY <1>3 DEF Standing

LEMMA AccountIsInserted ==
  ASSUME AccountsInv, NEW c \in Clerks, Insert(c) \/ Complete(c) PROVE AccountsInv'
<1> DEFINE r == clerk[c]
<1>1. r.pc \in {"insert", "complete"} /\ UNCHANGED <<providerVars, notice>>
  BY DEF Insert, Complete
<1>2. r \in Request /\ Knows(r) /\ r.edit.email \in Emails /\ r.auth \in Identities
  BY <1>1, TypesOfAccounts DEF AccountsInv, ClerksKnow, Knows
<1>3. CASE Insertable(r) /\ Answered(c) /\ Insert(c) /\ user' = [user EXCEPT ![r.target] = Created(r)]
  BY <1>1, <1>2, <1>3, CreatedStands, RowIsMade
<1>4. CASE Complete(c)
  <2>1. CASE Insertable(r)
    BY <1>1, <1>2, <1>4, <2>1, CreatedStands, RowIsMade DEF Complete
  <2>2. CASE ~Insertable(r)
    BY <1>1, <1>4, <2>2, ClerkAnswers DEF Complete
  <2> QED
    BY <2>1, <2>2
<1>5. CASE Insert(c) /\ AfterFailedInsert(c) /\ UNCHANGED user
  <2> DEFINE q == [r EXCEPT !.pc = "undo"]
  <2>1. /\ q \in Request /\ q.pc = "undo" /\ q.target = r.target /\ q.auth = r.auth
        /\ q.edit = r.edit
    BY <1>2, RequestMoves
  <2>2. Holds(c, q) /\ r.pc = "insert"
    BY <1>5 DEF AfterFailedInsert, Proceed, Insert
  <2> HIDE DEF q
  <2>3. Knows(q) /\ HasCounted(q)
    BY <2>1, <2>2, <1>2 DEF Knows, HasCounted, Deposes
  <2> QED
    BY <1>1, <1>5, <2>1, <2>2, <2>3, OnlyTheClerk
<1> QED
  BY <1>3, <1>4, <1>5 DEF Insert

\* Deactivating or removing an owner is the one thing that takes an owner away,
\* and beats every count of the others that has been made.
LEMMA OwnerIsDeposed ==
  ASSUME AccountsInv, NEW c \in Clerks, NEW p \in People, clerk' = Beaten(c, p),
         Grows, clerk[c].pc \notin {"insert", "undo"},
         ActiveOwners \ {p} \subseteq ActiveOwners',
         user' \in [People -> User], UNCHANGED <<identity, had>>,
         notice' \in [People -> {"NONE", "ACCOUNT_APPROVED", "ACCOUNT_REJECTED"}],
         excused' \subseteq Identities
  PROVE  AccountsInv'
<1>1. ASSUME NEW d \in Clerks \ {c}
      PROVE  /\ clerk'[d] \in Request
             /\ Carries(clerk[d], clerk'[d])
             /\ \/ ActiveOwners \subseteq ActiveOwners'
                \/ clerk'[d].pc \notin {"provider", "write", "delete"}
                \/ clerk'[d].beaten
  <2> DEFINE b == clerk[d].beaten \/
                    (p \in ActiveOwners /\ clerk[d].pc \in {"provider", "write", "delete"})
  <2>1. clerk'[d] = [clerk[d] EXCEPT !.beaten = b]
    BY DEF Beaten
  <2>2. /\ clerk[d] \in Request /\ b \in BOOLEAN /\ (clerk[d].beaten => b)
        /\ b \/ p \notin ActiveOwners \/ clerk[d].pc \notin {"provider", "write", "delete"}
    BY TypesOfAccounts DEF Request
  <2> HIDE DEF b
  <2>3. /\ clerk'[d] \in Request /\ Carries(clerk[d], clerk'[d]) /\ clerk'[d].beaten = b
        /\ clerk'[d].pc = clerk[d].pc
    BY <2>1, <2>2 DEF Request, Carries
  <2> QED
    BY <2>2, <2>3
<1>2. clerk'[c] = Idle /\ clerk' \in [Clerks -> Request]
  BY <1>1, IdleIs DEF Beaten
<1>3. PICK q, held : q = Idle /\ held = clerk[c].auth
  OBVIOUS
<1>4. Knows(q)' /\ HasCounted(q)'
  BY <1>3, IdleKnows
<1>5. /\ identity' \in [Identities -> Emails \union {NoEmail}]
      /\ had' \in [Identities -> SUBSET Emails]
      /\ \A i \in Identities : identity'[i] = identity[i]
  BY DEF AccountsInv, AccountsTypeOK
<1> QED
  BY <1>1, <1>2, <1>3, <1>4, <1>5, OneRequestSteps

LEMMA EditIsWritten ==
  ASSUME AccountsInv, NEW c \in Clerks, Write(c) PROVE AccountsInv'
<1> DEFINE r == clerk[c]
<1>0. PICK p, edit : p = r.target /\ edit = r.edit
  OBVIOUS
<1>1. r.pc = "write" /\ UNCHANGED <<providerVars, notice>> /\ UNCHANGED providerVars
      /\ notice' = notice
  BY DEF Write
<1>2. /\ r \in Request /\ Knows(r) /\ p \in People /\ edit \in Edit
      /\ user[p] # NoUser
  BY <1>0, <1>1, TypesOfAccounts DEF AccountsInv, ClerksKnow, Knows, Request
<1>3. CASE Answered(c) /\ UNCHANGED user
  BY <1>1, <1>3, ClerkAnswers
<1>4. CASE Proceed(c, "restore") /\ UNCHANGED user /\ r.auth # NoIdentity
  <2> DEFINE q == [r EXCEPT !.pc = "restore"]
  <2>1. /\ q \in Request /\ q.pc = "restore" /\ q.target = r.target /\ q.auth = r.auth
        /\ q.edit = r.edit
    BY <1>2, RequestMoves
  <2>2. Holds(c, q)
    BY <1>4 DEF Proceed
  <2> HIDE DEF q
  <2>3. Knows(q) /\ HasCounted(q)
    <3>1. r.auth \in Identities /\ HoldsTheLink(r)
      BY <1>1, <1>2, <1>4 DEF Knows, Request
    <3> QED
      BY <2>1, <3>1, <1>0, <1>1, <1>2 DEF Knows, HoldsTheLink, HasCounted, Deposes
  <2> QED
    BY <1>1, <1>4, <2>1, <2>2, <2>3, OnlyTheClerk
<1>5. ASSUME Exists(p), user' = [user EXCEPT ![p] = Edited(user[p], edit)],
             IF edit.active = "off" THEN clerk' = Beaten(c, p) ELSE Answered(c)
      PROVE  AccountsInv'
  <2>1. user[p] \in Standing /\ user \in [People -> User]
    BY <1>2, <1>5, ExistingRows DEF AccountsInv, AccountsTypeOK
  <2>2. PICK u \in Standing :
          /\ u = Edited(user[p], edit)
          /\ u.auth = user[p].auth /\ u.status = user[p].status
          /\ u.email = IF edit.email = NoEmail THEN user[p].email ELSE edit.email
          /\ edit.active # "off" /\ user[p].active => u.active
    BY <2>1, <1>2, EditedStands
  <2>3. /\ user' = [user EXCEPT ![p] = u] /\ user'[p] = u /\ u \in User
        /\ user' \in [People -> User] /\ \A o \in People \ {p} : user'[o] = user[o]
    BY <1>2, <1>5, <2>1, <2>2, UserIs
  <2>4. u.auth # NoIdentity => u.email \in had[u.auth]
    <3>1. edit.email # NoEmail /\ u.auth # NoIdentity => edit.email \in had[u.auth]
      BY <1>0, <1>1, <1>2, <1>5, <2>2 DEF Knows
    <3> QED
      BY <3>1, <1>2, <2>2 DEF AccountsInv, AddressFromTheProvider
  <2>5. RowMoves(p) /\ Exists(p)'
    BY <1>1, <1>2, <1>5, <2>2, <2>3, <2>4, StandingRowMoves
  <2>6. CASE edit.active # "off"
    <3>1. p \in ActiveOwners => p \in ActiveOwners'
      BY <1>2, <2>2, <2>3, <2>5, <2>6 DEF ActiveOwners, Owners
    <3>2. PICK held : held = clerk[c].auth
      OBVIOUS
    <3> QED
      BY <1>1, <1>2, <1>5, <2>3, <2>5, <2>6, <3>1, <3>2, RowIsWritten
         DEF AccountsInv, AccountsTypeOK
  <2>7. CASE edit.active = "off"
    <3>1. \A o \in People : RowMoves(o)
      BY <1>1, <2>3, <2>5, RowRests DEF providerVars
    <3>2. Grows
      BY <1>1, <3>1 DEF Grows, providerVars
    <3>3. ActiveOwners \ {p} \subseteq ActiveOwners'
      BY <2>3 DEF ActiveOwners, Owners, Exists
    <3> QED
      BY <1>1, <1>2, <1>5, <2>3, <2>7, <3>2, <3>3, OwnerIsDeposed
         DEF AccountsInv, AccountsTypeOK, providerVars
  <2> QED
    BY <2>6, <2>7
<1> QED
  BY <1>0, <1>3, <1>4, <1>5 DEF Write

LEMMA ForgottenRows ==
  ASSUME NEW u \in User, NEW p \in People
  PROVE  /\ Forgotten(u, p) \in User /\ (u # NoUser => Forgotten(u, p) # NoUser)
         /\ Forgotten(u, p).status = u.status /\ Forgotten(u, p).active = u.active
         /\ Forgotten(u, p).email = u.email /\ Forgotten(u, p).auth = u.auth
<1>1. CASE u \in {NoUser, Removed}
  BY <1>1, UserIs, AccountsAssumption DEF Forgotten
<1>2. CASE u \in Standing
  <2>1. /\ Forgotten(u, p) \in Standing
        /\ Forgotten(u, p).status = u.status /\ Forgotten(u, p).active = u.active
        /\ Forgotten(u, p).email = u.email /\ Forgotten(u, p).auth = u.auth
    BY <1>2 DEF Forgotten, Standing
  <2> QED
    BY <2>1, UserIs
<1> QED
  BY <1>1, <1>2, UserIs

LEMMA AccountIsDeleted ==
  ASSUME AccountsInv, NEW c \in Clerks, Delete(c) PROVE AccountsInv'
<1>0. PICK p : p = clerk[c].target
  OBVIOUS
<1>1. /\ clerk[c].pc = "delete" /\ Exists(p) /\ UNCHANGED <<identity, had>>
      /\ user' = [[q \in People |-> Forgotten(user[q], p)] EXCEPT ![p] = Removed]
      /\ notice' = [notice EXCEPT ![p] = "NONE"]
      /\ excused' = excused \union ({user[p].auth} \ {NoIdentity})
      /\ clerk' = Beaten(c, p)
  BY <1>0 DEF Delete
<1>2. p \in People /\ user \in [People -> User]
  BY <1>0, <1>1 DEF AccountsInv, ClerksKnow, Knows, AccountsTypeOK
<1>3. /\ user'[p] = Removed
      /\ \A o \in People \ {p} : user'[o] = Forgotten(user[o], p)
      /\ user' \in [People -> User]
  <2>1. \A o \in People : Forgotten(user[o], p) \in User
    BY <1>2, ForgottenRows
  <2>2. Removed \in User
    BY UserIs
  <2> QED
    BY <1>1, <1>2, <2>1, <2>2
<1>4. /\ notice'[p] = "NONE" /\ \A o \in People \ {p} : notice'[o] = notice[o]
      /\ notice' \in [People -> {"NONE", "ACCOUNT_APPROVED", "ACCOUNT_REJECTED"}]
  BY <1>1, <1>2 DEF AccountsInv, AccountsTypeOK
<1>5. excused' \subseteq Identities /\ excused \subseteq excused'
  BY <1>1, <1>2, ExistingRows DEF AccountsInv, AccountsTypeOK
<1>6. RowMoves(p)
  BY <1>1, <1>2, <1>3, <1>4, UserIs DEF RowMoves, Exists
<1>7. ASSUME NEW o \in People \ {p} PROVE RowMoves(o)
  <2>1. PICK u \in User :
          /\ u = user'[o] /\ (user[o] # NoUser => u # NoUser)
          /\ u.status = user[o].status /\ u.email = user[o].email /\ u.auth = user[o].auth
    BY <1>2, <1>3, ForgottenRows
  <2>2. user'[o] = u /\ notice'[o] = notice[o]
    BY <2>1, <1>4
  <2> QED
    BY <2>1, <2>2, <1>1, <1>4
       DEF RowMoves, Exists, AccountsInv, AddressFromTheProvider
<1>8. Grows
  BY <1>1, <1>5, <1>6, <1>7 DEF Grows
<1>9. ActiveOwners \ {p} \subseteq ActiveOwners'
  BY <1>2, <1>3, ForgottenRows DEF ActiveOwners, Owners, Exists
<1> QED
  BY <1>1, <1>2, <1>3, <1>4, <1>5, <1>8, <1>9, OwnerIsDeposed

LEMMA AccountsStart == AccountsInit => AccountsInv
<1> SUFFICES ASSUME AccountsInit PROVE AccountsInv
  OBVIOUS
<1>1. ASSUME NEW p \in People
      PROVE  user[p] \in User /\ user[p].auth = NoIdentity
  <2>1. CASE p \in Registered
    <3> DEFINE e == FirstAddress[p]
    <3>1. e \in Emails
      BY <2>1, AccountsAssumption
    <3> HIDE DEF e
    <3>2. FirstRow(p, e) \in Standing /\ FirstRow(p, e).auth = NoIdentity
      BY <3>1 DEF FirstRow, NoUser, Standing
    <3> QED
      BY <2>1, <3>2, UserIs DEF AccountsInit, e
  <2>2. CASE p \notin Registered
    BY <2>2, UserIs DEF AccountsInit
  <2> QED
    BY <2>1, <2>2
<1>2. user \in [People -> User] /\ clerk \in [Clerks -> Request]
  BY <1>1, IdleIs DEF AccountsInit
<1>3. AccountsTypeOK
  BY <1>2 DEF AccountsTypeOK, AccountsInit
<1>4. ClerksKnow
  BY IdleIs DEF AccountsInit, ClerksKnow, Knows, HasCounted, Deposes
<1> QED
  BY <1>1, <1>3, <1>4 DEF AccountsInv, AccountsInit, AddressFromTheProvider, NoIdentityAbandoned

LEMMA AccountsStep == AccountsInv /\ [AccountsNext]_accountVars => AccountsInv'
<1> SUFFICES ASSUME AccountsInv, [AccountsNext]_accountVars PROVE AccountsInv'
  OBVIOUS
<1>1. ASSUME NEW c \in Clerks, DecisionStep(c) PROVE AccountsInv'
  BY <1>1, DecisionBegins, DecisionIsWritten DEF DecisionStep
<1>2. ASSUME NEW c \in Clerks, IsFree(c), BeginAccountEdit(c) PROVE AccountsInv'
  BY <1>2, AdminUpdateBegins, OwnerUpdateBegins, RemovalBegins, ProfileBegins
     DEF BeginAccountEdit, Administrators
<1>3. ASSUME NEW c \in Clerks, EditStep(c) PROVE AccountsInv'
  BY <1>2, <1>3, OwnersAreCounted, IdentityIsMoved, EditIsWritten, IdentityIsRestored,
     AccountIsDeleted DEF EditStep
<1>4. ASSUME NEW c \in Clerks, IsFree(c), BeginCreation(c) PROVE AccountsInv'
  BY <1>4, CreationBegins, CompletionBegins, SyncBegins DEF BeginCreation, Administrators
<1>5. ASSUME NEW c \in Clerks, CreationStep(c) PROVE AccountsInv'
  BY <1>4, <1>5, IdentityIsProvisioned, AccountIsInserted, IdentityIsUnmade, AddressIsSynced
     DEF CreationStep
<1>6. ASSUME AccountsNext PROVE AccountsInv'
  BY <1>1, <1>3, <1>5, <1>6, RequestIsLost, PeopleSignUp DEF AccountsNext
<1>7. ASSUME UNCHANGED accountVars PROVE AccountsInv'
  <2>1. /\ AccountsTypeOK' /\ AddressFromTheProvider'
    BY <1>7 DEF AccountsInv, accountVars, AccountsTypeOK, AddressFromTheProvider
  <2>2. NoIdentityAbandoned'
    BY <1>7 DEF AccountsInv, accountVars, NoIdentityAbandoned, Linked, Exists
  <2>3. ClerksKnow'
    BY <1>7 DEF AccountsInv, accountVars, ClerksKnow, Knows, HoldsTheLink, HasCounted, Deposes,
       OtherOwners, ActiveOwners, Owners, Exists
  <2> QED
    BY <2>1, <2>2, <2>3 DEF AccountsInv
<1> QED
  BY <1>6, <1>7

LEMMA AccountsAlways == AccountsSpec => []AccountsInv
BY AccountsStart, AccountsStep, PTL DEF AccountsSpec

\* No edit, no compensation and no stale token gives the row of a linked account
\* an address that its identity never had.
THEOREM AddressesAreProven == AccountsSpec => []AddressFromTheProvider
<1>1. AccountsInv => AddressFromTheProvider
  BY DEF AccountsInv
<1> QED
  BY <1>1, AccountsAlways, PTL

\* An identity made for an account has it, or a request that will make or
\* unmake it, unless something died, failed or was removed.
THEOREM IdentitiesHaveTheirAccount == AccountsSpec => []NoIdentityAbandoned
<1>1. AccountsInv => NoIdentityAbandoned
  BY DEF AccountsInv
<1> QED
  BY <1>1, AccountsAlways, PTL

-----------------------------------------------------------------------------
(* The last owner.  A step takes an active owner away only by deactivating *)
(* or removing one, and who does that has counted others, that are still   *)
(* there unless the count has gone stale.                                  *)

\* What is written of one row leaves the owners of the other rows in place.
LEMMA OneRowOnly ==
  ASSUME NEW p \in People, NEW u, user \in [People -> User], user' = [user EXCEPT ![p] = u],
         p \in ActiveOwners =>
           u.status \notin {"NONE", "REMOVED"} /\ u.active
  PROVE  ActiveOwners \subseteq ActiveOwners'
BY DEF ActiveOwners, Owners, Exists

LEMMA DecisionsKeepOwners ==
  ASSUME AccountsInv, NEW c \in Clerks, Approve(c) \/ Reject(c)
  PROVE  ActiveOwners \subseteq ActiveOwners'
<1>1. PICK p, u : /\ p = clerk[c].target /\ user' = [user EXCEPT ![p] = u]
  BY DEF Approve, Reject
<1>2. p \in People /\ Role[p] = "STUDENT"
  BY <1>1 DEF AccountsInv, ClerksKnow, Knows, Approve, Reject
<1> QED
  BY <1>1, <1>2, OneRowOnly DEF ActiveOwners, Owners, AccountsInv, AccountsTypeOK

LEMMA NewRowsKeepOwners ==
  ASSUME AccountsInv, NEW c \in Clerks, Insert(c) \/ Complete(c)
  PROVE  ActiveOwners \subseteq ActiveOwners'
<1>1. CASE UNCHANGED user
  BY <1>1 DEF ActiveOwners, Owners, Exists
<1>2. CASE ~UNCHANGED user
  <2>1. PICK p, u : /\ p = clerk[c].target /\ user' = [user EXCEPT ![p] = u]
                    /\ Insertable(clerk[c])
    BY <1>2 DEF Insert, Complete
  <2>2. p \in People /\ user[p] = NoUser
    BY <2>1 DEF AccountsInv, ClerksKnow, Knows, Insert, Complete, Insertable
  <2> QED
    BY <2>1, <2>2, UserIs, OneRowOnly
       DEF ActiveOwners, Owners, Exists, AccountsInv, AccountsTypeOK
<1> QED
  BY <1>1, <1>2

LEMMA SyncsKeepOwners ==
  ASSUME AccountsInv, NEW c \in Clerks, Sync(c)
  PROVE  ActiveOwners \subseteq ActiveOwners'
<1>1. CASE UNCHANGED user
  BY <1>1 DEF ActiveOwners, Owners, Exists
<1>2. CASE ~UNCHANGED user
  <2>1. PICK p, e : p = clerk[c].target /\ e = clerk[c].edit.email
    OBVIOUS
  <2>2. Exists(p) /\ user' = [user EXCEPT ![p].email = e]
    BY <1>2, <2>1 DEF Sync
  <2>3. p \in People /\ e \in Emails
    BY <2>1 DEF AccountsInv, ClerksKnow, Knows, Sync
  <2>4. PICK w \in Standing : w = user[p]
    BY <2>2, <2>3, ExistingRows DEF AccountsInv
  <2>5. PICK u \in Standing :
          u = [w EXCEPT !.email = e] /\ u.status = w.status /\ u.active = w.active
    <3>1. /\ [w EXCEPT !.email = e] \in Standing
          /\ [w EXCEPT !.email = e].status = w.status
          /\ [w EXCEPT !.email = e].active = w.active
      BY <2>3, <2>4, ReaddressedStands
    <3> QED
      BY <3>1
  <2>6. user' = [user EXCEPT ![p] = u] /\ user \in [People -> User]
    BY <2>2, <2>4, <2>5 DEF AccountsInv, AccountsTypeOK
  <2> QED
    BY <2>3, <2>4, <2>5, <2>6, OneRowOnly DEF ActiveOwners, Owners, Exists
<1> QED
  BY <1>1, <1>2

\* Of an edit: it deactivates nobody, or somebody who is no owner, or an owner
\* among others that its request has counted.
LEMMA EditsKeepAnOwner ==
  ASSUME AccountsInv, NEW c \in Clerks, Write(c), ~clerk[c].beaten, ActiveOwners # {}
  PROVE  ActiveOwners' # {}
<1> DEFINE r == clerk[c]
<1>0. PICK p, edit : p = r.target /\ edit = r.edit
  OBVIOUS
<1>1. CASE UNCHANGED user
  BY <1>1 DEF ActiveOwners, Owners, Exists
<1>2. CASE Exists(p) /\ user' = [user EXCEPT ![p] = Edited(user[p], edit)]
  <2>1. /\ r.pc = "write" /\ r \in Request /\ p \in People /\ edit \in Edit /\ HasCounted(r)
    BY <1>0, TypesOfAccounts DEF AccountsInv, ClerksKnow, Knows, Request, Write
  <2>2. user[p] \in Standing /\ user \in [People -> User]
    BY <1>2, <2>1, ExistingRows DEF AccountsInv, AccountsTypeOK
  <2>3. PICK u \in Standing :
          /\ u = Edited(user[p], edit) /\ u.status = user[p].status
          /\ edit.active # "off" /\ user[p].active => u.active
    BY <2>1, <2>2, EditedStands
  <2>4. user' = [user EXCEPT ![p] = u]
    BY <1>2, <2>3
  <2>5. CASE edit.active # "off" \/ Role[p] # "SYSTEM_OWNER"
    BY <1>2, <2>1, <2>2, <2>3, <2>4, <2>5, OneRowOnly DEF ActiveOwners, Owners, Exists
  <2>6. CASE edit.active = "off" /\ Role[p] = "SYSTEM_OWNER"
    <3>1. PICK o : o \in ActiveOwners \ {p}
      BY <1>0, <2>1, <2>6 DEF HasCounted, Deposes, OtherOwners
    <3>2. user'[o] = user[o] /\ o \in People
      BY <2>2, <2>4, <3>1 DEF ActiveOwners, Owners
    <3> QED
      BY <3>1, <3>2 DEF ActiveOwners, Owners, Exists
  <2> QED
    BY <2>5, <2>6
<1> QED
  BY <1>0, <1>1, <1>2 DEF Write

LEMMA RemovalsKeepAnOwner ==
  ASSUME AccountsInv, NEW c \in Clerks, Delete(c), ~clerk[c].beaten, ActiveOwners # {}
  PROVE  ActiveOwners' # {}
<1> DEFINE r == clerk[c]
<1>0. PICK p : p = r.target
  OBVIOUS
<1>1. /\ r.pc = "delete" /\ p \in People /\ HasCounted(r) /\ user \in [People -> User]
      /\ user' = [[q \in People |-> Forgotten(user[q], p)] EXCEPT ![p] = Removed]
  BY <1>0 DEF AccountsInv, ClerksKnow, Knows, Delete, AccountsTypeOK
<1>2. ASSUME NEW o \in ActiveOwners \ {p} PROVE o \in ActiveOwners'
  <2>1. o \in People /\ user'[o] = Forgotten(user[o], p) /\ user[o] \in User
    BY <1>1 DEF ActiveOwners, Owners
  <2>2. user'[o].status = user[o].status /\ user'[o].active = user[o].active
    BY <1>1, <2>1, ForgottenRows
  <2> QED
    BY <2>1, <2>2 DEF ActiveOwners, Owners, Exists
<1>3. ActiveOwners \ {p} # {}
  <2>1. CASE Role[p] = "SYSTEM_OWNER"
    BY <1>0, <1>1, <2>1 DEF HasCounted, Deposes, OtherOwners
  <2>2. CASE Role[p] # "SYSTEM_OWNER"
    BY <2>2 DEF ActiveOwners, Owners
  <2> QED
    BY <2>1, <2>2
<1> QED
  BY <1>2, <1>3

\* The last active owner is lost only to a race between requests that had
\* counted each other's: assertNotLastOwner holds in every other history.
THEOREM LastOwnerIsCounted == AccountsSpec => OwnersFallOnlyToARace
<1>1. ASSUME AccountsInv, AccountsNext, ActiveOwners # {}, \A c \in Clerks : ~clerk[c].beaten
      PROVE  ActiveOwners' # {}
  <2>1. CASE UNCHANGED user
    BY <1>1, <2>1 DEF ActiveOwners, Owners, Exists
  <2>2. ASSUME NEW c \in Clerks,
               Approve(c) \/ Reject(c) \/ Insert(c) \/ Complete(c) \/ Sync(c)
        PROVE  ActiveOwners' # {}
    BY <1>1, <2>2, DecisionsKeepOwners, NewRowsKeepOwners, SyncsKeepOwners
  <2>3. ASSUME NEW c \in Clerks, Write(c) \/ Delete(c) PROVE ActiveOwners' # {}
    BY <1>1, <2>3, EditsKeepAnOwner, RemovalsKeepAnOwner
  <2>4. ASSUME NEW c \in Clerks, IsFree(c), BeginAccountEdit(c) \/ BeginCreation(c)
        PROVE  UNCHANGED user
    BY <2>4 DEF BeginAccountEdit, BeginCreation, BeginAdminUpdate, BeginOwnerUpdate,
       BeginRemove, BeginProfile, BeginCreate, BeginComplete, BeginSync
  <2>5. ASSUME NEW c \in Clerks,
               DecisionStep(c) \/ EditStep(c) \/ CreationStep(c) \/ RequestLost(c)
        PROVE  ActiveOwners' # {}
    <3>1. \/ UNCHANGED user
          \/ Approve(c) \/ Reject(c) \/ Insert(c) \/ Complete(c) \/ Sync(c)
          \/ Write(c) \/ Delete(c)
      BY <2>4, <2>5 DEF DecisionStep, EditStep, CreationStep, RequestLost, BeginDecision,
         CountOwners, MoveIdentity, Restore, Provision, Undo
    <3> QED
      BY <2>1, <2>2, <2>3, <3>1
  <2>6. ASSUME NEW i \in Identities, NEW e \in Emails, SignUp(i, e) \/ ChangeAddress(i, e)
        PROVE  UNCHANGED user
    BY <2>6 DEF SignUp, ChangeAddress
  <2> QED
    BY <1>1, <2>1, <2>5, <2>6 DEF AccountsNext
<1>2. AccountsInv /\ [AccountsNext]_accountVars =>
        [ActiveOwners # {} /\ ActiveOwners' = {}
           => \E c \in Clerks : clerk[c].beaten]_accountVars
  BY <1>1
<1> QED
  BY <1>2, AccountsAlways, PTL DEF AccountsSpec, OwnersFallOnlyToARace

-----------------------------------------------------------------------------
(* The console's forms.  A call that is sound is the only one in the air;  *)
(* a form that is sound says of what nobody typed into what the server     *)
(* says, and so does the call it sends; a settled list is what is served.  *)

Lists == [Items -> Item]
Query == [seen : SUBSET Lists, valid : BOOLEAN, asked : BOOLEAN, took : SUBSET Lists,
          behind : BOOLEAN]
FormState == [on : SUBSET Items, filledFor : SUBSET Items, draft : Item,
         typed : SUBSET Fields, sound : BOOLEAN, left : SUBSET Items]
Call == [kind : {"form", "button"}, row : Items, says : Item, fields : SUBSET Fields,
         typed : SUBSET Fields, sound : BOOLEAN, landed : BOOLEAN]

ConsoleTypes ==
  /\ screen \in Screens /\ view \in Filters /\ served \in Lists
  /\ cache \in [Filters -> Query] /\ form \in FormState /\ writing \subseteq Call

\* A list that was read and is not known to be out of date is what is served,
\* or a write has landed that is still to be answered.
ListsAreServed ==
  \A v \in Filters :
    cache[v].seen # {} /\ cache[v].valid /\ ~cache[v].asked /\ ~cache[v].behind =>
      cache[v].seen = {served} \/ \E c \in writing : c.landed

\* Nothing else is in the air beside a call that is sound.
SoundCallsAreAlone == \A c \in writing : c.sound => writing = {c}

SaysAsServed(draft, fields, r) == \A f \in fields \intersect Fields : draft[f] = served[r][f]
CallsSayAsServed ==
  \A c \in writing : c.sound /\ ~c.landed =>
    /\ SaysAsServed(c.says, c.fields \ c.typed, c.row)
    /\ c.kind = "button" => c.fields = {"flag"} /\ c.says.flag # served[c.row].flag

FormSaysAsServed ==
  /\ \A r \in Items : form.sound /\ form.on = {r} =>
       /\ SaysAsServed(form.draft, Fields \ form.typed, r)
       /\ \A c \in writing : /\ c.kind = "form" /\ c.row = r
                             /\ c.sound /\ c.typed \subseteq form.typed
  /\ form.filledFor \subseteq (IF form.on = {} THEN form.left ELSE form.on)

ConsoleInv ==
  /\ ConsoleTypes /\ ListsAreServed
  /\ SoundCallsAreAlone /\ CallsSayAsServed /\ FormSaysAsServed

LEMMA PagesSend ==
  ASSUME screen \in Screens PROVE screen.dialog.sends \subseteq Fields
<1>1. /\ UserDialog.sends \subseteq Fields /\ OrganizationDialog.sends \subseteq Fields
      /\ CourseDialog.sends \subseteq Fields /\ DepartmentDialog.sends \subseteq Fields
      /\ LectureDialog.sends \subseteq Fields /\ MaterialDialog.sends \subseteq Fields
      /\ AssignmentDialog.sends \subseteq Fields /\ GradeDialog.sends \subseteq Fields
      /\ NoDialog.sends \subseteq Fields
  BY DEF UserDialog, OrganizationDialog, CourseDialog, DepartmentDialog, LectureDialog,
     MaterialDialog, AssignmentDialog, GradeDialog, NoDialog, Fields
<1>2. /\ UsersPage.dialog = UserDialog /\ OrganizationsPage.dialog = OrganizationDialog
      /\ CoursesPage.dialog = CourseDialog /\ DepartmentsPage.dialog = DepartmentDialog
      /\ TimetablePage.dialog = LectureDialog /\ MaterialsPage.dialog = MaterialDialog
      /\ AssignmentsPage.dialog = AssignmentDialog /\ GradebookPage.dialog = GradeDialog
      /\ DirectoryPage.dialog = NoDialog /\ PendingPage.dialog = NoDialog
      /\ SessionsPage.dialog = NoDialog /\ InboxPage.dialog = NoDialog
  BY DEF UsersPage, OrganizationsPage, CoursesPage, DepartmentsPage, TimetablePage,
     MaterialsPage, AssignmentsPage, GradebookPage, DirectoryPage, PendingPage, SessionsPage,
     InboxPage
<1> QED
  BY <1>1, <1>2 DEF Screens

LEMMA EmptyForms ==
  /\ Shut \in FormState /\ Shut.on = {} /\ Shut.filledFor = {} /\ ~Shut.sound
  /\ NotRead \in Query /\ NotRead.seen = {}
<1>1. AnyText \in Texts
  BY ConsoleAssumption DEF AnyText
<1> QED
  BY <1>1 DEF Shut, FormState, Item, Fields, NotRead, Query

LEMMA ConsoleStarts == ConsoleInit => ConsoleInv
<1> SUFFICES ASSUME ConsoleInit PROVE ConsoleInv
  OBVIOUS
<1>1. served \in Lists /\ cache \in [Filters -> Query]
  BY EmptyForms DEF ConsoleInit, Lists
<1> QED
  BY <1>1, EmptyForms DEF ConsoleInit, ConsoleInv, ConsoleTypes, ListsAreServed,
     SoundCallsAreAlone, CallsSayAsServed, FormSaysAsServed

\* Reading a list leaves everything else alone.
LEMMA ListsAreRead ==
  ASSUME ConsoleInv, NEW v \in Filters, NEW q \in Query,
         cache' = [cache EXCEPT ![v] = q] \/ cache' = cache, view' \in Filters,
         UNCHANGED <<screen, served, form, writing>>,
         ~q.asked => q.behind \/ q.seen = {served}
  PROVE  ConsoleInv'
<1>1. cache' \in [Filters -> Query]
  BY DEF ConsoleInv, ConsoleTypes
<1>2. ListsAreServed'
  BY <1>1 DEF ConsoleInv, ConsoleTypes, ListsAreServed
<1> QED
  BY <1>1, <1>2 DEF ConsoleInv, ConsoleTypes, SoundCallsAreAlone, CallsSayAsServed,
     FormSaysAsServed, SaysAsServed

LEMMA AskingFor ==
  ASSUME NEW q \in Query PROVE AskFor(q) \in Query /\ AskFor(q).asked
BY DEF AskFor, Query

LEMMA LooksAndReads ==
  ASSUME ConsoleInv, NEW v \in Filters, Look(v) \/ ServeList(v) \/ ReceiveList(v)
  PROVE  ConsoleInv'
<1>0. PICK old \in Query : old = cache[v]
  BY DEF ConsoleInv, ConsoleTypes
<1>1. CASE Look(v)
  <2>1. AskFor(old) \in Query /\ AskFor(old).asked
    BY AskingFor
  <2>2. /\ UNCHANGED <<screen, served, form, writing>> /\ view' \in Filters
        /\ cache' = [cache EXCEPT ![v] = AskFor(old)] \/ cache' = cache
    BY <1>0, <1>1 DEF Look
  <2> QED
    BY <2>1, <2>2, ListsAreRead
<1>2. CASE ServeList(v)
  <2> DEFINE q == [old EXCEPT !.took = {served}]
  <2>1. q \in Query /\ q.asked
    BY <1>0, <1>2 DEF ServeList, Query, ConsoleInv, ConsoleTypes
  <2>2. /\ UNCHANGED <<screen, served, form, writing>> /\ view' \in Filters
        /\ cache' = [cache EXCEPT ![v] = q]
    BY <1>0, <1>2 DEF ServeList, ConsoleInv, ConsoleTypes
  <2> HIDE DEF q
  <2> QED
    BY <2>1, <2>2, ListsAreRead
<1>3. CASE ReceiveList(v)
  <2> DEFINE q == [seen |-> old.took, valid |-> TRUE, asked |-> FALSE, took |-> {},
                   behind |-> old.took # {served}]
  <2>1. q \in Query /\ (q.behind \/ q.seen = {served})
    BY <1>0, <1>3 DEF ReceiveList, Query
  <2>2. /\ UNCHANGED <<screen, served, form, writing>> /\ view' \in Filters
        /\ cache' = [cache EXCEPT ![v] = q]
    BY <1>0, <1>3 DEF ReceiveList, ConsoleInv, ConsoleTypes
  <2> HIDE DEF q
  <2> QED
    BY <2>1, <2>2, ListsAreRead
<1> QED
  BY <1>1, <1>2, <1>3

LEMMA FormOpens ==
  ASSUME ConsoleInv, NEW r \in Items, OpenForm(r) PROVE ConsoleInv'
<1>1. /\ UNCHANGED <<screen, served, cache, view, writing>>
      /\ cache[view].seen # {} /\ form.on = {}
      /\ form' = [on |-> {r}, filledFor |-> {r}, draft |-> FilledFor(r), typed |-> {},
                  sound |-> UpToDate(view) /\ r \notin form.left, left |-> {}]
  BY DEF OpenForm, Offered
<1>2. Row(r) \in Item
  BY <1>1 DEF Row, ConsoleInv, ConsoleTypes, Query, Lists
<1>3. FilledFor(r) \in Item /\ (UpToDate(view) /\ r \notin form.left) \in BOOLEAN
  BY <1>2 DEF FilledFor, ConsoleInv, ConsoleTypes, FormState, UpToDate
<1>4. form' \in FormState
  BY <1>1, <1>3 DEF FormState
<1>5. ASSUME form'.sound
      PROVE  writing = {} /\ FilledFor(r) = served[r]
  <2>1. UpToDate(view) /\ r \notin form.left
    BY <1>1, <1>5
  <2>2. writing = {} /\ cache[view].seen = {served}
    BY <2>1 DEF UpToDate, ConsoleInv, ConsoleTypes, ListsAreServed
  <2>3. FilledFor(r) = Row(r)
    BY <1>1, <2>1 DEF FilledFor, ConsoleInv, FormSaysAsServed
  <2> QED
    BY <2>2, <2>3 DEF Row
<1>6. FormSaysAsServed'
  BY <1>1, <1>5 DEF FormSaysAsServed, SaysAsServed
<1> QED
  BY <1>1, <1>4, <1>6 DEF ConsoleInv, ConsoleTypes, ListsAreServed, SoundCallsAreAlone,
     CallsSayAsServed, SaysAsServed

LEMMA FieldsAreTyped ==
  ASSUME ConsoleInv, NEW f \in Fields, Type(f) PROVE ConsoleInv'
<1>1. PICK typed \in Item :
        /\ \A g \in Fields : (typed[g] # form.draft[g]) = (g = f)
        /\ form' = [form EXCEPT !.draft = typed, !.typed = @ \union {f}]
  BY DEF Type
<1>2. UNCHANGED <<screen, served, cache, view, writing>> /\ form \in FormState
  BY DEF Type, ConsoleInv, ConsoleTypes
<1>3. /\ form' \in FormState /\ form'.draft = typed /\ form'.typed = form.typed \union {f}
      /\ form'.on = form.on /\ form'.filledFor = form.filledFor /\ form'.left = form.left
      /\ form'.sound = form.sound
  BY <1>1, <1>2 DEF FormState
<1>4. \A g \in Fields \ form'.typed : typed[g] = form.draft[g]
  BY <1>1, <1>3
<1>5. FormSaysAsServed'
  BY <1>2, <1>3, <1>4 DEF ConsoleInv, FormSaysAsServed, SaysAsServed
<1> QED
  BY <1>2, <1>3, <1>5 DEF ConsoleInv, ConsoleTypes, ListsAreServed, SoundCallsAreAlone,
     CallsSayAsServed, SaysAsServed

LEMMA FormCloses ==
  ASSUME ConsoleInv, NEW how, CloseForm(how) PROVE ConsoleInv'
<1>1. UNCHANGED <<screen, served, cache, view, writing>> /\ form \in FormState
  BY DEF CloseForm, ConsoleInv, ConsoleTypes
<1>2. /\ form' \in FormState /\ form'.on = {} /\ form'.filledFor \subseteq form'.left
  <2>1. CASE form' = Shut
    BY <2>1, EmptyForms
  <2>2. CASE form' = [form EXCEPT !.on = {}, !.left = form.on, !.sound = FALSE, !.typed = {}]
    BY <1>1, <2>2 DEF FormState, CloseForm, ConsoleInv, FormSaysAsServed
  <2> QED
    BY <2>1, <2>2 DEF CloseForm
<1>3. FormSaysAsServed'
  BY <1>2 DEF FormSaysAsServed
<1> QED
  BY <1>1, <1>2, <1>3 DEF ConsoleInv, ConsoleTypes, ListsAreServed, SoundCallsAreAlone,
     CallsSayAsServed, SaysAsServed

\* A call that has been joined by another is not sound, and otherwise the same.
LEMMA Unsound ==
  ASSUME NEW c \in Call
  PROVE  /\ [c EXCEPT !.sound = FALSE] \in Call /\ ~[c EXCEPT !.sound = FALSE].sound
         /\ [c EXCEPT !.sound = FALSE].landed = c.landed
BY DEF Call

LEMMA CallIsSent ==
  ASSUME ConsoleInv, NEW q \in Call, UNCHANGED <<screen, served, cache, view, form>>,
         writing' = {[c EXCEPT !.sound = FALSE] : c \in writing} \union {q},
         ~q.landed,
         q.sound => /\ writing = {}
                    /\ SaysAsServed(q.says, q.fields \ q.typed, q.row)
                    /\ q.kind = "button" =>
                         q.fields = {"flag"} /\ q.says.flag # served[q.row].flag,
         form.sound /\ form.on # {} =>
           /\ writing = {} /\ q.kind = "form" /\ form.on = {q.row}
           /\ q.sound /\ q.typed \subseteq form.typed
  PROVE  ConsoleInv'
<1>1. /\ writing \subseteq Call
      /\ \A c \in writing : /\ [c EXCEPT !.sound = FALSE] \in Call
                            /\ ~[c EXCEPT !.sound = FALSE].sound
                            /\ [c EXCEPT !.sound = FALSE].landed = c.landed
  BY Unsound DEF ConsoleInv, ConsoleTypes
<1>2. writing' \subseteq Call /\ \A c \in writing' : c.sound => c = q
  BY <1>1
<1>3. SoundCallsAreAlone'
  BY <1>2 DEF SoundCallsAreAlone
<1>4. CallsSayAsServed'
  BY <1>2 DEF CallsSayAsServed, SaysAsServed
<1>5. ListsAreServed'
  <2>1. (\E c \in writing : c.landed) => \E c \in writing' : c.landed
    BY <1>1
  <2> QED
    BY <2>1 DEF ConsoleInv, ListsAreServed
<1>6. FormSaysAsServed'
  BY DEF ConsoleInv, FormSaysAsServed, SaysAsServed
<1> QED
  BY <1>2, <1>3, <1>4, <1>5, <1>6 DEF ConsoleInv, ConsoleTypes

LEMMA FormIsSubmitted ==
  ASSUME ConsoleInv, NEW r \in Items, SubmitForm(r) PROVE ConsoleInv'
<1> DEFINE q == [kind |-> "form", row |-> r, says |-> form.draft,
                 fields |-> screen.dialog.sends, typed |-> form.typed,
                 sound |-> form.sound /\ writing = {}, landed |-> FALSE]
<1>1. /\ form.on = {r} /\ UNCHANGED <<screen, served, cache, view, form>>
      /\ InTheAir("form") = {}
      /\ writing' = {[c EXCEPT !.sound = FALSE] : c \in writing} \union {q}
  BY DEF SubmitForm, SendWrite
<1>2. form \in FormState /\ (form.sound /\ writing = {}) \in BOOLEAN
  BY DEF ConsoleInv, ConsoleTypes, FormState
<1>3. screen.dialog.sends \subseteq Fields
  BY PagesSend DEF ConsoleInv, ConsoleTypes
<1>4. /\ q \in Call /\ q.kind = "form" /\ q.row = r /\ q.says = form.draft
      /\ q.typed = form.typed /\ ~q.landed /\ q.fields \subseteq Fields
      /\ q.sound <=> (form.sound /\ writing = {})
  BY <1>2, <1>3 DEF Call, FormState
<1>5. form.sound => writing = {}
  BY <1>1 DEF ConsoleInv, FormSaysAsServed, InTheAir
<1>6. q.sound => SaysAsServed(q.says, q.fields \ q.typed, q.row)
  BY <1>1, <1>4 DEF ConsoleInv, FormSaysAsServed, SaysAsServed
<1> HIDE DEF q
<1> QED
  BY <1>1, <1>4, <1>5, <1>6, CallIsSent

LEMMA ButtonIsPressed ==
  ASSUME ConsoleInv, NEW r \in Items, PressButton(r) PROVE ConsoleInv'
<1> DEFINE says == [Row(r) EXCEPT !.flag = ~@]
           fit == UpToDate(view) /\ writing = {}
           q == [kind |-> "button", row |-> r, says |-> says, fields |-> {"flag"},
                 typed |-> {"flag"}, sound |-> fit, landed |-> FALSE]
<1>1. /\ UNCHANGED <<screen, served, cache, view, form>>
      /\ form.on = {} /\ cache[view].seen # {}
      /\ writing' = {[c EXCEPT !.sound = FALSE] : c \in writing} \union {q}
  BY DEF PressButton, SendWrite, Offered
<1>2. Row(r) \in Item
  BY <1>1 DEF Row, ConsoleInv, ConsoleTypes, Query, Lists
<1>3. says \in Item /\ says.flag # Row(r).flag /\ fit \in BOOLEAN
  BY <1>2 DEF Item, UpToDate
<1>4. fit => Row(r) = served[r]
  <2> SUFFICES ASSUME fit PROVE Row(r) = served[r]
    OBVIOUS
  <2>1. cache[view].seen = {served}
    BY DEF UpToDate, ConsoleInv, ConsoleTypes, ListsAreServed
  <2> QED
    BY <2>1 DEF Row
<1> HIDE DEF says, fit
<1>5. /\ q \in Call /\ q.kind = "button" /\ q.row = r /\ q.says = says
      /\ q.fields = {"flag"} /\ q.typed = {"flag"} /\ ~q.landed
      /\ q.sound <=> fit
  BY <1>3 DEF Call, Fields
<1>6. q.sound => /\ writing = {} /\ SaysAsServed(q.says, q.fields \ q.typed, q.row)
                 /\ q.says.flag # served[q.row].flag
  BY <1>3, <1>4, <1>5 DEF fit, SaysAsServed
<1> HIDE DEF q
<1> QED
  BY <1>1, <1>5, <1>6, CallIsSent

LEMMA LandedCalls ==
  ASSUME NEW c \in Call
  PROVE  /\ [c EXCEPT !.landed = TRUE] \in Call /\ [c EXCEPT !.landed = TRUE].landed
         /\ [c EXCEPT !.landed = TRUE].sound = c.sound
         /\ [c EXCEPT !.landed = TRUE].kind = c.kind
         /\ [c EXCEPT !.landed = TRUE].row = c.row
         /\ [c EXCEPT !.landed = TRUE].typed = c.typed
BY DEF Call

\* What a call writes: the fields it was sent with, of the row it was sent for.
LEMMA WhatIsWritten ==
  ASSUME ConsoleInv, NEW c \in writing, WriteLands(c)
  PROVE  /\ served' \in Lists
         /\ \A r \in Items \ {c.row} : served'[r] = served[r]
         /\ \A f \in Fields : served'[c.row][f] =
                                IF f \in c.fields THEN c.says[f] ELSE served[c.row][f]
<1>1. /\ c \in Call /\ served \in Lists
      /\ served' = [served EXCEPT ![c.row] =
                      [f \in Fields |-> IF f \in c.fields THEN c.says[f]
                                        ELSE served[c.row][f]]]
  BY DEF WriteLands, ConsoleInv, ConsoleTypes
<1>2. PICK row \in Item :
        row = [f \in Fields |-> IF f \in c.fields THEN c.says[f] ELSE served[c.row][f]]
  <2>1. c.says \in Item /\ served[c.row] \in Item
    BY <1>1 DEF Call, Lists
  <2>2. [f \in Fields |-> IF f \in c.fields THEN c.says[f] ELSE served[c.row][f]] \in Item
    BY <2>1 DEF Item, Fields
  <2> QED
    BY <2>2
<1>3. served' = [served EXCEPT ![c.row] = row] /\ c.row \in Items
  BY <1>1, <1>2 DEF Call
<1>4. served'[c.row] = row /\ \A f \in Fields : row[f] =
                                IF f \in c.fields THEN c.says[f] ELSE served[c.row][f]
  BY <1>1, <1>2, <1>3 DEF Lists
<1> QED
  BY <1>1, <1>3, <1>4 DEF Lists

LEMMA CallLands ==
  ASSUME ConsoleInv, NEW c \in writing, WriteLands(c) PROVE ConsoleInv'
<1>0. PICK q : q = [c EXCEPT !.landed = TRUE]
  OBVIOUS
<1>1. /\ ~c.landed /\ writing' = (writing \ {c}) \union {q}
      /\ UNCHANGED <<screen, cache, view, form>> /\ c \in Call
  BY <1>0 DEF WriteLands, ConsoleInv, ConsoleTypes
<1>2. /\ q \in Call /\ q.landed /\ q.sound = c.sound /\ q.kind = c.kind /\ q.row = c.row
      /\ q.typed = c.typed
  BY <1>0, <1>1, LandedCalls
<1>3. served' \in Lists
  BY WhatIsWritten
<1>4. \A d \in writing' : d.sound => d = q /\ writing' = {q}
  BY <1>1, <1>2 DEF ConsoleInv, SoundCallsAreAlone
<1>5. ListsAreServed'
  BY <1>1, <1>2 DEF ListsAreServed
<1>6. SoundCallsAreAlone' /\ CallsSayAsServed'
  BY <1>2, <1>4 DEF SoundCallsAreAlone, CallsSayAsServed
<1>7. FormSaysAsServed'
  <2>1. ASSUME NEW r \in Items, form.sound, form.on = {r}
        PROVE  /\ SaysAsServed(form.draft, Fields \ form.typed, r)'
               /\ \A d \in writing' : /\ d.kind = "form" /\ d.row = r
                                      /\ d.sound /\ d.typed \subseteq form.typed
    <3>1. /\ SaysAsServed(form.draft, Fields \ form.typed, r)
          /\ \A d \in writing : /\ d.kind = "form" /\ d.row = r
                                /\ d.sound /\ d.typed \subseteq form.typed
      BY <2>1 DEF ConsoleInv, FormSaysAsServed
    <3>2. SaysAsServed(c.says, c.fields \ c.typed, c.row) /\ c.row = r
      BY <1>1, <3>1 DEF ConsoleInv, CallsSayAsServed
    <3>3. \A f \in Fields \ form.typed : served'[r][f] = served[r][f]
      BY <3>1, <3>2, WhatIsWritten DEF SaysAsServed
    <3>4. SaysAsServed(form.draft, Fields \ form.typed, r)'
      BY <1>1, <3>1, <3>3 DEF SaysAsServed
    <3> QED
      BY <1>1, <1>2, <3>1, <3>4
  <2> QED
    BY <1>1, <2>1 DEF ConsoleInv, FormSaysAsServed
<1> QED
  BY <1>1, <1>2, <1>3, <1>5, <1>6, <1>7 DEF ConsoleInv, ConsoleTypes

LEMMA CallIsRefused ==
  ASSUME ConsoleInv, NEW c \in writing, WriteRefused(c) PROVE ConsoleInv'
<1>1. /\ ~c.landed /\ writing' = writing \ {c}
      /\ UNCHANGED <<screen, served, cache, view, form>>
  BY DEF WriteRefused
<1>2. SoundCallsAreAlone' /\ CallsSayAsServed'
  BY <1>1 DEF ConsoleInv, SoundCallsAreAlone, CallsSayAsServed, SaysAsServed
<1>3. ListsAreServed'
  BY <1>1 DEF ConsoleInv, ListsAreServed
<1>4. FormSaysAsServed'
  BY <1>1 DEF ConsoleInv, FormSaysAsServed, SaysAsServed
<1> QED
  BY <1>1, <1>2, <1>3, <1>4 DEF ConsoleInv, ConsoleTypes

\* An answer leaves no list that is still taken for what is served.
LEMMA ListsAreMarked ==
  ASSUME ConsoleInv, cache' = Invalidated \/ cache' = AllBehind
  PROVE  cache' \in [Filters -> Query] /\ ListsAreServed'
<1>1. ASSUME NEW v \in Filters
      PROVE  /\ cache'[v] \in Query
             /\ ~cache'[v].valid \/ cache'[v].asked \/ cache'[v].behind
  <2>1. PICK old \in Query : old = cache[v]
    BY DEF ConsoleInv, ConsoleTypes
  <2>2. /\ [old EXCEPT !.valid = FALSE] \in Query /\ ~[old EXCEPT !.valid = FALSE].valid
        /\ [old EXCEPT !.behind = TRUE] \in Query /\ [old EXCEPT !.behind = TRUE].behind
    BY DEF Query
  <2>3. AskFor([old EXCEPT !.valid = FALSE]) \in Query
        /\ AskFor([old EXCEPT !.valid = FALSE]).asked
    BY <2>2, AskingFor
  <2>4. cache'[v] \in {[old EXCEPT !.valid = FALSE], AskFor([old EXCEPT !.valid = FALSE]),
                       [old EXCEPT !.behind = TRUE]}
    BY <2>1 DEF Invalidated, AllBehind
  <2> QED
    BY <2>2, <2>3, <2>4
<1>2. cache' \in [Filters -> Query]
  BY <1>1 DEF Invalidated, AllBehind
<1> QED
  BY <1>1, <1>2 DEF ListsAreServed

LEMMA CallEnds ==
  ASSUME ConsoleInv, NEW c \in writing, WriteAnswered(c) \/ AnswerLost(c) PROVE ConsoleInv'
<1>1. /\ writing' = writing \ {c} /\ UNCHANGED <<screen, served, view>>
      /\ cache' = Invalidated \/ cache' = AllBehind
      /\ form' = form \/ form' = Shut
  BY DEF WriteAnswered, AnswerLost, AfterSave
<1>2. cache' \in [Filters -> Query] /\ ListsAreServed'
  BY <1>1, ListsAreMarked
<1>3. SoundCallsAreAlone' /\ CallsSayAsServed'
  BY <1>1 DEF ConsoleInv, SoundCallsAreAlone, CallsSayAsServed, SaysAsServed
<1>4. FormSaysAsServed' /\ form' \in FormState
  BY <1>1, EmptyForms DEF ConsoleInv, ConsoleTypes, FormSaysAsServed, SaysAsServed
<1> QED
  BY <1>1, <1>2, <1>3, <1>4 DEF ConsoleInv, ConsoleTypes

LEMMA OthersWrite ==
  ASSUME ConsoleInv, NEW r \in Items, WrittenElsewhere(r) PROVE ConsoleInv'
<1>1. /\ served' \in Lists /\ cache' = AllBehind /\ UNCHANGED <<screen, view>>
      /\ form' = [form EXCEPT !.sound = FALSE]
      /\ writing' = {[c EXCEPT !.sound = FALSE] : c \in writing}
  BY DEF WrittenElsewhere, ConsoleInv, ConsoleTypes, Lists
<1>2. cache' \in [Filters -> Query] /\ ListsAreServed'
  BY <1>1, ListsAreMarked
<1>3. writing' \subseteq Call /\ \A c \in writing' : ~c.sound
  BY <1>1, Unsound DEF ConsoleInv, ConsoleTypes
<1>4. /\ form' \in FormState /\ ~form'.sound /\ form'.on = form.on
      /\ form'.filledFor = form.filledFor /\ form'.left = form.left
  BY <1>1 DEF ConsoleInv, ConsoleTypes, FormState
<1> QED
  BY <1>1, <1>2, <1>3, <1>4 DEF ConsoleInv, ConsoleTypes, SoundCallsAreAlone,
     CallsSayAsServed, FormSaysAsServed

LEMMA ConsoleStep == ConsoleInv /\ [ConsoleNext]_consoleVars => ConsoleInv'
<1> SUFFICES ASSUME ConsoleInv, [ConsoleNext]_consoleVars PROVE ConsoleInv'
  OBVIOUS
<1>1. ASSUME NEW r \in Items,
             OpenForm(r) \/ SubmitForm(r) \/ PressButton(r) \/ WrittenElsewhere(r)
      PROVE  ConsoleInv'
  BY <1>1, FormOpens, FormIsSubmitted, ButtonIsPressed, OthersWrite
<1>2. ASSUME NEW c \in writing,
             WriteLands(c) \/ WriteRefused(c) \/ WriteAnswered(c) \/ AnswerLost(c)
      PROVE  ConsoleInv'
  BY <1>2, CallLands, CallIsRefused, CallEnds
<1>3. ASSUME ConsoleNext PROVE ConsoleInv'
  BY <1>1, <1>2, <1>3, LooksAndReads, FieldsAreTyped, FormCloses DEF ConsoleNext
<1>4. ASSUME UNCHANGED consoleVars PROVE ConsoleInv'
  BY <1>4 DEF consoleVars, ConsoleInv, ConsoleTypes, ListsAreServed, SoundCallsAreAlone,
     CallsSayAsServed, FormSaysAsServed, SaysAsServed
<1> QED
  BY <1>3, <1>4

\* A call that is sound lands by its own step only.
LEMMA SoundCallsLand ==
  ASSUME ConsoleInv, ConsoleNext, NEW c \in writing, c.sound, ~c.landed,
         NEW q, q.landed, q \in writing'
  PROVE  WriteLands(c)
<1>1. writing = {c} /\ c \in Call
  BY DEF ConsoleInv, SoundCallsAreAlone, ConsoleTypes
<1>2. ASSUME UNCHANGED writing PROVE FALSE
  BY <1>1, <1>2
<1>3. ASSUME NEW d \in writing, WriteRefused(d) \/ WriteAnswered(d) \/ AnswerLost(d) PROVE FALSE
  BY <1>1, <1>3 DEF WriteRefused, WriteAnswered, AnswerLost
<1>4. q # [c EXCEPT !.sound = FALSE]
  BY <1>1, Unsound
<1>5. ASSUME NEW kind, NEW r, NEW row, NEW fields, NEW sound,
             SendWrite(kind, r, row, fields, sound)
      PROVE  FALSE
  <2> DEFINE n == [kind |-> kind, row |-> r, says |-> row, fields |-> fields,
                   typed |-> IF kind = "form" THEN form.typed ELSE fields,
                   sound |-> sound /\ writing = {}, landed |-> FALSE]
  <2>1. n.landed = FALSE
    OBVIOUS
  <2>2. writing' = {[d EXCEPT !.sound = FALSE] : d \in writing} \union {n}
    BY <1>5 DEF SendWrite
  <2> HIDE DEF n
  <2> QED
    BY <1>1, <1>4, <2>1, <2>2
<1>6. ASSUME NEW r \in Items, SubmitForm(r) \/ PressButton(r) \/ WrittenElsewhere(r)
      PROVE  FALSE
  BY <1>1, <1>4, <1>5, <1>6 DEF SubmitForm, PressButton, WrittenElsewhere
<1> QED
  BY <1>1, <1>2, <1>3, <1>6 DEF ConsoleNext, Look, ServeList, ReceiveList, OpenForm, Type,
     CloseForm

\* What is sent from a form that was opened on a settled list takes back nothing
\* that its user did not touch, and a button turns its flag over, on every page,
\* for every number of rows, of lists and of writes.
THEOREM SavesTakeNothingBack == ConsoleSpec => UntouchedFieldsStand
<1>1. ASSUME ConsoleInv, NEW c \in writing, c.sound, ~c.landed, WriteLands(c)
      PROVE  /\ \A f \in Fields \ c.typed : served'[c.row][f] = served[c.row][f]
             /\ c.kind = "button" => served'[c.row].flag # served[c.row].flag
  <2>1. /\ SaysAsServed(c.says, c.fields \ c.typed, c.row)
        /\ c.kind = "button" => c.fields = {"flag"} /\ c.says.flag # served[c.row].flag
    BY <1>1 DEF ConsoleInv, CallsSayAsServed
  <2>2. \A f \in Fields : served'[c.row][f] =
                            IF f \in c.fields THEN c.says[f] ELSE served[c.row][f]
    BY <1>1, WhatIsWritten
  <2>3. \A f \in Fields \ c.typed : served'[c.row][f] = served[c.row][f]
    BY <2>1, <2>2 DEF SaysAsServed
  <2>4. c.kind = "button" => served'[c.row].flag # served[c.row].flag
    BY <2>1, <2>2 DEF Fields
  <2> QED
    BY <2>3, <2>4
<1>2. ASSUME ConsoleInv, ConsoleNext, NEW c \in writing, c.sound, ~c.landed,
             [c EXCEPT !.landed = TRUE] \in writing'
      PROVE  /\ \A f \in Fields \ c.typed : served'[c.row][f] = served[c.row][f]
             /\ c.kind = "button" => served'[c.row].flag # served[c.row].flag
  <2>1. [c EXCEPT !.landed = TRUE].landed
    BY <1>2, LandedCalls DEF ConsoleInv, ConsoleTypes
  <2>2. WriteLands(c)
    BY <1>2, <2>1, SoundCallsLand
  <2> QED
    BY <1>1, <1>2, <2>2
<1>3. ConsoleInv /\ [ConsoleNext]_consoleVars =>
        [\A c \in writing :
           (c.sound /\ ~c.landed /\ [c EXCEPT !.landed = TRUE] \in writing') =>
              /\ \A f \in Fields \ c.typed : served'[c.row][f] = served[c.row][f]
              /\ c.kind = "button" => served'[c.row].flag # served[c.row].flag]_consoleVars
  BY <1>2
<1> QED
  BY <1>3, ConsoleStarts, ConsoleStep, PTL DEF ConsoleSpec, UntouchedFieldsStand

-----------------------------------------------------------------------------
(* One tab's session.  Until somebody crosses a call in flight, whoever    *)
(* comes in, by a restoration or a sign-in, is alone: nobody is shown and  *)
(* no other call is in flight.  The token, the provider's session and what *)
(* the calls carry then belong to one owner, who is shown at the end.      *)

WebCall == [kind : Kinds \union {"none"}, carries : 0..MaxTokens]
WebTypes ==
  /\ \E n \in 0..MaxTokens : DOMAIN ownerOf = 1..n
  /\ \A t \in DOMAIN ownerOf : ownerOf[t] \in Visitors
  /\ {token, signedIn} \subseteq {0} \union DOMAIN ownerOf
  /\ shown \in Visitors \union {"nobody"}
  /\ call \in [Calls -> WebCall]
  /\ {loading, crossed} \subseteq BOOLEAN
  /\ signedIn # 0 => provider

BelongsTo(o) ==
  /\ token # 0 /\ ownerOf[token] = o
  /\ signedIn # 0 => ownerOf[signedIn] = o

ShownOwnsTheToken == shown # "nobody" => ~loading /\ BelongsTo(shown)
ComingInIsAlone ==
  \A c \in Calls : call[c].kind \in {"restore", "login", "profile"} =>
    /\ shown = "nobody" /\ \A d \in Calls \ {c} : call[d].kind = "none"
    /\ loading <=> call[c].kind = "restore"
    /\ call[c].kind # "login" =>
         call[c].carries \in DOMAIN ownerOf /\ BelongsTo(ownerOf[call[c].carries])
LoadingIsQuiet == loading => \A c \in Calls : call[c].kind \in {"none", "restore"}
SavesAreTheirs ==
  \A c \in Calls : call[c].kind = "save" =>
    shown # "nobody" /\ call[c].carries \in DOMAIN ownerOf /\ ownerOf[call[c].carries] = shown
TokenIsAwaited ==
  ~provider /\ shown = "nobody" /\ ~loading /\ (\A c \in Calls : call[c].kind # "profile")
    => token = 0

OneOwner ==
  ShownOwnsTheToken /\ ComingInIsAlone /\ LoadingIsQuiet /\ SavesAreTheirs /\ TokenIsAwaited
WebInv == WebTypes /\ (crossed \/ OneOwner)

LEMMA WebStarts == WebInit => WebInv
<1> SUFFICES ASSUME WebInit PROVE WebInv
  OBVIOUS
<1>1. DOMAIN ownerOf = 1..1 /\ \A t \in DOMAIN ownerOf : ownerOf[t] \in Visitors
  BY DEF WebInit
<1>2. {token, signedIn} \subseteq {0} \union DOMAIN ownerOf
  BY <1>1 DEF WebInit
<1>3. call \in [Calls -> WebCall] /\ \A c \in Calls : call[c].kind = "none"
  BY WebAssumption DEF WebInit, WebCall, NoCall
<1>4. 1 \in 0..MaxTokens
  BY WebAssumption
<1>5. WebTypes
  BY <1>1, <1>2, <1>3, <1>4 DEF WebInit, WebTypes
<1> QED
  BY <1>3, <1>5 DEF WebInit, WebInv, OneOwner, ShownOwnsTheToken, ComingInIsAlone, LoadingIsQuiet,
     SavesAreTheirs, TokenIsAwaited

LEMMA NextIsNext ==
  ASSUME WebTypes, NEW o \in Visitors, Issue(o)
  PROVE  /\ NextToken \in Tokens /\ DOMAIN ownerOf = 1..(NextToken - 1)
         /\ DOMAIN ownerOf' = 1..NextToken /\ ownerOf'[NextToken] = o
         /\ \A t \in DOMAIN ownerOf : t \in DOMAIN ownerOf' /\ ownerOf'[t] = ownerOf[t]
         /\ \A t \in DOMAIN ownerOf' : ownerOf'[t] \in Visitors
<1>1. PICK n \in 0..MaxTokens : DOMAIN ownerOf = 1..n
  BY DEF WebTypes
<1>2. n + 1 \in 1..MaxTokens + 1 /\ DOMAIN ownerOf = 1..(n + 1) - 1
  BY <1>1, WebAssumption
<1>3. NextToken \in 1..MaxTokens + 1 /\ DOMAIN ownerOf = 1..NextToken - 1
  BY <1>2 DEF NextToken
<1>4. NextToken \in Tokens
  BY DEF Issue
<1> HIDE DEF NextToken
<1>5. ownerOf' = [t \in 1..NextToken |-> IF t = NextToken THEN o ELSE ownerOf[t]]
  BY DEF Issue
<1>6. NextToken \in Nat /\ NextToken \in 1..NextToken
  BY <1>3, WebAssumption
<1>7. \A t \in 1..NextToken : t # NextToken => t \in DOMAIN ownerOf
  BY <1>3, <1>6
<1>8. \A t \in DOMAIN ownerOf : t \in 1..NextToken /\ t # NextToken
  BY <1>3, <1>6
<1> QED
  BY <1>3, <1>4, <1>5, <1>6, <1>7, <1>8 DEF WebTypes

\* One call is sent or ends, and the others stay as they are.
LEMMA CallsMove ==
  ASSUME WebTypes, NEW c \in Calls
  PROVE  /\ Done(c) =>
              /\ call' \in [Calls -> WebCall] /\ call'[c].kind = "none"
              /\ \A d \in Calls \ {c} : call'[d] = call[d]
         /\ \A kind \in Kinds, t \in 0..MaxTokens :
              Send(c, kind, t) =>
                /\ call' \in [Calls -> WebCall] /\ call'[c].kind = kind /\ call'[c].carries = t
                /\ \A d \in Calls \ {c} : call'[d] = call[d]
         /\ {token, signedIn} \subseteq 0..MaxTokens
         /\ Free(c) => call[c].kind = "none"
         /\ \A d \in Calls : call[d].kind \in Kinds \union {"none"}
<1>1. NoCall \in WebCall /\ NoCall.kind = "none"
  BY WebAssumption DEF NoCall, WebCall
<1>2. \A kind \in Kinds, t \in 0..MaxTokens : [kind |-> kind, carries |-> t] \in WebCall
  BY DEF WebCall
<1>3. {token, signedIn} \subseteq 0..MaxTokens
  BY WebAssumption DEF WebTypes
<1>4. \A d \in Calls : call[d].kind \in Kinds \union {"none"}
  BY DEF WebTypes, WebCall
<1> QED
  BY <1>1, <1>2, <1>3, <1>4 DEF WebTypes, Done, Send, Free

\* Nobody is shown and no token is stored once a call that let somebody in, or a
\* call of a page, has ended badly.
LEMMA NobodyIsLeft ==
  ASSUME WebInv, NEW c \in Calls, Done(c), UNCHANGED <<provider, signedIn, ownerOf>>,
         token' = 0, shown' \in {"nobody", shown}, loading' \in BOOLEAN, crossed' \in BOOLEAN,
         ~crossed' => ~crossed,
         ~crossed' => shown' = "nobody",
         ~crossed' => \A d \in Calls \ {c} : call[d].kind \notin {"restore", "login", "profile", "save"},
         ~crossed' => ~loading' \/ loading' = loading
  PROVE  WebInv'
<1>1. /\ call' \in [Calls -> WebCall] /\ call'[c].kind = "none"
      /\ \A d \in Calls \ {c} : call'[d] = call[d]
  BY CallsMove DEF WebInv
<1>2. WebTypes'
  BY <1>1 DEF WebInv, WebTypes
<1>3. ASSUME ~crossed' PROVE OneOwner'
  <2>1. \A d \in Calls : call'[d].kind \notin {"restore", "login", "profile", "save"}
    BY <1>1, <1>3
  <2>2. ~crossed /\ OneOwner /\ shown' = "nobody"
    BY <1>3 DEF WebInv
  <2>3. LoadingIsQuiet'
    BY <1>1, <1>3, <2>1, <2>2 DEF OneOwner, LoadingIsQuiet
  <2>4. ShownOwnsTheToken' /\ ComingInIsAlone' /\ SavesAreTheirs' /\ TokenIsAwaited'
    BY <2>1, <2>2 DEF OneOwner, ShownOwnsTheToken, ComingInIsAlone, SavesAreTheirs, TokenIsAwaited
  <2> QED
    BY <2>3, <2>4 DEF OneOwner
<1> QED
  BY <1>2, <1>3 DEF WebInv

\* Somebody who has come in alone is shown, or the token is forgotten.
LEMMA ComingInEnds ==
  ASSUME WebInv, NEW c \in Calls, call[c].kind \in {"restore", "profile"}, Done(c),
         ShowOwner(c) \/ ForgetToken(c), UNCHANGED <<provider, signedIn, ownerOf>>,
         loading' \in BOOLEAN, call[c].kind = "restore" => ~loading',
         call[c].kind = "profile" => loading' = loading
  PROVE  WebInv'
<1>1. /\ call' \in [Calls -> WebCall] /\ call'[c].kind = "none"
      /\ \A d \in Calls \ {c} : call'[d] = call[d]
  BY CallsMove DEF WebInv
<1>2. crossed' = crossed
  BY DEF ShowOwner, ForgetToken
<1>3. ASSUME ~crossed
      PROVE  /\ shown = "nobody" /\ ~loading'
             /\ \A d \in Calls \ {c} : call[d].kind = "none"
             /\ call[c].carries \in DOMAIN ownerOf /\ BelongsTo(ownerOf[call[c].carries])
  BY <1>3 DEF WebInv, OneOwner, ComingInIsAlone
<1>4. CASE ShowOwner(c)
  <2>1. /\ call[c].carries \in DOMAIN ownerOf /\ shown' = ownerOf[call[c].carries]
        /\ token' = token
    BY <1>4 DEF ShowOwner, Accepted
  <2>2. shown' # "nobody"
    BY <2>1, WebAssumption DEF WebInv, WebTypes
  <2>3. WebTypes'
    BY <1>1, <1>2, <2>1 DEF WebInv, WebTypes
  <2>4. ASSUME ~crossed PROVE OneOwner'
    <3>1. \A d \in Calls : call'[d].kind = "none"
      BY <1>1, <1>3, <2>4
    <3>2. BelongsTo(shown)'
      BY <1>3, <2>1, <2>4 DEF BelongsTo
    <3> QED
      BY <1>3, <2>2, <2>4, <3>1, <3>2 DEF OneOwner, ShownOwnsTheToken, ComingInIsAlone,
         LoadingIsQuiet, SavesAreTheirs, TokenIsAwaited
  <2> QED
    BY <1>2, <2>3, <2>4 DEF WebInv
<1>5. CASE ForgetToken(c)
  <2>1. token' = 0 /\ shown' \in {"nobody", shown}
    BY <1>5 DEF ForgetToken
  <2>2. crossed' \in BOOLEAN
    BY <1>2 DEF WebInv, WebTypes
  <2>3. ASSUME ~crossed'
        PROVE  /\ ~crossed /\ shown' = "nobody" /\ ~loading'
               /\ \A d \in Calls \ {c} : call[d].kind \notin {"restore", "login", "profile", "save"}
    BY <1>2, <1>3, <2>1, <2>3
  <2> QED
    BY <2>1, <2>2, <2>3, NobodyIsLeft
<1> QED
  BY <1>4, <1>5

LEMMA SessionIsRestored ==
  ASSUME WebInv, NEW c \in Calls, RestoreSession(c) \/ RestoreEnds(c), provider' = provider
  PROVE  WebInv'
<1>1. CASE RestoreSession(c)
  <2>1. /\ token' = IF signedIn # 0 THEN signedIn ELSE token
        /\ UNCHANGED <<signedIn, shown, ownerOf, crossed>>
        /\ IF token' = 0 THEN loading' = FALSE /\ call' = call
           ELSE loading' = loading /\ Send(c, "restore", token')
        /\ loading /\ InFlight({"restore"}) = {}
    BY <1>1 DEF RestoreSession
  <2>2. token' \in {token, signedIn} /\ token' \in 0..MaxTokens /\ "restore" \in Kinds
    BY <2>1, CallsMove DEF WebInv, Kinds
  <2>3. call' \in [Calls -> WebCall]
    BY <2>1, <2>2, CallsMove DEF WebInv, WebTypes
  <2>4. WebTypes'
    BY <2>1, <2>2, <2>3 DEF WebInv, WebTypes
  <2>5. ASSUME ~crossed PROVE OneOwner'
    <3>1. shown = "nobody" /\ \A d \in Calls : call[d].kind = "none"
      BY <2>1, <2>5 DEF WebInv, OneOwner, ShownOwnsTheToken, LoadingIsQuiet, InFlight
    <3>2. CASE token' = 0
      BY <2>1, <3>1, <3>2 DEF OneOwner, ShownOwnsTheToken, ComingInIsAlone, LoadingIsQuiet,
         SavesAreTheirs, TokenIsAwaited
    <3>3. CASE token' # 0
      <4>1. /\ call'[c].kind = "restore" /\ call'[c].carries = token'
            /\ \A d \in Calls \ {c} : call'[d].kind = "none"
        BY <2>1, <2>2, <3>1, <3>3, CallsMove DEF WebInv
      <4>2. token' \in DOMAIN ownerOf' /\ BelongsTo(ownerOf[token])'
        BY <2>1, <2>4, <3>3 DEF WebTypes, BelongsTo
      <4> QED
        BY <2>1, <3>1, <3>3, <4>1, <4>2 DEF OneOwner, ShownOwnsTheToken, ComingInIsAlone,
           LoadingIsQuiet, SavesAreTheirs, TokenIsAwaited
    <3> QED
      BY <3>2, <3>3
  <2> QED
    BY <2>1, <2>4, <2>5 DEF WebInv
<1>2. CASE RestoreEnds(c)
  BY <1>2, ComingInEnds DEF RestoreEnds
<1> QED
  BY <1>1, <1>2

LEMMA SigningIn ==
  ASSUME WebInv, NEW c \in Calls, provider' = provider,
         SubmitLogin(c) \/ LoginAccepted(c) \/ LoginRefused(c) \/ ProfileEnds(c)
  PROVE  WebInv'
<1>1. CASE SubmitLogin(c)
  <2>1. /\ UNCHANGED <<token, signedIn, shown, loading, ownerOf>>
        /\ Send(c, "login", token) /\ "login" \in Kinds /\ (shown = "nobody" \/ loading)
        /\ crossed' = (crossed \/ loading \/ InFlight(Kinds) # {})
    BY <1>1 DEF SubmitLogin, Kinds
  <2>2. /\ call' \in [Calls -> WebCall] /\ call'[c].kind = "login"
        /\ \A d \in Calls \ {c} : call'[d] = call[d]
    BY <2>1, CallsMove DEF WebInv
  <2>3. WebTypes'
    BY <2>1, <2>2 DEF WebInv, WebTypes
  <2>4. ASSUME ~crossed' PROVE OneOwner'
    <3>1. /\ ~crossed /\ ~loading /\ shown = "nobody"
          /\ \A d \in Calls : call[d].kind = "none"
      BY <2>1, <2>4, CallsMove DEF WebInv, InFlight
    <3>2. \A d \in Calls \ {c} : call'[d].kind = "none"
      BY <2>2, <3>1
    <3>3. ~provider => token = 0
      BY <3>1 DEF WebInv, OneOwner, TokenIsAwaited
    <3> QED
      BY <2>1, <2>2, <3>1, <3>2, <3>3 DEF OneOwner, ShownOwnsTheToken, ComingInIsAlone,
         LoadingIsQuiet, SavesAreTheirs, TokenIsAwaited
  <2> QED
    BY <2>3, <2>4 DEF WebInv
<1>2. CASE LoginAccepted(c)
  <2>1. PICK o \in Visitors : Issue(o)
    BY <1>2 DEF LoginAccepted
  <2>2. /\ token' = NextToken /\ Send(c, "profile", NextToken) /\ "profile" \in Kinds
        /\ signedIn' = IF provider THEN NextToken ELSE 0
        /\ UNCHANGED <<shown, loading, crossed>> /\ call[c].kind = "login"
    BY <1>2 DEF LoginAccepted, Kinds
  <2>3. /\ NextToken \in 1..MaxTokens /\ DOMAIN ownerOf' = 1..NextToken
        /\ ownerOf'[NextToken] = o
        /\ \A t \in DOMAIN ownerOf' : ownerOf'[t] \in Visitors
    BY <2>1, NextIsNext DEF Tokens, WebInv
  <2> HIDE DEF NextToken
  <2>4. /\ call' \in [Calls -> WebCall] /\ call'[c].kind = "profile" /\ call'[c].carries = NextToken
        /\ \A d \in Calls \ {c} : call'[d] = call[d]
    BY <2>2, <2>3, CallsMove DEF WebInv
  <2>5. NextToken \in DOMAIN ownerOf' /\ NextToken # 0
    BY <2>3
  <2>6. WebTypes'
    BY <2>2, <2>3, <2>4, <2>5 DEF WebInv, WebTypes
  <2>7. ASSUME ~crossed PROVE OneOwner'
    <3>1. shown = "nobody" /\ ~loading /\ \A d \in Calls \ {c} : call[d].kind = "none"
      BY <2>2, <2>7 DEF WebInv, OneOwner, ComingInIsAlone
    <3>2. /\ call'[c].carries \in DOMAIN ownerOf' /\ BelongsTo(ownerOf[call[c].carries])'
      BY <2>2, <2>3, <2>4, <2>5 DEF BelongsTo
    <3>3. \A d \in Calls : call'[d].kind \in {"none", "profile"} /\ (call'[d].kind = "profile" => d = c)
      BY <2>4, <3>1
    <3> QED
      BY <2>2, <2>4, <3>1, <3>2, <3>3 DEF OneOwner, ShownOwnsTheToken, ComingInIsAlone,
         LoadingIsQuiet, SavesAreTheirs, TokenIsAwaited
  <2> QED
    BY <2>2, <2>6, <2>7 DEF WebInv
<1>3. CASE LoginRefused(c)
  <2>1. Done(c) /\ call[c].kind = "login" /\ UNCHANGED <<signedIn, loading, ownerOf, crossed>>
    BY <1>3 DEF LoginRefused
  <2>2. /\ call' \in [Calls -> WebCall] /\ call'[c].kind = "none"
        /\ \A d \in Calls \ {c} : call'[d] = call[d]
    BY <2>1, CallsMove DEF WebInv
  <2>3. ASSUME ~crossed
        PROVE  shown = "nobody" /\ ~loading /\ \A d \in Calls \ {c} : call[d].kind = "none"
    BY <2>1, <2>3 DEF WebInv, OneOwner, ComingInIsAlone
  <2>4. CASE Unauthorized
    <3>1. token' = 0 /\ shown' = "nobody" /\ loading' \in BOOLEAN /\ crossed' \in BOOLEAN
      BY <2>1, <2>4 DEF Unauthorized, WebInv, WebTypes
    <3> QED
      BY <2>1, <2>3, <3>1, NobodyIsLeft
  <2>5. CASE UNCHANGED <<token, shown>>
    <3>1. WebTypes'
      BY <2>1, <2>2, <2>5 DEF WebInv, WebTypes
    <3>2. ASSUME ~crossed PROVE OneOwner'
      <4>1. \A d \in Calls : call'[d].kind = "none"
        BY <2>2, <2>3, <3>2
      <4>2. ~provider => token = 0
        BY <2>1, <2>3, <3>2 DEF WebInv, OneOwner, TokenIsAwaited
      <4> QED
        BY <2>1, <2>3, <2>5, <3>2, <4>1, <4>2 DEF OneOwner, ShownOwnsTheToken, ComingInIsAlone,
           LoadingIsQuiet, SavesAreTheirs, TokenIsAwaited
    <3> QED
      BY <2>1, <3>1, <3>2 DEF WebInv
  <2> QED
    BY <1>3, <2>4, <2>5 DEF LoginRefused
<1>4. CASE ProfileEnds(c)
  <2>1. loading' \in BOOLEAN
    BY <1>4 DEF ProfileEnds, WebInv, WebTypes
  <2> QED
    BY <1>4, <2>1, ComingInEnds DEF ProfileEnds
<1> QED
  BY <1>1, <1>2, <1>3, <1>4

LEMMA PagesAsk ==
  ASSUME WebInv, NEW c \in Calls, Ask(c) \/ Unaccepted(c) \/ Answer(c), provider' = provider
  PROVE  WebInv'
<1>1. CASE Ask(c)
  <2>1. /\ UNCHANGED <<token, signedIn, shown, loading, ownerOf, crossed>>
        /\ shown # "nobody" /\ ~loading
    BY <1>1 DEF Ask
  <2>2. PICK kind \in {"page", "save"} : Send(c, kind, token)
    BY <1>1 DEF Ask
  <2>3. /\ call' \in [Calls -> WebCall] /\ call'[c].kind = kind /\ call'[c].carries = token
        /\ \A d \in Calls \ {c} : call'[d] = call[d]
    BY <2>2, CallsMove DEF WebInv, Kinds
  <2>4. WebTypes'
    BY <2>1, <2>3 DEF WebInv, WebTypes
  <2>5. ASSUME ~crossed PROVE OneOwner'
    <3>1. token # 0 /\ token \in DOMAIN ownerOf /\ ownerOf[token] = shown
      BY <2>1, <2>5 DEF WebInv, WebTypes, OneOwner, ShownOwnsTheToken, BelongsTo
    <3>2. \A d \in Calls : call[d].kind \notin {"restore", "login", "profile"}
      BY <2>1, <2>5 DEF WebInv, OneOwner, ComingInIsAlone
    <3>3. \A d \in Calls : call'[d].kind \notin {"restore", "login", "profile"}
      BY <2>3, <3>2
    <3>4. SavesAreTheirs'
      BY <2>1, <2>3, <2>5, <3>1 DEF WebInv, OneOwner, SavesAreTheirs
    <3>5. ShownOwnsTheToken' /\ TokenIsAwaited'
      BY <2>1, <2>5 DEF WebInv, OneOwner, ShownOwnsTheToken, BelongsTo, TokenIsAwaited
    <3> QED
      BY <2>1, <3>3, <3>4, <3>5 DEF OneOwner, ComingInIsAlone, LoadingIsQuiet
  <2> QED
    BY <2>1, <2>4, <2>5 DEF WebInv
<1>2. CASE Unaccepted(c)
  <2>1. /\ Done(c) /\ token' = 0 /\ shown' = "nobody" /\ call[c].kind \in {"page", "save"}
        /\ UNCHANGED <<signedIn, loading, ownerOf>>
        /\ crossed' = (crossed \/ InFlight({"save"}) \ {c} # {})
    BY <1>2 DEF Unaccepted, Unauthorized
  <2>2. loading' \in BOOLEAN /\ crossed' \in BOOLEAN
    BY <2>1 DEF WebInv, WebTypes
  <2>3. ASSUME ~crossed'
        PROVE  \A d \in Calls \ {c} : call[d].kind \notin {"restore", "login", "profile", "save"}
    <3>1. ~crossed /\ \A d \in Calls \ {c} : call[d].kind # "save"
      BY <2>1, <2>3 DEF InFlight
    <3>2. \A d \in Calls \ {c} : call[d].kind \in {"restore", "login", "profile"} =>
            call[c].kind = "none"
      BY <3>1 DEF WebInv, OneOwner, ComingInIsAlone
    <3> QED
      BY <2>1, <3>1, <3>2
  <2> QED
    BY <2>1, <2>2, <2>3, NobodyIsLeft
<1>3. CASE Answer(c)
  <2>1. /\ Done(c) /\ call[c].kind \in {"page", "save"} /\ UNCHANGED <<signedIn, loading, ownerOf>>
        /\ UNCHANGED <<token, crossed>>
    BY <1>3 DEF Answer, ShowOwner
  <2>2. /\ call' \in [Calls -> WebCall] /\ call'[c].kind = "none"
        /\ \A d \in Calls \ {c} : call'[d] = call[d]
    BY <2>1, CallsMove DEF WebInv
  <2>3. CASE call[c].kind = "save"
    <3>1. call[c].carries \in DOMAIN ownerOf /\ shown' = ownerOf[call[c].carries]
      BY <1>3, <2>3 DEF Answer, ShowOwner, Accepted
    <3>2. WebTypes'
      BY <2>1, <2>2, <3>1 DEF WebInv, WebTypes
    <3>3. ~crossed => shown' = shown
      BY <2>3, <3>1 DEF WebInv, OneOwner, SavesAreTheirs
    <3> QED
      BY <2>1, <2>2, <3>2, <3>3 DEF WebInv, OneOwner, ShownOwnsTheToken, BelongsTo, ComingInIsAlone,
         LoadingIsQuiet, SavesAreTheirs, TokenIsAwaited
  <2>4. CASE call[c].kind # "save"
    <3>1. UNCHANGED shown
      BY <1>3, <2>1, <2>4 DEF Answer
    <3>2. WebTypes'
      BY <2>1, <2>2, <3>1 DEF WebInv, WebTypes
    <3> QED
      BY <2>1, <2>2, <3>1, <3>2 DEF WebInv, OneOwner, ShownOwnsTheToken, BelongsTo, ComingInIsAlone,
         LoadingIsQuiet, SavesAreTheirs, TokenIsAwaited
  <2> QED
    BY <2>3, <2>4
<1> QED
  BY <1>1, <1>2, <1>3

LEMMA ProviderRefreshes ==
  ASSUME WebInv, Refreshed, provider' = provider PROVE WebInv'
<1>1. /\ signedIn # 0 /\ Issue(ownerOf[signedIn]) /\ signedIn' = NextToken /\ token' = NextToken
      /\ UNCHANGED <<shown, loading, call, crossed>>
  BY DEF Refreshed
<1>2. PICK o \in Visitors : o = ownerOf[signedIn] /\ Issue(o)
  BY <1>1 DEF WebInv, WebTypes
<1>3. /\ NextToken \in 1..MaxTokens /\ DOMAIN ownerOf' = 1..NextToken
      /\ ownerOf'[NextToken] = o /\ \A t \in DOMAIN ownerOf' : ownerOf'[t] \in Visitors
      /\ \A t \in DOMAIN ownerOf : t \in DOMAIN ownerOf' /\ ownerOf'[t] = ownerOf[t]
  BY <1>2, NextIsNext DEF Tokens, WebInv
<1> HIDE DEF NextToken
<1>4. NextToken \in DOMAIN ownerOf' /\ NextToken # 0
  BY <1>3
<1>5. WebTypes'
  BY <1>1, <1>3, <1>4 DEF WebInv, WebTypes
<1>6. BelongsTo(o)'
  BY <1>1, <1>3, <1>4 DEF BelongsTo
<1>7. ASSUME ~crossed PROVE OneOwner'
  <2>1. OneOwner /\ provider'
    BY <1>1, <1>7 DEF WebInv, WebTypes
  <2>2. shown # "nobody" => shown = o
    BY <1>1, <1>2, <2>1 DEF OneOwner, ShownOwnsTheToken, BelongsTo
  <2>3. \A c \in Calls : call[c].kind \in {"restore", "profile"} =>
          call[c].carries \in DOMAIN ownerOf /\ ownerOf[call[c].carries] = o
    BY <1>1, <1>2, <2>1 DEF OneOwner, ComingInIsAlone, BelongsTo
  <2>4. ShownOwnsTheToken'
    BY <1>1, <1>6, <2>1, <2>2 DEF OneOwner, ShownOwnsTheToken
  <2>5. ASSUME NEW c \in Calls, call[c].kind \in {"restore", "profile"}
        PROVE  /\ call'[c].carries \in DOMAIN ownerOf' /\ ownerOf'[call'[c].carries] = o
    BY <1>1, <1>3, <2>3, <2>5
  <2>6. ComingInIsAlone'
    BY <1>1, <1>6, <2>1, <2>5 DEF OneOwner, ComingInIsAlone, BelongsTo
  <2>7. SavesAreTheirs'
    BY <1>1, <1>3, <2>1 DEF OneOwner, SavesAreTheirs
  <2> QED
    BY <1>1, <2>1, <2>4, <2>6, <2>7 DEF OneOwner, LoadingIsQuiet, TokenIsAwaited
<1> QED
  BY <1>1, <1>5, <1>7 DEF WebInv

LEMMA TabsStep ==
  ASSUME WebInv, TabStep, provider' = provider PROVE WebInv'
<1>1. CASE Logout
  <2>1. /\ UNCHANGED <<signedIn, loading, call, ownerOf>> /\ token' = 0 /\ shown' = "nobody"
        /\ shown # "nobody" /\ crossed' = (crossed \/ InFlight({"save"}) # {})
    BY <1>1 DEF Logout
  <2>2. WebTypes'
    BY <2>1 DEF WebInv, WebTypes
  <2>3. ASSUME ~crossed' PROVE OneOwner'
    <3>1. ~crossed /\ OneOwner /\ \A c \in Calls : call[c].kind # "save"
      BY <2>1, <2>3 DEF WebInv, InFlight
    <3>2. \A c \in Calls : call[c].kind \notin {"restore", "login", "profile"}
      BY <2>1, <3>1 DEF OneOwner, ComingInIsAlone
    <3> QED
      BY <2>1, <3>1, <3>2 DEF OneOwner, ShownOwnsTheToken, ComingInIsAlone, LoadingIsQuiet,
         SavesAreTheirs, TokenIsAwaited
  <2> QED
    BY <2>2, <2>3 DEF WebInv
<1>2. CASE SignedOut
  <2>1. signedIn' = 0 /\ UNCHANGED <<token, shown, loading, call, ownerOf, crossed>>
    BY <1>2 DEF SignedOut
  <2>2. WebTypes'
    BY <2>1 DEF WebInv, WebTypes
  <2> QED
    BY <2>1, <2>2 DEF WebInv, OneOwner, ShownOwnsTheToken, BelongsTo, ComingInIsAlone,
       LoadingIsQuiet, SavesAreTheirs, TokenIsAwaited
<1>3. CASE OtherTab
  BY <1>3 DEF OtherTab, WebInv, WebTypes
<1>4. CASE Reload
  <2>1. /\ loading' = TRUE /\ shown' = "nobody" /\ crossed' = FALSE
        /\ UNCHANGED <<token, signedIn, ownerOf>> /\ call' = [c \in Calls |-> NoCall]
    BY <1>4 DEF Reload
  <2>2. call' \in [Calls -> WebCall] /\ \A c \in Calls : call'[c].kind = "none"
    BY <2>1, WebAssumption DEF NoCall, WebCall
  <2>3. WebTypes'
    BY <2>1, <2>2 DEF WebInv, WebTypes
  <2> QED
    BY <2>1, <2>2, <2>3 DEF WebInv, OneOwner, ShownOwnsTheToken, ComingInIsAlone, LoadingIsQuiet,
       SavesAreTheirs, TokenIsAwaited
<1> QED
  BY <1>1, <1>2, <1>3, <1>4, ProviderRefreshes DEF TabStep

LEMMA WebStep == WebInv /\ [WebNext]_webVars => WebInv'
<1> SUFFICES ASSUME WebInv, [WebNext]_webVars PROVE WebInv'
  OBVIOUS
<1>1. ASSUME NEW c \in Calls, CallStep(c), provider' = provider PROVE WebInv'
  BY <1>1, SessionIsRestored, SigningIn, PagesAsk DEF CallStep
<1>2. ASSUME NEW t, (Expire(t) /\ provider' = provider) \/ UNCHANGED webVars PROVE WebInv'
  <2>1. UNCHANGED <<provider, token, signedIn, shown, loading, call, ownerOf, crossed>>
    BY <1>2 DEF Expire, webVars
  <2> QED
    BY <2>1 DEF WebInv, WebTypes, OneOwner, ShownOwnsTheToken, BelongsTo, ComingInIsAlone,
       LoadingIsQuiet, SavesAreTheirs, TokenIsAwaited
<1> QED
  BY <1>1, <1>2, TabsStep DEF WebNext

\* Until somebody signs in over a call in flight, leaves while a save is in flight
\* or acts in another tab, whoever the page shows is whose token its calls carry,
\* and without a provider no token stays behind once nobody is shown: for every
\* number of visitors, of calls in flight and of tokens.
THEOREM TheTokenIsTheirs == WebSpec => []ShownIsTheirs
<1>1. WebInv => ShownIsTheirs
  <2>1. InFlight({"login", "profile"}) = {} => \A c \in Calls : call[c].kind # "profile"
    BY DEF InFlight
  <2> QED
    BY <2>1 DEF WebInv, OneOwner, ShownIsTheirs, ShownOwnsTheToken, BelongsTo, TokenIsAwaited
<1> QED
  BY <1>1, WebStarts, WebStep, PTL DEF WebSpec

-----------------------------------------------------------------------------
(* The seeds.  A run that nobody has disturbed finds behind it what it has *)
(* written; an identity it may delete is one it made itself; two runs that *)
(* are under way at once have met.                                         *)

SeedsTypes ==
  /\ registered \in [SeedIdentities -> Demos \union {"", "unused"}]
  /\ earlier \subseteq SeedIdentities
  /\ link \in [Demos -> SeedIdentities \union {NoSeedIdentity}]
  /\ rows \in [SeedRows -> {"absent", "demo", "edited"}]
  /\ met \in BOOLEAN /\ run \in [Runs -> SeedRun]

EarlierOnesStay == \A i \in earlier : registered[i] \notin {"", "unused"}

LinksAreMade ==
  \A p \in Demos : link[p] # NoSeedIdentity =>
    registered[link[p]] # "unused" /\ (registered[link[p]] = p \/ met)

UnderWay(g) == g.pc \notin {"idle", "done"}
OneUntilMet ==
  met \/ \A r, q \in Runs : UnderWay(run[r]) /\ UnderWay(run[q]) => r = q

Passed(g, k) == \E j \in DOMAIN SeedSections : j < g.section /\ SeedSections[j] = k
IsWhole(k) == rows[k] = "demo" \/ (k = "students" /\ rows[k] = "edited")
IsLinked(p) == link[p] \in IdentitiesOf(p)
FindsItsWork(g) ==
  g.alone /\ g.pc # "idle" =>
    /\ \A k \in SeedRows : Passed(g, k) => IsWhole(k)
    /\ \A a \in 1..Len(DemoAccounts) :
         Passed(g, "accounts") \/ a < g.account => IsLinked(DemoAccounts[a])

InAccounts == {"look", "create", "reread", "write", "cleanup"}
RunKnows(g) ==
  /\ g.pc \in {"write", "cleanup"} =>
       g.auth \in SeedIdentities /\ registered[g.auth] # "unused"
  /\ g.pc = "cleanup" => g.created
  /\ g.pc \in {"write", "cleanup"} /\ g.created =>
       g.auth \notin earlier /\ (met \/ \A p \in Demos : link[p] # g.auth)
  /\ g.pc = "write" /\ (g.alone \/ ~met) => registered[g.auth] = DemoAccounts[g.account]
  /\ g.pc \in InAccounts =>
       g.section \in DOMAIN SeedSections /\ SeedSections[g.section] = "accounts"
  /\ g.pc = "done" => g.section = Len(SeedSections) + 1
  /\ FindsItsWork(g)

RunsKnow == \A r \in Runs : RunKnows(run[r])

SeedsInv ==
  /\ SeedsTypes /\ EarlierOnesStay /\ LinksAreMade /\ OneUntilMet /\ RunsKnow

LEMMA TheSections ==
  /\ Len(SeedSections) \in Nat /\ DOMAIN SeedSections = 1..Len(SeedSections)
  /\ \E j \in DOMAIN SeedSections : SeedSections[j] = "accounts"
  /\ \A j \in DOMAIN SeedSections :
       SeedSections[j] # "accounts" => SeedSections[j] \in SeedRows
  /\ \A k \in SeedRows : \E j \in DOMAIN SeedSections : SeedSections[j] = k
  /\ "students" \in SeedRows
<1>1. /\ Len(SeedSections) = 15 /\ DOMAIN SeedSections = 1..15
      /\ SeedSections[3] = "accounts" /\ SeedSections[9] = "students"
  BY DEF SeedSections
<1> QED
  BY <1>1 DEF SeedRows

LEMMA TheAccounts ==
  /\ Len(DemoAccounts) \in Nat /\ Len(DemoAccounts) > 0
  /\ \A a \in 1..Len(DemoAccounts) : DemoAccounts[a] \in Demos
  /\ \A p \in Demos : \E a \in 1..Len(DemoAccounts) : DemoAccounts[a] = p
  /\ \A p \in Demos : p \notin {"", "unused"}
<1>1. DemoAccounts \in Seq(Demos) /\ Len(DemoAccounts) > 0
  BY SeedsAssumption
<1>2. DOMAIN DemoAccounts = 1..Len(DemoAccounts) /\ Len(DemoAccounts) \in Nat
  BY <1>1
<1>3. \A p \in Demos : \E a \in 1..Len(DemoAccounts) : DemoAccounts[a] = p
  BY <1>2 DEF Demos
<1>4. \A a \in 1..Len(DemoAccounts) : DemoAccounts[a] \in Demos
  BY <1>2 DEF Demos
<1>5. \A p \in Demos : p \notin {"", "unused"}
  BY SeedsAssumption
<1> QED
  BY <1>1, <1>2, <1>3, <1>4, <1>5

LEMMA NotRunningIs ==
  /\ NotRunning \in SeedRun /\ NotRunning.pc = "idle"
  /\ [NotRunning EXCEPT !.pc = "rows"] \in SeedRun
  /\ [NotRunning EXCEPT !.pc = "rows"].pc = "rows"
  /\ [NotRunning EXCEPT !.pc = "rows"].section = 1
  /\ [NotRunning EXCEPT !.pc = "rows"].account = 1
<1>1. Len(SeedSections) \in Nat /\ Len(DemoAccounts) \in Nat /\ Len(DemoAccounts) > 0
  BY TheSections, TheAccounts
<1>2. 1 \in 1..(Len(SeedSections) + 1) /\ 1 \in 1..Len(DemoAccounts)
  BY <1>1
<1> QED
  BY <1>2 DEF NotRunning, SeedRun

LEMMA SeedsStart == SeedsInit => SeedsInv
<1> SUFFICES ASSUME SeedsInit PROVE SeedsInv
  OBVIOUS
<1>1. earlier \subseteq SeedIdentities
  BY SeedsAssumption DEF SeedsInit
<1>2. DemoAccounts[1] \in Demos /\ DemoAccounts[1] \notin {"", "unused"}
  <2>1. Len(DemoAccounts) \in Nat /\ Len(DemoAccounts) > 0
    BY TheAccounts
  <2>2. 1 \in 1..Len(DemoAccounts)
    BY <2>1
  <2> QED
    BY <2>2, TheAccounts
<1>3. SeedsTypes
  BY <1>1, <1>2, NotRunningIs DEF SeedsInit, SeedsTypes
<1>4. \A r \in Runs : run[r] = NotRunning /\ RunKnows(NotRunning)
  BY NotRunningIs DEF SeedsInit, RunKnows, FindsItsWork, InAccounts
<1> QED
  BY <1>1, <1>2, <1>3, <1>4, NotRunningIs DEF SeedsInit, SeedsInv, EarlierOnesStay,
     LinksAreMade, OneUntilMet, UnderWay, RunsKnow

\* A run that begins.
LEMMA SeedBegins ==
  ASSUME SeedsInv, NEW r \in Runs, BeginSeed(r) PROVE SeedsInv'
<1>0. PICK g : g = [NotRunning EXCEPT !.pc = "rows"]
  OBVIOUS
<1>1. /\ UNCHANGED <<registered, earlier, link, rows>> /\ run' = [run EXCEPT ![r] = g]
      /\ met' = (met \/ \E q \in Runs : UnderWay(run[q])) /\ ~UnderWay(run[r])
  BY <1>0 DEF BeginSeed, Goes, database, Running, UnderWay
<1>2. g \in SeedRun /\ g.pc = "rows" /\ g.section = 1 /\ g.account = 1
  BY <1>0, NotRunningIs
<1>3. /\ SeedsTypes' /\ run'[r] = g /\ \A q \in Runs \ {r} : run'[q] = run[q]
  BY <1>1, <1>2 DEF SeedsInv, SeedsTypes
<1>4. \A k : ~Passed(g, k)
  BY <1>2, TheSections DEF Passed
<1>5. RunKnows(g)'
  <2>1. FindsItsWork(g)'
    <3>1. \A a \in 1..Len(DemoAccounts) : ~(a < g.account)
      BY <1>2
    <3>2. \A k : ~Passed(g, k)'
      BY <1>4 DEF Passed
    <3> QED
      BY <3>1, <3>2 DEF FindsItsWork
  <2> QED
    BY <1>2, <2>1 DEF RunKnows, InAccounts
<1>6. RunsKnow'
  <2> SUFFICES ASSUME NEW q \in Runs, NEW h, h = run'[q] PROVE RunKnows(h)'
    BY DEF RunsKnow
  <2>1. CASE q = r
    BY <1>3, <1>5, <2>1
  <2>2. CASE q # r
    <3>1. RunKnows(h)
      BY <1>3, <2>2 DEF SeedsInv, RunsKnow
    <3> QED
      BY <1>1, <3>1 DEF RunKnows, FindsItsWork, Passed, IsWhole, IsLinked, IdentitiesOf
  <2> QED
    BY <2>1, <2>2
<1>7. OneUntilMet'
  BY <1>1, <1>3 DEF OneUntilMet
<1>8. EarlierOnesStay' /\ LinksAreMade'
  BY <1>1 DEF SeedsInv, EarlierOnesStay, LinksAreMade
<1> QED
  BY <1>3, <1>6, <1>7, <1>8 DEF SeedsInv

\* A step that writes nothing.
LEMMA RunMovesOn ==
  ASSUME SeedsInv, NEW r \in Runs, NEW g \in SeedRun, Goes(r, g), RunKnows(g),
         UnderWay(g) => UnderWay(run[r]),
         UNCHANGED <<registered, earlier, link, rows, met>>
  PROVE  SeedsInv'
<1>1. /\ SeedsTypes' /\ run'[r] = g /\ \A q \in Runs \ {r} : run'[q] = run[q]
  BY DEF SeedsInv, SeedsTypes, Goes
<1>2. ASSUME NEW h, RunKnows(h) PROVE RunKnows(h)'
  BY <1>2 DEF RunKnows, FindsItsWork, Passed, IsWhole, IsLinked, IdentitiesOf
<1>3. RunsKnow'
  <2> SUFFICES ASSUME NEW q \in Runs, NEW h, h = run'[q] PROVE RunKnows(h)'
    BY DEF RunsKnow
  <2>1. RunKnows(h)
    BY <1>1 DEF SeedsInv, RunsKnow
  <2> QED
    BY <1>2, <2>1
<1>4. OneUntilMet'
  BY <1>1 DEF SeedsInv, OneUntilMet
<1> QED
  BY <1>1, <1>3, <1>4 DEF SeedsInv, EarlierOnesStay, LinksAreMade

LEMMA DisturbedRuns ==
  ASSUME NEW h \in SeedRun
  PROVE  /\ [h EXCEPT !.alone = FALSE] \in SeedRun /\ ~[h EXCEPT !.alone = FALSE].alone
         /\ [h EXCEPT !.alone = FALSE].pc = h.pc
         /\ [h EXCEPT !.alone = FALSE].section = h.section
         /\ [h EXCEPT !.alone = FALSE].account = h.account
         /\ [h EXCEPT !.alone = FALSE].auth = h.auth
         /\ [h EXCEPT !.alone = FALSE].created = h.created
BY DEF SeedRun

\* A run whose work is disturbed by another knows that they have met.
LEMMA DisturbedKnows ==
  ASSUME NEW h \in SeedRun, NEW o, o = [h EXCEPT !.alone = FALSE], RunKnows(h),
         UNCHANGED <<earlier, met>>,
         \A i \in SeedIdentities : registered[i] # "unused" => registered'[i] # "unused",
         \/ UNCHANGED <<registered, link>>
         \/ UnderWay(h) => met
  PROVE  RunKnows(o)'
<1>1. /\ ~o.alone /\ o.pc = h.pc /\ o.section = h.section
      /\ o.account = h.account /\ o.auth = h.auth /\ o.created = h.created
  BY DisturbedRuns
<1>2. FindsItsWork(o)'
  BY <1>1 DEF FindsItsWork
<1> QED
  BY <1>1, <1>2 DEF RunKnows, InAccounts, UnderWay

\* A step that writes: what is so of the run that takes it and of the rows is
\* shown by each, and what the others rely on is kept.
LEMMA RunWrites ==
  ASSUME SeedsInv, NEW r \in Runs, UnderWay(run[r]), NEW g \in SeedRun, Writes(r, g),
         RunKnows(g)', UNCHANGED <<earlier, met>>,
         registered' \in [SeedIdentities -> Demos \union {"", "unused"}],
         link' \in [Demos -> SeedIdentities \union {NoSeedIdentity}],
         rows' \in [SeedRows -> {"absent", "demo", "edited"}],
         EarlierOnesStay', LinksAreMade',
         \A i \in SeedIdentities : registered[i] # "unused" => registered'[i] # "unused"
  PROVE  SeedsInv'
<1>1. /\ run'[r] = g
      /\ \A q \in Runs \ {r} : run[q] \in SeedRun /\ run'[q] = [run[q] EXCEPT !.alone = FALSE]
  BY DEF Writes, SeedsInv, SeedsTypes
<1>2. run' \in [Runs -> SeedRun]
  BY <1>1, DisturbedRuns DEF Writes
<1>3. SeedsTypes'
  BY <1>2 DEF SeedsInv, SeedsTypes
<1>4. RunsKnow'
  <2> SUFFICES ASSUME NEW q \in Runs, NEW o, o = run'[q] PROVE RunKnows(o)'
    BY DEF RunsKnow
  <2>1. CASE q = r
    BY <1>1, <2>1
  <2>2. CASE q # r
    <3>1. RunKnows(run[q]) /\ (UnderWay(run[q]) => met)
      BY <2>2 DEF SeedsInv, RunsKnow, OneUntilMet
    <3> QED
      BY <1>1, <2>2, <3>1, DisturbedKnows
  <2> QED
    BY <2>1, <2>2
<1>5. \A q \in Runs \ {r} : run'[q].pc = run[q].pc
  BY <1>1, DisturbedRuns
<1>6. OneUntilMet'
  BY <1>5 DEF SeedsInv, OneUntilMet, UnderWay
<1> QED
  BY <1>3, <1>4, <1>6 DEF SeedsInv

LEMMA MovedRuns ==
  ASSUME NEW h \in SeedRun,
         NEW pc \in {"idle", "look", "create", "reread", "write", "cleanup", "rows", "done"}
  PROVE  /\ [h EXCEPT !.pc = pc] \in SeedRun /\ [h EXCEPT !.pc = pc].pc = pc
         /\ [h EXCEPT !.pc = pc].section = h.section
         /\ [h EXCEPT !.pc = pc].account = h.account
         /\ [h EXCEPT !.pc = pc].auth = h.auth
         /\ [h EXCEPT !.pc = pc].created = h.created
         /\ [h EXCEPT !.pc = pc].alone = h.alone
BY DEF SeedRun

\* A run that has stopped knows nothing and needs nothing.
LEMMA RunStops ==
  ASSUME SeedsInv, NEW r \in Runs, Goes(r, NotRunning),
         UNCHANGED <<registered, earlier, link, rows, met>>
  PROVE  SeedsInv'
<1>1. RunKnows(NotRunning)
  BY NotRunningIs DEF RunKnows, FindsItsWork, InAccounts
<1> QED
  BY <1>1, NotRunningIs, RunMovesOn DEF UnderWay

LEMMA IdentityIsFound ==
  ASSUME SeedsInv, NEW r \in Runs, FindIdentity(r) PROVE SeedsInv'
<1>0. PICK h \in SeedRun : h = run[r] /\ RunKnows(h)
  BY DEF SeedsInv, SeedsTypes, RunsKnow
<1>1. /\ h.pc \in {"look", "reread"} /\ UNCHANGED <<registered, earlier, link, rows, met>>
      /\ UnderWay(run[r])
  BY <1>0 DEF FindIdentity, database, counters, UnderWay
<1>2. ASSUME NEW i \in IdentitiesOf(TheAccount(r)),
             Goes(r, [h EXCEPT !.pc = "write", !.created = FALSE, !.auth = i])
      PROVE  SeedsInv'
  <2> DEFINE g == [h EXCEPT !.pc = "write", !.created = FALSE, !.auth = i]
  <2>1. i \in SeedIdentities /\ registered[i] = DemoAccounts[h.account]
    BY <1>0 DEF IdentitiesOf, TheAccount
  <2>2. /\ g \in SeedRun /\ g.pc = "write" /\ g.section = h.section
        /\ g.account = h.account /\ g.auth = i /\ ~g.created /\ g.alone = h.alone
    BY <2>1 DEF SeedRun
  <2> HIDE DEF g
  <2>3. registered[i] # "unused"
    <3>1. h.account \in 1..Len(DemoAccounts)
      BY DEF SeedRun
    <3> QED
      BY <2>1, <3>1, TheAccounts
  <2>4. RunKnows(g)
    BY <1>0, <1>1, <2>1, <2>2, <2>3
       DEF RunKnows, FindsItsWork, Passed, InAccounts
  <2> QED
    BY <1>1, <1>2, <2>2, <2>4, RunMovesOn DEF g
<1>3. CASE Goes(r, NotRunning)
  BY <1>1, <1>3, RunStops
<1>4. CASE GoesTo(r, "create")
  <2> DEFINE g == [h EXCEPT !.pc = "create"]
  <2>1. /\ g \in SeedRun /\ g.pc = "create" /\ g.section = h.section
        /\ g.account = h.account /\ g.alone = h.alone
    BY MovedRuns
  <2>2. Goes(r, g)
    BY <1>0, <1>4 DEF GoesTo
  <2> HIDE DEF g
  <2>3. RunKnows(g)
    BY <1>0, <1>1, <2>1 DEF RunKnows, FindsItsWork, Passed, InAccounts
  <2> QED
    BY <1>1, <2>1, <2>2, <2>3, RunMovesOn
<1>5. \/ Goes(r, NotRunning) \/ GoesTo(r, "create")
      \/ \E i \in IdentitiesOf(TheAccount(r)) :
           Goes(r, [h EXCEPT !.pc = "write", !.created = FALSE, !.auth = i])
  <2>1. IdentitiesOf(TheAccount(r)) # {} =>
          (CHOOSE i \in IdentitiesOf(TheAccount(r)) : TRUE) \in IdentitiesOf(TheAccount(r))
    OBVIOUS
  <2> QED
    BY <1>0, <2>1 DEF FindIdentity
<1> QED
  BY <1>2, <1>3, <1>4, <1>5

LEMMA IdentityIsCreated ==
  ASSUME SeedsInv, NEW r \in Runs, CreateIdentity(r) PROVE SeedsInv'
<1>0. PICK h \in SeedRun : h = run[r] /\ RunKnows(h)
  BY DEF SeedsInv, SeedsTypes, RunsKnow
<1>1. /\ h.pc = "create" /\ UnderWay(run[r]) /\ UNCHANGED <<earlier, link, rows, met>>
      /\ h.account \in 1..Len(DemoAccounts)
  BY <1>0 DEF CreateIdentity, database, UnderWay, SeedRun
<1>2. CASE GoesTo(r, "reread") /\ UNCHANGED registered
  <2> DEFINE g == [h EXCEPT !.pc = "reread"]
  <2>1. /\ g \in SeedRun /\ g.pc = "reread" /\ g.section = h.section
        /\ g.account = h.account /\ g.alone = h.alone
    BY MovedRuns
  <2>2. Goes(r, g)
    BY <1>0, <1>2 DEF GoesTo
  <2> HIDE DEF g
  <2>3. RunKnows(g)
    BY <1>0, <1>1, <2>1 DEF RunKnows, FindsItsWork, Passed, InAccounts
  <2> QED
    BY <1>1, <1>2, <2>1, <2>2, <2>3, RunMovesOn
<1>3. ASSUME NEW i \in SeedIdentities, registered[i] = "unused",
             registered' = [registered EXCEPT ![i] = DemoAccounts[h.account]],
             Writes(r, [h EXCEPT !.pc = "write", !.auth = i, !.created = TRUE])
      PROVE  SeedsInv'
  <2>0. PICK p \in Demos : p = DemoAccounts[h.account] /\ p \notin {"", "unused"}
    BY <1>1, TheAccounts
  <2>1. /\ registered' \in [SeedIdentities -> Demos \union {"", "unused"}]
        /\ registered'[i] = p
        /\ \A j \in SeedIdentities \ {i} : registered'[j] = registered[j]
    BY <1>3, <2>0 DEF SeedsInv, SeedsTypes
  <2>2. PICK g \in SeedRun :
          /\ g = [h EXCEPT !.pc = "write", !.auth = i, !.created = TRUE]
          /\ g.pc = "write" /\ g.section = h.section
          /\ g.account = h.account /\ g.auth = i /\ g.created /\ g.alone = h.alone
    <3> DEFINE w == [h EXCEPT !.pc = "write", !.auth = i, !.created = TRUE]
    <3>1. /\ w \in SeedRun /\ w.pc = "write" /\ w.section = h.section
          /\ w.account = h.account /\ w.auth = i /\ w.created /\ w.alone = h.alone
      BY DEF SeedRun
    <3> QED
      BY <3>1
  <2>3. i \notin earlier /\ \A q \in Demos : link[q] # i
    BY <1>3, SeedsAssumption DEF SeedsInv, EarlierOnesStay, LinksAreMade
  <2>4. \A q \in Demos : IsLinked(q) => IsLinked(q)'
    BY <1>1, <2>1, <2>3 DEF IsLinked, IdentitiesOf
  <2>5. FindsItsWork(g)'
    <3>1. FindsItsWork(h) /\ h.pc # "idle"
      BY <1>0, <1>1 DEF RunKnows
    <3>2. \A k : Passed(g, k)' => Passed(h, k)
      BY <2>2 DEF Passed
    <3>3. \A k : IsWhole(k) => IsWhole(k)'
      BY <1>1 DEF IsWhole
    <3>4. \A a \in 1..Len(DemoAccounts) : DemoAccounts[a] \in Demos
      BY TheAccounts
    <3> QED
      BY <2>2, <2>4, <3>1, <3>2, <3>3, <3>4 DEF FindsItsWork
  <2>6. RunKnows(g)'
    <3>1. registered'[g.auth] = DemoAccounts[g.account] /\ registered'[g.auth] # "unused"
      BY <2>0, <2>1, <2>2
    <3>2. h.section \in DOMAIN SeedSections /\ SeedSections[h.section] = "accounts"
      BY <1>0, <1>1 DEF RunKnows, InAccounts
    <3>3. g.auth \notin earlier' /\ \A q \in Demos : link'[q] # g.auth
      BY <1>1, <2>2, <2>3
    <3> QED
      BY <2>2, <2>5, <3>1, <3>2, <3>3 DEF RunKnows
  <2>7. EarlierOnesStay' /\ LinksAreMade'
    BY <1>1, <2>1, <2>3, SeedsAssumption
       DEF SeedsInv, SeedsTypes, EarlierOnesStay, LinksAreMade
  <2>8. /\ link' \in [Demos -> SeedIdentities \union {NoSeedIdentity}]
        /\ rows' \in [SeedRows -> {"absent", "demo", "edited"}]
        /\ \A j \in SeedIdentities : registered[j] # "unused" => registered'[j] # "unused"
    BY <1>1, <1>3, <2>1 DEF SeedsInv, SeedsTypes
  <2> QED
    BY <1>1, <1>3, <2>1, <2>2, <2>6, <2>7, <2>8, RunWrites
<1> QED
  BY <1>0, <1>2, <1>3 DEF CreateIdentity, TheAccount

LEMMA IdentityIsCleanedUp ==
  ASSUME SeedsInv, NEW r \in Runs, CleanUp(r) PROVE SeedsInv'
<1>0. PICK h \in SeedRun : h = run[r] /\ RunKnows(h)
  BY DEF SeedsInv, SeedsTypes, RunsKnow
<1>1. /\ h.pc = "cleanup" /\ UnderWay(run[r]) /\ UNCHANGED <<earlier, link, rows, met>>
  BY <1>0 DEF CleanUp, database, UnderWay
<1>2. PICK i \in SeedIdentities :
        i = h.auth /\ i \notin earlier /\ (met \/ \A p \in Demos : link[p] # i)
        /\ registered[i] # "unused"
  BY <1>0, <1>1 DEF RunKnows
<1>3. CASE registered' = [registered EXCEPT ![i] = ""] /\ Writes(r, NotRunning)
  <2>1. /\ registered' \in [SeedIdentities -> Demos \union {"", "unused"}]
        /\ registered'[i] = ""
        /\ \A j \in SeedIdentities \ {i} : registered'[j] = registered[j]
    BY <1>3 DEF SeedsInv, SeedsTypes
  <2>2. PICK g \in SeedRun : g = NotRunning /\ g.pc = "idle"
    BY NotRunningIs
  <2>3. RunKnows(g)'
    BY <2>2 DEF RunKnows, FindsItsWork, InAccounts
  <2>4. EarlierOnesStay' /\ LinksAreMade'
    <3>1. EarlierOnesStay'
      BY <1>1, <1>2, <2>1 DEF SeedsInv, SeedsTypes, EarlierOnesStay
    <3>2. ASSUME NEW p \in Demos, link[p] # NoSeedIdentity
          PROVE  registered'[link[p]] # "unused" /\ (registered'[link[p]] = p \/ met)
      <4>1. link[p] \in SeedIdentities
        BY <3>2 DEF SeedsInv, SeedsTypes
      <4>2. registered[link[p]] # "unused" /\ (registered[link[p]] = p \/ met)
        BY <3>2 DEF SeedsInv, LinksAreMade
      <4> QED
        BY <1>2, <2>1, <4>1, <4>2
    <3> QED
      BY <1>1, <3>1, <3>2 DEF LinksAreMade
  <2>5. /\ link' \in [Demos -> SeedIdentities \union {NoSeedIdentity}]
        /\ rows' \in [SeedRows -> {"absent", "demo", "edited"}]
        /\ \A j \in SeedIdentities : registered[j] # "unused" => registered'[j] # "unused"
    BY <1>1, <1>2, <2>1 DEF SeedsInv, SeedsTypes
  <2> QED
    BY <1>1, <1>3, <2>1, <2>2, <2>3, <2>4, <2>5, RunWrites
<1>4. CASE Goes(r, NotRunning) /\ UNCHANGED registered
  BY <1>1, <1>4, RunStops
<1> QED
  BY <1>0, <1>2, <1>3, <1>4 DEF CleanUp

\* An account written: it is linked to an identity of its own, and so are those
\* before it; the last one ends the section.
LEMMA AccountIsWritten ==
  ASSUME SeedsInv, NEW r \in Runs, WriteAccount(r) PROVE SeedsInv'
<1>0. PICK h \in SeedRun : h = run[r] /\ RunKnows(h)
  BY DEF SeedsInv, SeedsTypes, RunsKnow
<1>1. /\ h.pc = "write" /\ UnderWay(run[r]) /\ UNCHANGED <<registered, earlier, rows, met>>
      /\ h.account \in 1..Len(DemoAccounts) /\ h.created \in BOOLEAN
  BY <1>0 DEF WriteAccount, UnderWay, SeedRun
<1>2. CASE Goes(r, NotRunning) /\ UNCHANGED link
  BY <1>1, <1>2, RunStops
<1>3. CASE GoesTo(r, "cleanup") /\ h.created /\ UNCHANGED link
  <2> DEFINE g == [h EXCEPT !.pc = "cleanup"]
  <2>1. /\ g \in SeedRun /\ g.pc = "cleanup" /\ g.section = h.section
        /\ g.account = h.account /\ g.auth = h.auth /\ g.created = h.created
        /\ g.alone = h.alone
    BY MovedRuns
  <2>2. Goes(r, g)
    BY <1>0, <1>3 DEF GoesTo
  <2> HIDE DEF g
  <2>3. RunKnows(g)
    BY <1>0, <1>1, <1>3, <2>1 DEF RunKnows, FindsItsWork, Passed, InAccounts
  <2> QED
    BY <1>1, <1>3, <2>1, <2>2, <2>3, RunMovesOn
<1>4. ASSUME link' = [link EXCEPT ![DemoAccounts[h.account]] = h.auth],
             Writes(r, [h EXCEPT !.pc = IF h.account = Len(DemoAccounts) THEN "rows" ELSE "look",
                                 !.account = IF h.account = Len(DemoAccounts) THEN h.account
                                             ELSE h.account + 1,
                                 !.section = IF h.account = Len(DemoAccounts) THEN h.section + 1
                                             ELSE h.section,
                                 !.auth = NoSeedIdentity, !.created = FALSE])
      PROVE  SeedsInv'
  <2>0. PICK p \in Demos : p = DemoAccounts[h.account] /\ p # "unused"
    BY <1>1, TheAccounts
  <2>1. /\ h.auth \in SeedIdentities /\ registered[h.auth] # "unused"
        /\ h.alone \/ ~met => registered[h.auth] = p
        /\ h.section \in DOMAIN SeedSections /\ SeedSections[h.section] = "accounts"
    BY <1>0, <1>1, <2>0 DEF RunKnows, InAccounts
  <2>2. /\ link' \in [Demos -> SeedIdentities \union {NoSeedIdentity}] /\ link'[p] = h.auth
        /\ \A q \in Demos \ {p} : link'[q] = link[q]
    BY <1>4, <2>0, <2>1 DEF SeedsInv, SeedsTypes
  <2> DEFINE last == h.account = Len(DemoAccounts)
             pc == IF last THEN "rows" ELSE "look"
             account == IF last THEN h.account ELSE h.account + 1
             section == IF last THEN h.section + 1 ELSE h.section
             g == [h EXCEPT !.pc = pc, !.account = account, !.section = section,
                            !.auth = NoSeedIdentity, !.created = FALSE]
  <2>3. /\ section \in 1..(Len(SeedSections) + 1) /\ account \in 1..Len(DemoAccounts)
        /\ pc \in {"rows", "look"}
    <3>1. /\ Len(SeedSections) \in Nat /\ h.section \in 1..Len(SeedSections)
          /\ Len(DemoAccounts) \in Nat
      BY <2>1, TheSections, TheAccounts
    <3> QED
      BY <1>1, <3>1
  <2>4. /\ last => section = h.section + 1 /\ account = h.account /\ pc = "rows"
        /\ ~last => section = h.section /\ account = h.account + 1 /\ pc = "look"
    OBVIOUS
  <2>5. Writes(r, g)
    BY <1>4
  <2> HIDE DEF pc, account, section
  <2>6. /\ g \in SeedRun /\ g.pc = pc /\ g.section = section /\ g.account = account
        /\ g.alone = h.alone
    BY <2>3 DEF SeedRun
  <2> HIDE DEF g
  <2>7. FindsItsWork(g)'
    <3> SUFFICES ASSUME g.alone
                 PROVE  /\ \A k \in SeedRows : Passed(g, k)' => IsWhole(k)'
                        /\ \A a \in 1..Len(DemoAccounts) :
                             Passed(g, "accounts")' \/ a < g.account =>
                               IsLinked(DemoAccounts[a])'
      BY DEF FindsItsWork
    <3>1. /\ \A k \in SeedRows : Passed(h, k) => IsWhole(k)
          /\ \A a \in 1..Len(DemoAccounts) :
               Passed(h, "accounts") \/ a < h.account => IsLinked(DemoAccounts[a])
      BY <1>0, <1>1, <2>6 DEF RunKnows, FindsItsWork
    <3>2. \A k \in SeedRows : k # "accounts"
      BY DEF SeedRows
    <3>3. \A k : Passed(g, k)' => Passed(h, k) \/ (last /\ k = "accounts")
      <4>1. \A j \in DOMAIN SeedSections : j < section => j < h.section \/ (last /\ j = h.section)
        BY <2>1, <2>4, TheSections
      <4> QED
        BY <2>1, <2>6, <4>1 DEF Passed
    <3>4. \A k \in SeedRows : Passed(g, k)' => IsWhole(k)'
      BY <1>1, <3>1, <3>2, <3>3 DEF IsWhole
    <3>5. \A q \in Demos : IsLinked(q) \/ q = p => IsLinked(q)'
      BY <1>1, <2>1, <2>2, <2>6 DEF IsLinked, IdentitiesOf
    <3>6. ASSUME NEW a \in 1..Len(DemoAccounts), Passed(g, "accounts")' \/ a < g.account
          PROVE  IsLinked(DemoAccounts[a])'
      <4>1. \/ Passed(h, "accounts") \/ a < h.account \/ a = h.account
        <5>1. Len(DemoAccounts) \in Nat
          BY TheAccounts
        <5> QED
          BY <1>1, <2>4, <2>6, <3>3, <3>6, <5>1
      <4>2. DemoAccounts[a] \in Demos
        BY TheAccounts
      <4> QED
        BY <2>0, <3>1, <3>5, <4>1, <4>2
    <3> QED
      BY <3>4, <3>6
  <2>8. RunKnows(g)'
    BY <2>1, <2>4, <2>6, <2>7 DEF RunKnows, InAccounts
  <2>9. EarlierOnesStay' /\ LinksAreMade'
    <3>1. EarlierOnesStay'
      BY <1>1 DEF SeedsInv, EarlierOnesStay
    <3>2. LinksAreMade'
      BY <1>1, <2>1, <2>2 DEF SeedsInv, LinksAreMade
    <3> QED
      BY <3>1, <3>2
  <2>10. /\ registered' \in [SeedIdentities -> Demos \union {"", "unused"}]
         /\ rows' \in [SeedRows -> {"absent", "demo", "edited"}]
         /\ \A j \in SeedIdentities : registered[j] # "unused" => registered'[j] # "unused"
    BY <1>1 DEF SeedsInv, SeedsTypes
  <2> QED
    BY <1>1, <2>2, <2>5, <2>6, <2>8, <2>9, <2>10, RunWrites
<1> QED
  BY <1>0, <1>2, <1>3, <1>4 DEF WriteAccount, TheAccount, CleansUp

\* The sections of rows: each is there, or made, when its run goes on.
LEMMA RowsAreSeeded ==
  ASSUME SeedsInv, NEW r \in Runs, NEW k \in SeedRows, AtSection(r, k),
         Restored(k) \/ (k = "students" /\ KeptOrMade(k)), Upserted(r)
  PROVE  SeedsInv'
<1>0. PICK h \in SeedRun : h = run[r] /\ RunKnows(h)
  BY DEF SeedsInv, SeedsTypes, RunsKnow
<1>1. /\ h.pc = "rows" /\ h.section <= Len(SeedSections) /\ SeedSections[h.section] = k
      /\ UnderWay(run[r]) /\ UNCHANGED <<registered, link, earlier, met>>
      /\ Writes(r, [h EXCEPT !.section = h.section + 1])
  BY <1>0 DEF AtSection, Upserted, UnderWay, counters
<1>2. /\ Len(SeedSections) \in Nat /\ h.section \in 1..Len(SeedSections)
      /\ DOMAIN SeedSections = 1..Len(SeedSections)
  <2>1. Len(SeedSections) \in Nat /\ h.section \in 1..(Len(SeedSections) + 1)
    BY TheSections DEF SeedRun
  <2> QED
    BY <1>1, <2>1, TheSections
<1>3. PICK g \in SeedRun :
        /\ g = [h EXCEPT !.section = h.section + 1]
        /\ g.pc = "rows" /\ g.section = h.section + 1 /\ g.account = h.account
        /\ g.alone = h.alone
  <2> DEFINE w == [h EXCEPT !.section = h.section + 1]
  <2>1. h.section + 1 \in 1..(Len(SeedSections) + 1)
    BY <1>2
  <2>2. /\ w \in SeedRun /\ w.pc = "rows" /\ w.section = h.section + 1
        /\ w.account = h.account /\ w.alone = h.alone
    BY <1>1, <2>1 DEF SeedRun
  <2> QED
    BY <2>2
<1>4. /\ rows' \in [SeedRows -> {"absent", "demo", "edited"}] /\ IsWhole(k)'
      /\ \A j \in SeedRows : IsWhole(j) => IsWhole(j)'
  BY DEF SeedsInv, SeedsTypes, Restored, KeptOrMade, IsWhole
<1>5. \A j : Passed(g, j)' => Passed(h, j) \/ j = k
  BY <1>1, <1>2, <1>3 DEF Passed
<1>6. FindsItsWork(g)'
  <2>1. h.alone => /\ \A j \in SeedRows : Passed(h, j) => IsWhole(j)
                   /\ \A a \in 1..Len(DemoAccounts) :
                        Passed(h, "accounts") \/ a < h.account => IsLinked(DemoAccounts[a])
    BY <1>0, <1>1 DEF RunKnows, FindsItsWork
  <2>2. k # "accounts"
    BY DEF SeedRows
  <2>3. \A p : IsLinked(p) => IsLinked(p)'
    BY <1>1 DEF IsLinked, IdentitiesOf
  <2> QED
    BY <1>3, <1>4, <1>5, <2>1, <2>2, <2>3 DEF FindsItsWork
<1>7. RunKnows(g)'
  BY <1>3, <1>6 DEF RunKnows, InAccounts
<1>8. EarlierOnesStay' /\ LinksAreMade'
  BY <1>1 DEF SeedsInv, EarlierOnesStay, LinksAreMade
<1>9. /\ registered' \in [SeedIdentities -> Demos \union {"", "unused"}]
      /\ link' \in [Demos -> SeedIdentities \union {NoSeedIdentity}]
      /\ \A j \in SeedIdentities : registered[j] # "unused" => registered'[j] # "unused"
  BY <1>1 DEF SeedsInv, SeedsTypes
<1> QED
  BY <1>1, <1>3, <1>4, <1>7, <1>8, <1>9, RunWrites

LEMMA SectionsBeginAndEnd ==
  ASSUME SeedsInv, NEW r \in Runs, BeginAccounts(r) \/ EndSeed(r) PROVE SeedsInv'
<1>0. PICK h \in SeedRun : h = run[r] /\ RunKnows(h)
  BY DEF SeedsInv, SeedsTypes, RunsKnow
<1>1. PICK pc \in {"look", "done"} :
        /\ h.pc = "rows" /\ UnderWay(run[r]) /\ GoesTo(r, pc)
        /\ UNCHANGED <<registered, earlier, link, rows, met>>
        /\ pc = "look" => /\ h.section <= Len(SeedSections)
                          /\ SeedSections[h.section] = "accounts"
        /\ pc = "done" => h.section = Len(SeedSections) + 1
  BY <1>0 DEF BeginAccounts, EndSeed, AtSection, UnderWay, database, counters
<1>2. PICK g \in SeedRun :
        /\ g = [h EXCEPT !.pc = pc] /\ g.pc = pc /\ g.section = h.section
        /\ g.account = h.account /\ g.alone = h.alone
  <2> DEFINE w == [h EXCEPT !.pc = pc]
  <2>0. pc \in {"idle", "look", "create", "reread", "write", "cleanup", "rows", "done"}
    OBVIOUS
  <2>1. /\ w \in SeedRun /\ w.pc = pc /\ w.section = h.section
        /\ w.account = h.account /\ w.alone = h.alone
    BY <2>0 DEF SeedRun
  <2> QED
    BY <2>1
<1>3. Goes(r, g)
  BY <1>0, <1>1, <1>2 DEF GoesTo
<1>4. pc = "look" => g.section \in DOMAIN SeedSections
  <2>1. /\ Len(SeedSections) \in Nat /\ h.section \in 1..(Len(SeedSections) + 1)
        /\ DOMAIN SeedSections = 1..Len(SeedSections)
    BY TheSections DEF SeedRun
  <2> QED
    BY <1>1, <1>2, <2>1
<1>5. FindsItsWork(g)
  BY <1>0, <1>1, <1>2 DEF RunKnows, FindsItsWork, Passed
<1>6. RunKnows(g)
  BY <1>1, <1>2, <1>4, <1>5 DEF RunKnows, InAccounts
<1> QED
  BY <1>1, <1>3, <1>6, RunMovesOn

\* What the campus does meanwhile disturbs every run.
LEMMA CampusIsUsed ==
  ASSUME SeedsInv, Disturbed, UNCHANGED <<registered, link, earlier, met>>,
         rows' \in [SeedRows -> {"absent", "demo", "edited"}]
  PROVE  SeedsInv'
<1>1. \A q \in Runs : run[q] \in SeedRun /\ run'[q] = [run[q] EXCEPT !.alone = FALSE]
  BY DEF Disturbed, SeedsInv, SeedsTypes
<1>2. run' \in [Runs -> SeedRun]
  BY <1>1, DisturbedRuns DEF Disturbed
<1>3. RunsKnow'
  <2> SUFFICES ASSUME NEW q \in Runs, NEW o, o = run'[q] PROVE RunKnows(o)'
    BY DEF RunsKnow
  <2>1. RunKnows(run[q])
    BY DEF SeedsInv, RunsKnow
  <2> QED
    BY <1>1, <2>1, DisturbedKnows
<1>4. \A q \in Runs : run'[q].pc = run[q].pc
  BY <1>1, DisturbedRuns
<1>5. OneUntilMet'
  BY <1>4 DEF SeedsInv, OneUntilMet, UnderWay
<1> QED
  BY <1>2, <1>3, <1>5 DEF SeedsInv, SeedsTypes, EarlierOnesStay, LinksAreMade

LEMMA SeedsStep == SeedsInv /\ [SeedsNext]_seedVars => SeedsInv'
<1> SUFFICES ASSUME SeedsInv, [SeedsNext]_seedVars PROVE SeedsInv'
  OBVIOUS
<1>1. ASSUME NEW r \in Runs, SeedStops(r) PROVE SeedsInv'
  BY <1>1, RunStops DEF SeedStops, database
<1>2. ASSUME NEW r \in Runs, SeedStep(r) PROVE SeedsInv'
  <2>1. \A k : AtSection(r, k) /\ k # "accounts" => k \in SeedRows
    <3>1. /\ run[r].section \in 1..(Len(SeedSections) + 1) /\ Len(SeedSections) \in Nat
          /\ DOMAIN SeedSections = 1..Len(SeedSections)
      BY TheSections DEF SeedsInv, SeedsTypes, SeedRun
    <3>2. run[r].section <= Len(SeedSections) => run[r].section \in DOMAIN SeedSections
      BY <3>1
    <3> QED
      BY <3>2, TheSections DEF AtSection
  <2>2. CASE \E k : /\ AtSection(r, k) /\ k # "accounts" /\ Upserted(r)
                    /\ Restored(k) \/ (k = "students" /\ KeptOrMade(k))
    BY <2>1, <2>2, RowsAreSeeded
  <2>3. CASE \/ BeginSeed(r) \/ BeginAccounts(r) \/ FindIdentity(r) \/ CreateIdentity(r)
             \/ WriteAccount(r) \/ CleanUp(r) \/ EndSeed(r) \/ SeedStops(r)
    BY <1>1, <2>3, SeedBegins, SectionsBeginAndEnd, IdentityIsFound, IdentityIsCreated,
       AccountIsWritten, IdentityIsCleanedUp
  <2> QED
    BY <1>2, <2>2, <2>3 DEF SeedStep, SeedOrganizations, SeedDepartments, SeedProfiles,
       SeedTerms, SeedCohorts, SeedOfferings, SeedTeaching, SeedStudents, SeedTimetable,
       SeedMaterials, SeedAssignments, SeedSession, SeedAttendance, SeedNotifications
<1>3. ASSUME NEW k, EditRow(k) \/ DropRival PROVE SeedsInv'
  <2>1. rows' \in [SeedRows -> {"absent", "demo", "edited"}]
    BY <1>3 DEF EditRow, DropRival, SeedsInv, SeedsTypes
  <2> QED
    BY <1>3, <2>1, CampusIsUsed DEF EditRow, DropRival, counters
<1>4. ASSUME UNCHANGED seedVars PROVE SeedsInv'
  <2>1. RunsKnow'
    BY <1>4 DEF seedVars, SeedsInv, RunsKnow, RunKnows, FindsItsWork, Passed, IsWhole,
       IsLinked, IdentitiesOf
  <2> QED
    BY <1>4, <2>1 DEF seedVars, SeedsInv, SeedsTypes, EarlierOnesStay, LinksAreMade,
       OneUntilMet
<1> QED
  BY <1>2, <1>3, <1>4 DEF SeedsNext

\* A seed that ends undisturbed leaves the demo campus, whatever it found; an
\* identity of before is never deleted, and an account is linked to one that is
\* gone only if two runs have met: for every list of accounts, every number of
\* runs, and every number of deaths, failures and edits.
THEOREM SeedsLeaveTheDemo == SeedsSpec => []SeedsMakeTheDemo
<1>1. ASSUME SeedsInv PROVE SeedsMakeTheDemo
  <2>1. \A i \in earlier : registered[i] # ""
    BY <1>1 DEF SeedsInv, EarlierOnesStay
  <2>2. \A p \in Demos : link[p] # NoSeedIdentity /\ registered[link[p]] # p => met
    BY <1>1 DEF SeedsInv, LinksAreMade
  <2>3. ASSUME NEW r \in Runs, run[r].pc = "done", run[r].alone PROVE DemoCampus
    <3>1. PICK h : h = run[r] /\ RunKnows(h)
      BY <1>1 DEF SeedsInv, RunsKnow
    <3>2. /\ h.section = Len(SeedSections) + 1
          /\ \A k \in SeedRows : Passed(h, k) => IsWhole(k)
          /\ \A a \in 1..Len(DemoAccounts) : Passed(h, "accounts") => IsLinked(DemoAccounts[a])
      BY <2>3, <3>1 DEF RunKnows, FindsItsWork
    <3>3. \A j \in DOMAIN SeedSections : j < h.section
      <4>1. Len(SeedSections) \in Nat /\ DOMAIN SeedSections = 1..Len(SeedSections)
        BY TheSections
      <4> QED
        BY <3>2, <4>1
    <3>4. Passed(h, "accounts") /\ \A k \in SeedRows : Passed(h, k)
      BY <3>3, TheSections DEF Passed
    <3>5. \A p \in Demos : IsLinked(p)
      BY <3>2, <3>4, TheAccounts
    <3> QED
      BY <3>2, <3>4, <3>5 DEF DemoCampus, IsWhole, IsLinked
  <2> QED
    BY <2>1, <2>2, <2>3 DEF SeedsMakeTheDemo
<1> QED
  BY <1>1, SeedsStart, SeedsStep, PTL DEF SeedsSpec
=============================================================================
