------------------------------ MODULE Timetable ------------------------------
(***************************************************************************)
(* The weekly timetable: staff book, edit and cancel lectures.  No        *)
(* constraint of the database keeps two lectures apart: the conflict check *)
(* is two reads before the write.  Only one day of the week is modelled;   *)
(* the cohort a lecture is addressed to is the subject of Cohorts.         *)
(***************************************************************************)
EXTENDS Naturals

CONSTANTS
  Lectures, Teachers, Rooms,
  Times,        \* bound: the times of day that occur
  Planners,     \* requests that may be in flight at once
  Drafts,       \* bound: what a request may book or change
  FirstWeeks,   \* bound: the timetables to begin with
  MaxSaves,     \* bound: rows ever written from there
  NoTeacher, NoRoom

\* A request states any of the fields; 0 stands for a time left out.
Draft == [teacher : Teachers \union {NoTeacher}, room : Rooms \union {NoRoom},
          start : Times \union {0}, end : Times \union {0},
          active : {"keep", "on", "off"}]

Booking == [teacher : Teachers, room : Rooms, start : Times, end : Times,
            active : BOOLEAN]
NotBooked == [teacher |-> NoTeacher, room |-> NoRoom, start |-> 0, end |-> 0,
              active |-> FALSE]

Clashing(a, b) == /\ a.active /\ b.active /\ a.start < b.end /\ a.end > b.start
                  /\ a.teacher = b.teacher \/ a.room = b.room

ASSUME TimetableAssumption ==
  /\ Lectures # {} /\ Times \subseteq Nat \ {0}
  /\ Drafts \subseteq Draft /\ MaxSaves \in Nat
  /\ \A w \in FirstWeeks :
       /\ w \in [Lectures -> Booking \union {NotBooked}]
       /\ \A l \in Lectures : w[l] # NotBooked => w[l].start < w[l].end
       /\ \A l, k \in Lectures : l # k => ~Clashing(w[l], w[k])
  /\ NoTeacher \notin Teachers /\ NoRoom \notin Rooms

VARIABLES
  lecture,    \* LectureSchedule rows
  teaching,   \* instructors whose account is active
  queued,     \* lectures with reminders queued
  planner,    \* what each request has in flight
  raced,      \* history: lectures written from a check that had gone stale,
  saves       \* and how many rows have been written

timetableVars == <<lecture, teaching, queued, planner, raced, saves>>

NoDraft == [teacher |-> NoTeacher, room |-> NoRoom, start |-> 0, end |-> 0,
            active |-> "keep"]
Resting(l) == [pc |-> "idle", lecture |-> l, draft |-> NoDraft,
               merged |-> NotBooked, late |-> FALSE]
Planning == [pc : {"idle", "teacher", "slot", "room", "save", "reset"},
             lecture : Lectures, draft : Draft,
             merged : Booking \union {NotBooked}, late : BOOLEAN]

TimetableTypeOK ==
  /\ lecture \in [Lectures -> Booking \union {NotBooked}]
  /\ teaching \subseteq Teachers
  /\ queued \subseteq Lectures /\ raced \subseteq Lectures /\ saves \in Nat
  /\ planner \in [Planners -> Planning]

TimetableInit ==
  /\ lecture \in FirstWeeks
  /\ teaching = Teachers
  /\ queued = {} /\ raced = {} /\ saves = 0
  /\ planner = [r \in Planners |-> Resting(CHOOSE l \in Lectures : TRUE)]

Plans(r, p) == planner' = [planner EXCEPT ![r] = p]
PlanOn(r, pc) == Plans(r, [planner[r] EXCEPT !.pc = pc])
PlanDone(r) == Plans(r, Resting(CHOOSE l \in Lectures : TRUE))

-----------------------------------------------------------------------------
(* Writing.                                                                *)

Merged(b, d) ==
  [teacher |-> IF d.teacher = NoTeacher THEN b.teacher ELSE d.teacher,
   room |-> IF d.room = NoRoom THEN b.room ELSE d.room,
   start |-> IF d.start = 0 THEN b.start ELSE d.start,
   end |-> IF d.end = 0 THEN b.end ELSE d.end,
   active |-> IF d.active = "keep" THEN b.active ELSE d.active = "on"]

FullyStated(d) == /\ d.teacher # NoTeacher /\ d.room # NoRoom
               /\ d.start # 0 /\ d.end # 0 /\ d.active = "keep"

\* The schema compares the two times if both are sent.
Parses(d) == d # NoDraft /\ (d.start # 0 /\ d.end # 0 => d.start < d.end)

BeginBooking(r, l, d) ==
  /\ lecture[l] = NotBooked /\ \A s \in Planners : planner[s].lecture # l
                                                     \/ planner[s].pc = "idle"
  /\ Parses(d) /\ FullyStated(d)
  /\ Plans(r, [pc |-> "teacher", lecture |-> l, draft |-> d, late |-> FALSE,
               merged |-> [Merged(NotBooked, d) EXCEPT !.active = TRUE]])
  /\ UNCHANGED <<lecture, teaching, queued, raced, saves>>

\* loadInOrg.  The pair of times is checked as it will stand with this reading.
InOrder(b, d) == Merged(b, d).start < Merged(b, d).end

BeginEdit(r, l, d) ==
  /\ lecture[l] # NotBooked
  /\ Parses(d) /\ InOrder(lecture[l], d)
  /\ Plans(r, [pc |-> "teacher", lecture |-> l, draft |-> d, late |-> FALSE,
               merged |-> Merged(lecture[l], d)])
  /\ UNCHANGED <<lecture, teaching, queued, raced, saves>>

\* An edit that names no instructor does not look at the stored one.
\* A lecture that will not be active has nothing to clash with.
HoldsSlotAlready(p) == lecture[p.lecture].active  \* mutant: `existing` is asked
HoldsSlot(p) == p.merged.active
CheckTeacher(r) ==
  LET p == planner[r]
  IN /\ p.pc = "teacher"
     /\ IF p.draft.teacher \in teaching \union {NoTeacher}
        THEN PlanOn(r, IF HoldsSlot(p) THEN "slot" ELSE "save")
        ELSE PlanDone(r)
     /\ UNCHANGED <<lecture, teaching, queued, raced, saves>>

Overlaps(a, b) == a.active /\ a.start < b.end /\ a.end > b.start
Rivals(l, b) == {k \in Lectures \ {l} : Overlaps(lecture[k], b)}

FindInstructorConflict(r) ==
  LET p == planner[r]
  IN /\ p.pc = "slot"
     /\ IF \E k \in Rivals(p.lecture, p.merged) :
             lecture[k].teacher = p.merged.teacher
        THEN PlanDone(r) ELSE PlanOn(r, "room")
     /\ UNCHANGED <<lecture, teaching, queued, raced, saves>>

FindRoomConflict(r) ==
  LET p == planner[r]
  IN /\ p.pc = "room"
     /\ IF \E k \in Rivals(p.lecture, p.merged) : lecture[k].room = p.merged.room
        THEN PlanDone(r) ELSE PlanOn(r, "save")
     /\ UNCHANGED <<lecture, teaching, queued, raced, saves>>

\* Only the fields sent are written, over the row as it is by now.  Whoever is
\* between a reading and a write is late from here on.  A booking ends here; the
\* others go on to discard the reminders of their lecture.
Booked(p) == IF lecture[p.lecture] = NotBooked
             THEN p.merged ELSE Merged(lecture[p.lecture], p.draft)
Save(r) ==
  LET p == planner[r]
  IN /\ p.pc = "save"
     /\ saves < MaxSaves /\ saves' = saves + 1
     /\ lecture' = [lecture EXCEPT ![p.lecture] = Booked(p)]
     /\ raced' = IF p.late THEN raced \union {p.lecture} ELSE raced
     /\ planner' = [s \in Planners |->
          IF s = r THEN IF lecture[p.lecture] = NotBooked
                        THEN Resting(CHOOSE l \in Lectures : TRUE)
                        ELSE [Resting(p.lecture) EXCEPT !.pc = "reset"]
          ELSE [planner[s] EXCEPT !.late = planner[s].pc \notin {"idle", "reset"}]]
     /\ UNCHANGED <<teaching, queued>>

\* resetForSchedule, cancelForSchedule.
ResetReminders(r) ==
  /\ planner[r].pc = "reset"
  /\ queued' = queued \ {planner[r].lecture}
  /\ PlanDone(r)
  /\ UNCHANGED <<lecture, teaching, raced, saves>>

\* deactivateSchedule: nothing to do for a lecture already inactive.
BeginDeactivation(r, l) ==
  /\ lecture[l].active
  /\ Plans(r, [pc |-> "save", lecture |-> l, merged |-> lecture[l],
               draft |-> [NoDraft EXCEPT !.active = "off"], late |-> FALSE])
  /\ UNCHANGED <<lecture, teaching, queued, raced, saves>>

PlannerDies(r) ==
  /\ planner[r].pc # "idle"
  /\ PlanDone(r)
  /\ UNCHANGED <<lecture, teaching, queued, raced, saves>>

\* An instructor's account is closed: their lectures stay.
CloseTeacher(t) ==
  /\ teaching' = teaching \ {t}
  /\ UNCHANGED <<lecture, queued, planner, raced, saves>>

\* The generator's pass over the active lectures (in detail: Reminders).
QueueReminders ==
  /\ queued' = queued \union {l \in Lectures : lecture[l].active}
  /\ UNCHANGED <<lecture, teaching, planner, raced, saves>>

PlannerStep(r) ==
  \/ /\ planner[r].pc = "idle"
     /\ \E l \in Lectures :
          \/ \E d \in Drafts : BeginBooking(r, l, d) \/ BeginEdit(r, l, d)
          \/ BeginDeactivation(r, l)
  \/ CheckTeacher(r) \/ FindInstructorConflict(r) \/ FindRoomConflict(r)
  \/ Save(r) \/ ResetReminders(r) \/ PlannerDies(r)

TimetableNext ==
  \/ \E r \in Planners : PlannerStep(r)
  \/ \E t \in Teachers : CloseTeacher(t)
  \/ QueueReminders

TimetableSpec == TimetableInit /\ [][TimetableNext]_timetableVars

-----------------------------------------------------------------------------
(* Properties.                                                             *)

\* Two lectures hold one room or one instructor at one hour only if one of them
\* was written by a request that another write had overtaken: booking, moving
\* and restoring, one after the other, keep every slot to itself.
ClashesOnlyFromRaces ==
  \A l, k \in Lectures :
    l # k /\ Clashing(lecture[l], lecture[k]) => l \in raced \/ k \in raced
=============================================================================
