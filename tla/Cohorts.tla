-------------------------------- MODULE Cohorts --------------------------------
(***************************************************************************)
(* Who a lecture, a reminder, a roll and a link to material are addressed  *)
(* to.  Nothing links a student to a lecture but text typed on both sides, *)
(* and five readers compare it.  Staff text is trimmed by its schemas;     *)
(* what students type on their profiles is kept as typed.                  *)
(*                                                                         *)
(* The section stands for the three free-text fields and the level, which  *)
(* are treated alike; case is ignored by every reader and left out.        *)
(***************************************************************************)
EXTENDS Naturals

CONSTANTS
  Pupils, Savers,   \* students; saves of a profile that may be in flight
  Words,            \* what can be typed, trimmed
  Semesters,        \* what can be typed for a semester
  ReadsAs,          \* parseSemesterNumber: 1, 2, or 0 for what it cannot read
  NoWord

Typed == [word : Words, padded : BOOLEAN]
Nothing == [word |-> NoWord, padded |-> FALSE]
Blank == [word |-> NoWord, padded |-> TRUE]    \* spaces alone
Sections == Typed \union {Nothing, Blank}
Unset == "unset"

ASSUME CohortAssumption ==
  /\ NoWord \notin Words /\ Unset \notin Semesters
  /\ ReadsAs \in [Semesters -> 0..2]

VARIABLES
  profile,   \* StudentProfile rows
  saving     \* what each save has in flight

cohortVars == <<profile, saving>>

\* `personal` stands for the phone number, the national ID and the birth date.
Profile == [section : Sections, semester : Semesters \union {Unset},
            personal : BOOLEAN, status : {"NONE", "INCOMPLETE", "COMPLETED"}]
NoProfile == [section |-> Nothing, semester |-> Unset, personal |-> FALSE,
              status |-> "NONE"]
Shell == [NoProfile EXCEPT !.status = "INCOMPLETE"]

\* A save states any of the fields; Nothing, Unset and FALSE leave one alone.
Form == [section : Sections, semester : Semesters \union {Unset},
         personal : BOOLEAN]
EmptyForm == [section |-> Nothing, semester |-> Unset, personal |-> FALSE]
NotSaving(s) == [pc |-> "idle", pupil |-> s, form |-> EmptyForm,
                 status |-> "NONE"]
Saving == [pc : {"idle", "shell", "write"}, pupil : Pupils, form : Form,
           status : {"NONE", "INCOMPLETE", "COMPLETED"}]

CohortsTypeOK ==
  /\ profile \in [Pupils -> Profile]
  /\ saving \in [Savers -> Saving]

SomePupil == CHOOSE s \in Pupils : TRUE
CohortsInit ==
  /\ profile = [s \in Pupils |-> NoProfile]
  /\ saving = [r \in Savers |-> NotSaving(SomePupil)]

-----------------------------------------------------------------------------
(* The student's own profile.                                              *)

SavesOn(r, v) == saving' = [saving EXCEPT ![r] = v]

IsFilled(t) == t.word # NoWord
Filled(p) == IsFilled(p.section) /\ p.semester # Unset /\ p.personal
WithForm(p, f) ==
  [section |-> IF f.section = Nothing THEN p.section ELSE f.section,
   semester |-> IF f.semester = Unset THEN p.semester ELSE f.semester,
   personal |-> p.personal \/ f.personal,
   status |-> p.status]
DeriveStatus(p, f) == IF Filled(WithForm(p, f)) THEN "COMPLETED" ELSE "INCOMPLETE"

\* The status is computed from the row as it was read.
Judged(r, s, p, f) ==
  SavesOn(r, [pc |-> "write", pupil |-> s, form |-> f,
              status |-> DeriveStatus(p, f)])

LoadProfile(r, s, f) ==
  /\ saving[r].pc = "idle"
  /\ f # EmptyForm
  /\ IF profile[s] = NoProfile
     THEN SavesOn(r, [NotSaving(s) EXCEPT !.pc = "shell", !.form = f])
     ELSE Judged(r, s, profile[s], f)
  /\ UNCHANGED profile

\* The other half of loadOrCreate: the row is unique per user, and of two
\* requests that create it the later fails.
CreateShell(r) ==
  LET s == saving[r].pupil
  IN /\ saving[r].pc = "shell"
     /\ IF profile[s] = NoProfile
        THEN /\ profile' = [profile EXCEPT ![s] = Shell]
             /\ Judged(r, s, Shell, saving[r].form)
        ELSE SavesOn(r, NotSaving(SomePupil)) /\ UNCHANGED profile

SaveProfile(r) ==
  LET v == saving[r]
      s == v.pupil
  IN /\ v.pc = "write"
     /\ profile' = [profile EXCEPT ![s] =
          [WithForm(profile[s], v.form) EXCEPT !.status = v.status]]
     /\ SavesOn(r, NotSaving(SomePupil))

SaverDies(r) ==
  /\ saving[r].pc # "idle"
  /\ SavesOn(r, NotSaving(SomePupil))
  /\ UNCHANGED profile

CohortsNext ==
  \E r \in Savers :
    \/ \E s \in Pupils, f \in Form : LoadProfile(r, s, f)
    \/ CreateShell(r) \/ SaveProfile(r) \/ SaverDies(r)

CohortsSpec == CohortsInit /\ [][CohortsNext]_cohortVars

-----------------------------------------------------------------------------
(* The readers.  A lecture's section and a link's come from staff.         *)

Address == [section : {t \in Typed : ~t.padded}, semester : {1, 2}]
LinkAddress == Address \union [section : {Nothing}, semester : {1, 2}]

Trim(t) == [t EXCEPT !.padded = FALSE]
Semester(p) == IF p.semester = Unset THEN 0 ELSE ReadsAs[p.semester]

\* resolveCohort: an unreadable semester is not guessed at.
Resolves(p) == IsFilled(p.section) /\ Semester(p) # 0

\* findTimetable: the database compares its column with what was asked, trimmed.
OnTimetable(p, a) ==
  Resolves(p) /\ a.section = Trim(p.section) /\ a.semester = Semester(p)

\* cohortMatches, for getSchedule and at the door of a session: both trimmed.
LetIn(p, a) ==
  Resolves(p) /\ Trim(a.section) = Trim(p.section) /\ a.semester = Semester(p)

\* findCohort and findCohortProfiles: here the column is the student's.
InColumnIgnoringSemester(p, a) == p.section = Trim(a.section)  \* mutant: not narrowed
InColumn(p, a) == p.section = Trim(a.section) /\ Semester(p) = a.semester

\* The reminders, the roll and the roster.
Reminded(p, a) == InColumn(p, a)
OnTheRoll(p, a) == InColumn(p, a)
OnTheRoster(p, a) == InColumn(p, a)

\* findForCohort does not trim what it is asked.
SeesLink(p, a) ==
  Resolves(p) /\ a.section \in {Nothing, p.section} /\ a.semester = Semester(p)

-----------------------------------------------------------------------------
(* Properties.                                                             *)

\* However both sides were typed, the lectures a student is shown are those
\* whose door lets them in: "the two must give the same answer" (cohort.ts
\* 14-17); and whoever is called to a lecture by a reminder, can be marked absent
\* from it or is listed for it, is one of those who are shown it, and so is
\* whoever opens a link addressed to its section.
NobodyRolledOutside ==
  \A s \in Pupils, a \in Address :
    /\ OnTimetable(profile[s], a) <=> LetIn(profile[s], a)
    /\ \/ Reminded(profile[s], a) \/ OnTheRoll(profile[s], a)
       \/ OnTheRoster(profile[s], a) \/ SeesLink(profile[s], a)
       => OnTimetable(profile[s], a)

\* "The same rule the timetable lookup uses" (student.repository.ts 34-36): the
\* students found for a lecture are those whose timetable shows it.
RollFollowsTimetable ==
  \A s \in Pupils, a \in Address :
    OnTimetable(profile[s], a) => OnTheRoll(profile[s], a)
=============================================================================
