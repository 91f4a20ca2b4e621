-------------------------------- MODULE Reach --------------------------------
(***************************************************************************)
(* Who reaches what.  Each kind of row has a scope for its list and, in    *)
(* another place, a check for the single row and one for writing to it.    *)
(* Here they stand side by side over one offering of the department Ours   *)
(* of the university Here, while staff move people and appointments about. *)
(* Every request is checked against the rows of that moment.               *)
(***************************************************************************)
EXTENDS Naturals, FiniteSets

CONSTANTS
  Members, Post,             \* who has an account, and their role
  Universities, Here,
  Departments, Ours, NoDepartment,
  OurCohorts, NoSection,       \* cohorts of Ours
  HangsOff,                  \* whose appointment the seeds tied the lecture to
  MaxChanges                 \* bound: changes made

Posts == {"SYSTEM_OWNER", "UNIVERSITY_ADMIN", "DEPARTMENT_ADMIN", "INSTRUCTOR", "STUDENT"}

ASSUME ReachAssumption ==
  /\ Post \in [Members -> Posts]
  /\ Here \in Universities /\ Ours \in Departments
  /\ NoDepartment \notin Departments /\ NoSection \notin OurCohorts
  /\ HangsOff \subseteq Members /\ MaxChanges \in Nat

VARIABLES
  member,   \* User rows, with the cohort of a student's profile
  campus,   \* the rows of Here
  changes

reachVars == <<member, campus, changes>>

Instructors == {p \in Members : Post[p] = "INSTRUCTOR"}
Undergrads == {p \in Members : Post[p] = "STUDENT"}
AnySection == OurCohorts \union {NoSection}
Link == {"none", "on", "off"}

Member == [university : Universities, department : Departments \union {NoDepartment},
           section : AnySection, waiting : BOOLEAN]
Campus ==
  [open : BOOLEAN, targets : SUBSET OurCohorts,           \* CourseOffering
   appointed : [Instructors -> Link], over : [Instructors -> AnySection],
   enrolled : [Undergrads -> Link],
   lecturer : Instructors, given : BOOLEAN, addressed : OurCohorts,  \* LectureSchedule
   operator : SUBSET Members,                           \* who opened the Session
   published : BOOLEAN, audience : SUBSET OurCohorts,     \* Assignment
   publisher : SUBSET Members]                          \* of the CourseMaterial

ReachTypeOK ==
  /\ member \in [Members -> Member] /\ campus \in Campus /\ changes \in 0..MaxChanges
  /\ \A one \in {campus.operator, campus.publisher} : Cardinality(one) <= 1

ReachInit ==
  /\ \E d \in [Instructors -> {Ours, NoDepartment}], w \in BOOLEAN, s \in AnySection :
       member = [p \in Members |->
         [university |-> Here,
          department |-> CASE p \in Instructors -> d[p]
                           [] Post[p] = "DEPARTMENT_ADMIN" -> Ours
                           [] OTHER -> NoDepartment,
          section |-> IF p \in Undergrads THEN s ELSE NoSection,
          waiting |-> p \in Undergrads /\ w]]
  /\ \E t \in Instructors, s \in OurCohorts :
       campus = [open |-> TRUE, targets |-> {s}, operator |-> {},
                 appointed |-> [p \in Instructors |-> "none"],
                 over |-> [p \in Instructors |-> NoSection],
                 enrolled |-> [p \in Undergrads |-> "none"],
                 lecturer |-> t, given |-> TRUE, addressed |-> s,
                 published |-> FALSE, audience |-> {},
                 publisher |-> {}]
  /\ changes = 0

-----------------------------------------------------------------------------
(* The policies.                                                           *)

IsHere(a) == member[a].university = Here
Chief(a) == Post[a] \in {"SYSTEM_OWNER", "UNIVERSITY_ADMIN"}
Dean(a) == Post[a] = "DEPARTMENT_ADMIN"
Admissible(a) == Post[a] = "STUDENT" => ~member[a].waiting
SameDepartment(a) == member[a].department = Ours
OwnDean(a) == Dean(a) /\ SameDepartment(a)

\* hasPermission for people:read and department:manage of a row of Ours.
ReadsPeople(a) ==
  \/ Post[a] = "SYSTEM_OWNER"
  \/ IsHere(a) /\ Post[a] = "UNIVERSITY_ADMIN"
  \/ IsHere(a) /\ SameDepartment(a) /\ Post[a] \in {"DEPARTMENT_ADMIN", "INSTRUCTOR"}
ManagesDepartment(a) == IsHere(a) /\ (Chief(a) \/ OwnDean(a))

Appointed(a) == a \in Instructors /\ campus.appointed[a] = "on"
Enrolled(a) == a \in Undergrads /\ campus.enrolled[a] = "on"
LecturesIt(a) == campus.given /\ campus.lecturer = a

\* Attendance sessions.
IsSessionOperator(a) == Chief(a) \/ Post[a] = "INSTRUCTOR"
SeesOnlyOwn(a) == Post[a] = "INSTRUCTOR"
ListsOwnSessions(a) ==  \* mutant: everybody is narrowed to what they opened
  IsSessionOperator(a) /\ IsHere(a) /\ a \in campus.operator
ListsSession(a) ==
  /\ IsSessionOperator(a) /\ IsHere(a) /\ campus.operator # {}
  /\ SeesOnlyOwn(a) => a \in campus.operator
CanSeeSession(a) ==
  /\ IsSessionOperator(a) /\ IsHere(a) /\ campus.operator # {}
  /\ IF SeesOnlyOwn(a) THEN a \in campus.operator ELSE Chief(a)

\* Its roster and its figures.
ReadsRoster(a) == CanSeeSession(a)

\* The lecture.
Addressed(a) == member[a].section = campus.addressed
ListsLecture(a) ==
  /\ Admissible(a) /\ IsHere(a)
  /\ a \in Undergrads => Addressed(a) /\ campus.given
  /\ a \in Instructors => campus.lecturer = a
OpensLecture(a) ==
  /\ Admissible(a) /\ IsHere(a)
  /\ a \in Instructors => campus.lecturer = a
  /\ a \in Undergrads => Addressed(a) /\ campus.given
ReportsLecture(a) ==
  IsSessionOperator(a) /\ IsHere(a) /\ (a \in Instructors => campus.lecturer = a)

\* The cohorts: only an appointment over one counts.
ListsCohort(a, s) ==
  /\ IsHere(a)
  /\ \/ Chief(a)
     \/ OwnDean(a)
     \/ /\ Appointed(a) /\ campus.over[a] = s
        /\ member[a].department \in {Ours, NoDepartment}
OpensCohort(a, s) ==
  /\ IsHere(a) /\ ReadsPeople(a)
  /\ a \in Instructors => Appointed(a) /\ campus.over[a] = s

\* The offering, its appointments and enrolments.
ListsOffering(a) ==
  /\ Admissible(a) /\ IsHere(a)
  /\ Chief(a) \/ OwnDean(a) \/ Appointed(a) \/ Enrolled(a)
OpensOffering(a) ==
  /\ Admissible(a) /\ IsHere(a)
  /\ Dean(a) => ReadsPeople(a)
  /\ a \in Instructors => Appointed(a)
  /\ a \in Undergrads => Enrolled(a)
ListsAppointment(a, t) ==
  IsHere(a) /\ campus.appointed[t] # "none"
    /\ (Chief(a) \/ OwnDean(a) \/ a = t)
OpensAppointment(a, t) ==
  /\ IsHere(a) /\ campus.appointed[t] # "none" /\ a \notin Undergrads
  /\ (a \in Instructors => a = t) /\ (Dean(a) => ReadsPeople(a))
ListsEnrollment(a, s) ==
  /\ Admissible(a) /\ IsHere(a) /\ campus.enrolled[s] # "none"
  /\ Chief(a) \/ OwnDean(a) \/ Appointed(a) \/ a = s
OpensEnrollment(a, s) ==
  /\ Admissible(a) /\ IsHere(a) /\ campus.enrolled[s] # "none"
  /\ (a \in Undergrads => a = s) /\ (Dean(a) => ReadsPeople(a))
  /\ a \in Instructors => Appointed(a)

\* The assignment and its marks.
ListsWork(a) ==
  /\ Admissible(a) /\ IsHere(a)
  /\ \/ Chief(a) \/ OwnDean(a) \/ Appointed(a)
     \/ /\ campus.published /\ Enrolled(a)
        /\ campus.audience = {} \/ member[a].section \in campus.audience
ManagesOffering(a) ==
  /\ IsHere(a)
  /\ Chief(a) \/ (SameDepartment(a) /\ (Dean(a) \/ Appointed(a)))
OffersChoice(a) ==
  /\ IsHere(a) /\ campus.open
  /\ \/ Chief(a) \/ OwnDean(a)
     \/ (Appointed(a) /\ member[a].department \in {Ours, NoDepartment})

\* A link to material, which may be for every section; and the audiences an
\* instructor may address one to: the lecture must hang off an appointment of
\* theirs, and that link no request writes.
PublishableScope(a, s) ==
  /\ LecturesIt(a) /\ a \in HangsOff /\ Appointed(a) /\ campus.open
  /\ s = campus.addressed
OffersAudience(a, s) == IsSessionOperator(a) /\ IsHere(a) /\ PublishableScope(a, s)
MayPublish(a, s) ==
  /\ IsSessionOperator(a) /\ IsHere(a)
  /\ a \in Instructors => PublishableScope(a, s)
ListsLink(a) ==
  /\ IsSessionOperator(a) /\ IsHere(a) /\ campus.publisher # {}
  /\ a \in Instructors => a \in campus.publisher
EditsLink(a) ==
  /\ IsSessionOperator(a) /\ IsHere(a) /\ campus.publisher # {}
  /\ a \in Instructors => a \in campus.publisher

\* The course, whose department is Ours and whose author is an administrator.
CourseScope(a) ==
  \/ Chief(a) \/ LecturesIt(a) \/ Appointed(a) \/ OwnDean(a)
  \/ Enrolled(a)
ListsCourse(a) == Admissible(a) /\ IsHere(a) /\ CourseScope(a)
OpensCourse(a) == Admissible(a) /\ IsHere(a) /\ CourseScope(a)
OpensHistory(a) == IsSessionOperator(a) /\ IsHere(a) /\ CourseScope(a)
ListsMyCourse(a) == IsHere(a) /\ IsSessionOperator(a) /\ LecturesIt(a)
CanExportCourse(a) ==
  IsHere(a) /\ (Chief(a) \/ OwnDean(a) \/ LecturesIt(a))
CanManageCourse(a) == IsHere(a) /\ (Chief(a) \/ OwnDean(a))

\* Registrations: an appointment over no cohort in particular stands for all
\* that the offering targets.
ApprovalCohorts(a) ==
  IF Dean(a) THEN IF SameDepartment(a) THEN OurCohorts ELSE {}
  ELSE IF ~Appointed(a) THEN {}
  ELSE IF campus.over[a] # NoSection THEN {campus.over[a]} ELSE campus.targets
Reviews(a, s) ==
  /\ IsHere(a) /\ member[s].university = Here
  /\ Chief(a) \/ (a \notin Undergrads /\ member[s].section \in ApprovalCohorts(a))
ListsPending(a, s) == Reviews(a, s) /\ member[s].waiting

\* The directory, and which of its people an administrator edits.
ListsMember(a, p) == Chief(a) /\ member[p].university = member[a].university
EditsMember(a, p) == ListsMember(a, p) /\ p \in Instructors \union Undergrads

-----------------------------------------------------------------------------
(* What staff and students change.                                         *)

CampusBecomes(row) == campus' = row /\ UNCHANGED member
MemberBecomes(p, row) == member' = [member EXCEPT ![p] = row] /\ UNCHANGED campus

\* An owner may also move somebody to another university, department and all.
SetDepartment(a, p, d) ==
  /\ EditsMember(a, p) \/ Post[a] = "SYSTEM_OWNER"
  /\ MemberBecomes(p, [member[p] EXCEPT !.department = d])
SetUniversity(a, p, u) ==
  /\ Post[a] = "SYSTEM_OWNER"
  /\ MemberBecomes(p, [member[p] EXCEPT !.university = u])

Offer(a, targets, open) ==
  ManagesDepartment(a) /\ CampusBecomes([campus EXCEPT !.targets = targets, !.open = open])

Targeted(s) == s = NoSection \/ s \in campus.targets
AppointTo(a, t, s) ==
  /\ ManagesDepartment(a) /\ IsHere(t) /\ campus.appointed[t] = "none"
  /\ member[t].department \in {Ours, NoDepartment} /\ Targeted(s)
  /\ CampusBecomes([campus EXCEPT !.appointed[t] = "on", !.over[t] = s])
Reappoint(a, t, s, link) ==
  /\ ManagesDepartment(a) /\ campus.appointed[t] # "none" /\ link # "none"
  /\ s = campus.over[t] \/ Targeted(s)
  /\ CampusBecomes([campus EXCEPT !.appointed[t] = link, !.over[t] = s])

EnrollIn(a, s) ==
  /\ ManagesDepartment(a) /\ campus.open /\ campus.enrolled[s] = "none"
  /\ IsHere(s) /\ ~member[s].waiting
  /\ campus.targets # {} => member[s].section \in campus.targets
  /\ CampusBecomes([campus EXCEPT !.enrolled[s] = "on"])
SetEnrollment(a, s, link) ==
  /\ ManagesDepartment(a) /\ campus.enrolled[s] # "none" /\ link # "none"
  /\ CampusBecomes([campus EXCEPT !.enrolled[s] = link])

\* The timetable, a session of the lecture or of none, and an assignment.
Timetabled(a, t, given) ==
  /\ Chief(a) /\ IsHere(a) /\ IsHere(t)
  /\ CampusBecomes([campus EXCEPT !.lecturer = t, !.given = given])
OperatesOne(a) ==
  /\ IsSessionOperator(a) /\ IsHere(a) /\ campus.operator = {}
  /\ CampusBecomes([campus EXCEPT !.operator = {a}])
Assign(a, published, audience) ==
  /\ ManagesOffering(a) /\ audience \subseteq campus.targets
  /\ CampusBecomes([campus EXCEPT !.published = published, !.audience = audience])

\* A link, which is edited in place and withdrawn but never deleted.
Publish(a, s) ==
  /\ MayPublish(a, s) /\ campus.publisher = {}
  /\ CampusBecomes([campus EXCEPT !.publisher = {a}])

ApproveMember(a, s) == Reviews(a, s) /\ MemberBecomes(s, [member[s] EXCEPT !.waiting = FALSE])
Profiled(s, to) == MemberBecomes(s, [member[s] EXCEPT !.section = to])

AdminStep(a) ==
  \/ \E p \in Members, d \in Departments \union {NoDepartment} : SetDepartment(a, p, d)
  \/ \E p \in Members, u \in Universities : SetUniversity(a, p, u)
  \/ \E targets \in SUBSET OurCohorts, open \in BOOLEAN : Offer(a, targets, open)
  \/ \E t \in Instructors, s \in AnySection :
       AppointTo(a, t, s) \/ \E link \in Link : Reappoint(a, t, s, link)
  \/ \E t \in Instructors, given \in BOOLEAN : Timetabled(a, t, given)
  \/ \E s \in Undergrads :
       EnrollIn(a, s) \/ ApproveMember(a, s) \/ \E link \in Link : SetEnrollment(a, s, link)
  \/ OperatesOne(a)
  \/ \E audience \in SUBSET OurCohorts, published \in BOOLEAN : Assign(a, published, audience)
  \/ \E s \in AnySection : Publish(a, s)

UndergradStep(s) == \E to \in OurCohorts : Profiled(s, to)

ReachNext ==
  /\ changes < MaxChanges /\ changes' = changes + 1
  /\ (\E a \in Members \ Undergrads : AdminStep(a)) \/ \E s \in Undergrads : UndergradStep(s)

ReachSpec == ReachInit /\ [][ReachNext]_reachVars

-----------------------------------------------------------------------------
\* "The LIST endpoint and the single-session check cannot drift apart": what a
\* list shows opens and nothing else does, for every kind of row and whoever has
\* been moved or appointed meanwhile; and who may write to a row may see it.
\* The exception is an instructor whose own department is not, or no longer, the
\* offering's: the lists go by the appointment, and the checks by both
\* (session-access.ts 52-57, academic.service.ts 76-117, assignment.service.ts
\* 397-430).
Astray(a) == a \in Instructors /\ ~SameDepartment(a)
ListedOpens ==
  \A a \in Members :
    /\ ListsSession(a) <=> CanSeeSession(a) /\ ReadsRoster(a)
    /\ ListsLecture(a) <=> OpensLecture(a)
    /\ ReportsLecture(a) => OpensLecture(a)
    /\ \A s \in OurCohorts : ListsCohort(a, s) /\ ~Astray(a) <=> OpensCohort(a, s)
    /\ ListsOffering(a) <=> OpensOffering(a)
    /\ \A t \in Instructors : ListsAppointment(a, t) <=> OpensAppointment(a, t)
    /\ \A s \in Undergrads : ListsEnrollment(a, s) <=> OpensEnrollment(a, s)
    /\ ListsWork(a) /\ ~Astray(a) /\ a \notin Undergrads <=> ManagesOffering(a)
    /\ OffersChoice(a) /\ ~Astray(a) => ManagesOffering(a)
    /\ ListsLink(a) <=> EditsLink(a)
    /\ \A s \in AnySection :
         /\ OffersAudience(a, s) <=> a \in Instructors /\ MayPublish(a, s)
         /\ OffersAudience(a, s) => OpensLecture(a) /\ OpensCourse(a) /\ OpensOffering(a)
    /\ ListsCourse(a) <=> OpensCourse(a)
    /\ OpensHistory(a) \/ ListsMyCourse(a) \/ CanExportCourse(a) \/ CanManageCourse(a)
         => OpensCourse(a)
    /\ \A s \in Undergrads : ListsPending(a, s) => Reviews(a, s)
=============================================================================
