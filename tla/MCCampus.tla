------------------------------- MODULE MCCampus -------------------------------
(***************************************************************************)
(* The campus administration and the reports it reads, one desk at a       *)
(* time: each behaviour explores one component, chosen at the start, while *)
(* the others rest.  They share no state that their properties are about,  *)
(* so states add up instead of multiplying.                                *)
(***************************************************************************)
EXTENDS MCAccounts, Timetable, MCCohorts, WebSession, Seeds, Console,
        Occurrences, Figures

CONSTANTS r1, r2, ra, rb, t1, t2, c1, c2, pa, x1, x2

VARIABLE desk

-----------------------------------------------------------------------------
(* The timetable: a slot taken and one that has been given up, two that    *)
(* touch, a change of hours and one of teacher and room.                   *)

DraftOf(t, r, s, e) == [teacher |-> t, room |-> r, start |-> s, end |-> e, active |-> "keep"]
SomeDrafts ==
  {DraftOf(t1, ra, 1, 2), DraftOf(t2, ra, 2, 3), DraftOf(NoTeacher, NoRoom, 1, 0),
   DraftOf(t1, rb, 2, 0), [NoDraft EXCEPT !.active = "on"]}
EmptyWeek == [l \in Lectures |-> NotBooked]
GivenUpWeek ==
  [l1 |-> [teacher |-> t1, room |-> ra, start |-> 1, end |-> 2, active |-> TRUE],
   l2 |-> [teacher |-> t1, room |-> rb, start |-> 1, end |-> 2, active |-> FALSE]]
TwoWeeks == {EmptyWeek, GivenUpWeek}

OverTimetable ==
  LET quiet == saves = 1 /\ \A r \in Planners : planner[r].pc = "idle"
  IN /\ teaching' # teaching => t1 \in teaching' /\ quiet
     /\ queued' \subseteq queued \/ (queued' = {"l1"} /\ quiet)

\* Once the tab is out of step with its token, what is left to see is how it
\* gets back: by being loaded again.
OverWeb == crossed => ~crossed'

TwoDemos == <<"staff", "student">>

\* One field is typed into, and none while a save is under way; somebody else
\* writes under a form that is open; a list that is out of date is served as it
\* is.  Links have the most to undo: three writes, the last one from the form.
OverConsole ==
  /\ Cardinality(form'.typed) <= 1
  /\ form'.draft # form.draft /\ form'.on = form.on => writing = {}
  /\ served' # served /\ writes' # writes => writing = {} /\ form.sound
  /\ screen # MaterialsPage => writes' <= 2
  /\ screen = MaterialsPage =>
       /\ view' = "all" /\ "flag" \notin form'.typed
       /\ writes' = 3 /\ writes = 2 => form.on # {} /\ writing' # {}
  /\ \A v \in Filters : cache'[v].behind => cache'[v].took \subseteq {served'}

(* The report.  A tick is half the early margin, so that an instant lies   *)
(* strictly inside it.  Three days of four ticks make a week of twelve,    *)
(* just longer than 2 * 4 + 2 and one change of offset.                    *)

TwoTickSlot == [start |-> 1, end |-> 3]
WinterAndSummer == 1..2
Around == {3, 4, 9, 15}

-----------------------------------------------------------------------------
OfficeDesks == {"decisions", "identities", "timetable", "cohorts"}
FiguresDesks == {"report", "figures"}
Desks == OfficeDesks \union FiguresDesks \union {"web", "seeds", "console"}

CampusInit ==
  /\ desk \in Desks
  /\ AccountsInit /\ CohortsInit
  /\ TimetableInit /\ (desk = "timetable" \/ lecture = EmptyWeek)
  /\ WebInit /\ (desk = "web" \/ (~provider /\ token = 0 /\ ownerOf[1] = "w1"))
  /\ SeedsInit /\ (desk = "seeds" \/ earlier = {})
  /\ ConsoleInit
  /\ desk = "console" \/ (screen = AssignmentsPage /\ \A r \in Items : served[r].flag)
  /\ OccInit /\ (desk = "report" \/ zone = CHOOSE z \in Zone : TRUE)
  /\ FiguresInit /\ (desk = "figures" \/ cohort = {})

officeVars == <<accountVars, timetableVars, cohortVars>>
shownVars == <<occVars, figuresVars>>

DecisionsDesk ==
  /\ desk = "decisions" /\ AccountsNext /\ OverDecisions
  /\ UNCHANGED <<timetableVars, cohortVars>>
IdentitiesDesk ==
  /\ desk = "identities" /\ AccountsNext /\ OverIdentities
  /\ UNCHANGED <<timetableVars, cohortVars>>
TimetableDesk ==
  /\ desk = "timetable" /\ TimetableNext /\ OverTimetable
  /\ UNCHANGED <<accountVars, cohortVars>>
CohortsDesk ==
  /\ desk = "cohorts" /\ CohortsNext
  /\ UNCHANGED <<accountVars, timetableVars>>
OfficeNext ==
  /\ DecisionsDesk \/ IdentitiesDesk \/ TimetableDesk \/ CohortsDesk
  /\ UNCHANGED <<webVars, seedVars, consoleVars, shownVars, desk>>

WebDesk ==
  /\ desk = "web" /\ WebNext /\ OverWeb
  /\ UNCHANGED <<officeVars, seedVars, consoleVars, shownVars, desk>>
SeedsDesk ==
  /\ desk = "seeds" /\ SeedsNext
  /\ UNCHANGED <<officeVars, webVars, consoleVars, shownVars, desk>>
ConsoleDesk ==
  /\ desk = "console" /\ ConsoleNext /\ OverConsole
  /\ UNCHANGED <<officeVars, webVars, seedVars, shownVars, desk>>

ReportDesk == desk = "report" /\ OccNext /\ UNCHANGED figuresVars
FiguresDesk == desk = "figures" /\ FiguresNext /\ UNCHANGED occVars
ShownNext ==
  /\ ReportDesk \/ FiguresDesk
  /\ UNCHANGED <<officeVars, webVars, seedVars, consoleVars, desk>>

CampusNext == OfficeNext \/ WebDesk \/ SeedsDesk \/ ConsoleDesk \/ ShownNext

campusVars == <<officeVars, webVars, seedVars, consoleVars, shownVars, desk>>

CampusSpec == CampusInit /\ [][CampusNext]_campusVars

\* Every desk has at most one pair whose names do not matter, so all swap at once.
Interchangeable ==
  {p \in {a @@ b @@ c : a \in Permutations({r1, r2}), b \in Permutations({c1, c2}),
                        c \in Permutations({x1, x2})} :
     (p[r1] = r1 <=> p[c1] = c1) /\ (p[r1] = r1 <=> p[x1] = x1)}
=============================================================================
