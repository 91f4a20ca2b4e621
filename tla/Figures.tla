------------------------------- MODULE Figures -------------------------------
(***************************************************************************)
(* What is made of attendance: a student's own tally, the figures of one   *)
(* session, and the roster of a course as a spreadsheet, which is put      *)
(* together from four reads with no transaction around them while lectures *)
(* are opened, scanned into, closed and rolled.  The sessions and rows are *)
(* those of RollBook, which Attendance implements; all are of one course.  *)
(*                                                                         *)
(* A count is kept as the set of what was counted.                         *)
(***************************************************************************)
EXTENDS RollBook

VARIABLES
  cohort,   \* students whose profile matches a lecture of the course
  sheet     \* the spreadsheet being made

figuresVars == <<bookVars, cohort, sheet>>

Nobody == [s \in Students |-> {}]
NoSheet == [pc |-> "idle", roster |-> {}, present |-> Nobody, held |-> {},
            first |-> "none", standing |-> Nobody]
Sheet ==
  [pc : {"idle", "cohorts", "attendees", "counts", "one count", "done"},
   roster : SUBSET Students,
   present : [Students -> SUBSET SessionIds], held : SUBSET SessionIds,
   \* history: which count came first, and what stood when it was asked for
   first : {"none", "attended", "held"},
   standing : [Students -> SUBSET SessionIds]]

FiguresTypeOK ==
  /\ BookTypeOK /\ cohort \subseteq Students /\ sheet \in Sheet

FiguresInit == BookInit /\ cohort \in SUBSET Students /\ sheet = NoSheet

-----------------------------------------------------------------------------
(* What each reader takes from the rows.                                   *)

IsClosed(x) == page[x] \in {"closed", "settled"}
Held == {x \in SessionIds : IsClosed(x)}

Attended(s) == {x \in SessionIds : entry[s][x] = "attended"}
Recorded(s) == {x \in SessionIds : entry[s][x] # "none"}

\* The student's own page: the rate is out of the recorded lectures, and is left
\* open when there are none.
MyAttendance(s) == Recorded(s)
Summary(s) == [attended |-> Attended(s), recordedLectures |-> Recorded(s)]

\* The session's page: who turned up, and the whole roll.
Stats(x) == [total |-> {s \in Students : x \in Attended(s)},
             roll |-> {s \in Students : x \in Recorded(s)}]

\* The course's: closed sessions only.
CountedWhileOpen(s) == Attended(s)  \* mutant: status is not part of the query
Counted(s) == Attended(s) \intersect Held

-----------------------------------------------------------------------------
(* The spreadsheet.                                                        *)

SheetBecomes(v) == sheet' = v /\ UNCHANGED <<bookVars, cohort>>

\* The course and its lectures are loaded.
BeginExport ==
  /\ sheet.pc \in {"idle", "done"}
  /\ SheetBecomes([NoSheet EXCEPT !.pc = "cohorts",
                     !.standing = [s \in Students |-> Counted(s)]])

ReadCohorts ==
  /\ sheet.pc = "cohorts"
  /\ SheetBecomes([sheet EXCEPT !.pc = "attendees", !.roster = cohort])

\* Whoever has a row, an absence included.
ReadAttendees ==
  /\ sheet.pc = "attendees"
  /\ SheetBecomes([sheet EXCEPT !.pc = "counts",
       !.roster = sheet.roster \union {s \in Students : Recorded(s) # {}}])

\* The two counts run at once, in either order.
Reading(count) ==
  \/ sheet.pc = "counts"
  \/ sheet.pc = "one count" /\ sheet.first # count
Read(count) ==
  IF sheet.pc = "counts" THEN [sheet EXCEPT !.pc = "one count", !.first = count]
  ELSE [sheet EXCEPT !.pc = "done"]
CountAttended ==
  /\ Reading("attended")
  /\ SheetBecomes([Read("attended") EXCEPT
       !.present = [s \in Students |-> Counted(s)]])
CountHeld ==
  /\ Reading("held")
  /\ SheetBecomes([Read("held") EXCEPT !.held = Held])

\* Meanwhile students save other profiles and lectures are held.
CohortMoves(s) ==
  /\ cohort' = (cohort \ {s}) \union ({s} \ cohort)
  /\ UNCHANGED <<bookVars, sheet>>
BookMoves == BookNext /\ UNCHANGED <<cohort, sheet>>

FiguresNext ==
  \/ BeginExport \/ ReadCohorts \/ ReadAttendees \/ CountAttended \/ CountHeld
  \/ \E s \in Students : CohortMoves(s)
  \/ BookMoves

FiguresSpec == FiguresInit /\ [][FiguresNext]_figuresVars

-----------------------------------------------------------------------------
(* Properties.                                                             *)

\* A finished roster, however its reads fell between scans and closings: whoever
\* had attended a closed session when it was asked for is in it, with that
\* session among those attended and those held; whatever it says was attended
\* still stands on the student's own page and on the session's; and nobody
\* attended more than was held ("Attendance % counts completed sessions only",
\* student-export.service.ts 107) unless the sessions were counted first.
FiguresAddUp ==
  sheet.pc = "done" =>
    \A s \in Students :
      /\ sheet.standing[s] # {} => s \in sheet.roster
      /\ sheet.standing[s] \subseteq sheet.present[s] \intersect sheet.held
      /\ sheet.present[s] \subseteq Summary(s).attended
      /\ \A x \in sheet.present[s] : s \in Stats(x).total
      /\ sheet.first = "attended" => sheet.present[s] \subseteq sheet.held
=============================================================================
