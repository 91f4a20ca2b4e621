----------------------------- MODULE Occurrences -----------------------------
(***************************************************************************)
(* One weekly lecture, the sessions opened for it, and the report that     *)
(* says of each past occurrence whether attendance was recorded            *)
(* (AttendanceLifecycleService.occurrenceStates).  Sessions and occurrences*)
(* are matched by nearness alone, and the code uses two measures of it.    *)
(*                                                                         *)
(* Opening is one step here: Attendance splits it into its statements.     *)
(***************************************************************************)
EXTENDS SessionWindow, CampusClock, FiniteSets

CONSTANTS
  LectureSlot,
  Weeks,      \* how many weeks back the report looks
  MaxTime     \* bound: the clock stops here

ASSUME OccurrenceAssumption ==
  /\ LectureSlot \in Slot /\ LectureSlot.start = StartClock
  /\ Weeks \in 1..26
  /\ MaxTime \in Nat

\* session-window.ts 176-184 argues from "consecutive occurrences are 7 days
\* apart"; on the campus clock that is 7 days give or take a change of offset.
ASSUME WeekIsLong ==
  \A a, b \in Offsets : Week + a - b > 2 * OpenLate + OpenEarly

\* The walk over local days allows for a change of offset of two days; the
\* offsets on earth lie between UTC-12 and UTC+14.
ASSUME OffsetsAreNear == \A a, b \in Offsets : a - b <= 2 * Day

VARIABLES now, opened

occVars == <<now, opened, zone>>

SessionOf == [startTime : Nat, status : {"ACTIVE", "CLOSED"}]

OccInit ==
  /\ now = 0
  /\ opened = {}
  /\ zone \in Zone

OccTick == now < MaxTime /\ now' = now + 1 /\ UNCHANGED <<opened, zone>>

\* assertOccurrenceNotAlreadyOpened, then create.
OpenSession ==
  /\ \A x \in opened : ~SameOccurrenceWindow(now, x.startTime)
  /\ opened' = opened \union {[startTime |-> now, status |-> "ACTIVE"]}
  /\ UNCHANGED <<now, zone>>

CloseOpened ==
  /\ \E x \in opened :
       /\ x.status = "ACTIVE"
       /\ opened' = (opened \ {x}) \union {[x EXCEPT !.status = "CLOSED"]}
  /\ UNCHANGED <<now, zone>>

OccNext == OccTick \/ OpenSession \/ CloseOpened

OccSpec == OccInit /\ [][OccNext]_occVars

-----------------------------------------------------------------------------
(* The report, as it would be at every instant.                            *)

LookBack == Weeks * Week

PastOccurrences ==
  {o \in OccurrencesBetween(now - LookBack, LookBack) : o <= now}

\* findByScheduleBetween [from, now).
Fetched == {x \in opened : now - LookBack <= x.startTime /\ x.startTime < now}

\* `find` on rows ordered by startTime: the earliest session that belongs.
MatchesSince(o) ==  \* mutant: the earliest session since the occurrence
  {x \in Fetched : x.startTime >= o - OpenEarly}
Matches(o) == {x \in Fetched : BelongsToOccurrence(x.startTime, o)}
MatchOf(o) == CHOOSE x \in Matches(o) :
                \A y \in Matches(o) : x.startTime <= y.startTime

Report(o) ==
  IF Matches(o) = {} THEN "NOT_RECORDED"
  ELSE SessionState(MatchOf(o).status, MatchOf(o).startTime, LectureSlot, now)

-----------------------------------------------------------------------------
(* Properties.                                                             *)

\* The local days, wall times and instants a report made now could concern.
NearbyDays == (DayOf(now - LookBack) - 2) .. (DayOf(now) + 2)
NearbyLectureDays == {d \in NearbyDays : IsLectureDay(d)}
NearbyWalls == (now - LookBack - Day) .. (now + Day)
Past == (now - LookBack + 1) .. now

\* A wall time the clock really shows is converted to an instant at which it
\* shows it, including the hours either side of a daylight saving change
\* ("Two passes settle every real zone", occurrence.util.ts 99-103).
TwoPassesSettle ==
  \A wall \in NearbyWalls :
    (\E t \in Int : WallAt(t) = wall) => WallAt(ZonedTimeToUtc(wall)) = wall

\* The same with the witness narrowed to the instants the offsets can reach,
\* which a model checker can enumerate.
TwoPassesSettleNear ==
  \A wall \in NearbyWalls :
    (\E off \in Offsets : WallAt(wall - off) = wall)
      => WallAt(ZonedTimeToUtc(wall)) = wall

\* The calendar is right across a change of offset: an instant of the look-back
\* at which alone the clock shows the slot's day and time is among the
\* occurrences, and each of those shows it if any instant does ("crosses the
\* daylight saving change without dropping or doubling a week").
NoWeekDropped ==
  \A d \in NearbyDays : IsLectureDay(d) =>
    LET shown == {StartsOn(d) - off : off \in
                    {o \in Offsets : WallAt(StartsOn(d) - o) = StartsOn(d)}}
    IN /\ \A t \in Past : shown = {t} => t \in PastOccurrences
       /\ shown # {} /\ Occurrence(d) \in PastOccurrences
            => Occurrence(d) \in shown

\* Sessions of different occurrences are never taken for duplicates of each
\* other, so last week's session never stops this week's from being opened and
\* never excuses anybody from this week's roll (session-window.ts 176-184).
OccurrencesKeptApart ==
  \A d, e \in NearbyLectureDays, x, y \in opened :
    (/\ d # e
     /\ BelongsToOccurrence(x.startTime, Occurrence(d))
     /\ BelongsToOccurrence(y.startTime, Occurrence(e)))
    => ~SameOccurrenceWindow(x.startTime, y.startTime)

\* The report speaks of the right week: the session it shows for an occurrence
\* is shown for no other, and an occurrence wholly inside the look-back whose
\* session was opened before now is not reported missing.
ReportSpeaksOfItsWeek ==
  \A o \in PastOccurrences :
    /\ Report(o) # "NOT_RECORDED" =>
         /\ BelongsToOccurrence(MatchOf(o).startTime, o)
         /\ \A other \in PastOccurrences \ {o} :
              Report(other) # "NOT_RECORDED" => MatchOf(other) # MatchOf(o)
    /\ (/\ o - OpenEarly >= now - LookBack
        /\ \E x \in opened : x.startTime < now /\ BelongsToOccurrence(x.startTime, o))
       => Report(o) # "NOT_RECORDED"
=============================================================================
