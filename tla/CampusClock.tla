----------------------------- MODULE CampusClock -----------------------------
(***************************************************************************)
(* A timetable says "Sunday, 12:00" on the campus clock; a reminder or a   *)
(* report needs instants.  zonedTimeToUtc finds one by successive          *)
(* approximation, because the offset that applies is the offset at the     *)
(* answer, and occurrencesBetween walks local calendar days.  Here: a zone *)
(* with one change of offset, as close to a lecture as we please.          *)
(*                                                                         *)
(* Source: backend/src/utils/occurrence.util.ts.                           *)
(***************************************************************************)
EXTENDS Integers

CONSTANTS
  Offsets,      \* the offsets from UTC the zone may have
  Changes,      \* the instants at which the offset may change
  Day,          \* DAY_MS
  DaysPerWeek,
  Weekday,      \* the slot: its day of the week...
  StartClock    \* ...and its wall-clock start, as time since midnight

ASSUME ClockAssumption ==
  /\ Offsets \subseteq Int
  /\ Changes \subseteq Int
  /\ Day \in Nat \ {0}
  /\ DaysPerWeek \in Nat \ {0}
  /\ Weekday \in 0..(DaysPerWeek - 1)
  /\ StartClock \in 0..(Day - 1)

VARIABLE zone

Zone == [change : Changes, before : Offsets, after : Offsets]

Week == Day * DaysPerWeek

\* offsetAt
OffsetAt(t) == IF t < zone.change THEN zone.before ELSE zone.after

\* partsInZone: what the wall clock shows at an instant.
WallAt(t) == t + OffsetAt(t)
DayOf(wall) == wall \div Day

\* The naive reading, corrected with the offset in force at the first guess.
ZonedTimeToUtcOnce(local) == local - OffsetAt(local)  \* mutant: a single pass
ZonedTimeToUtc(local) ==
  LET guess == local - OffsetAt(local)
  IN local - OffsetAt(guess)

\* getUTCDay: the slot's day comes round every whole week.
IsLectureDay(d) ==
  \E week \in (0 - d)..d \union d..(0 - d) : d = week * DaysPerWeek + Weekday
StartsOn(d) == d * Day + StartClock
Occurrence(d) == ZonedTimeToUtc(StartsOn(d))

\* The local days walked: from the one `from` falls on, two more than the
\* horizon is long.
DaysWalkedShort(from, horizon) ==  \* mutant: no spare day at either end
  LET first == DayOf(WallAt(from))
  IN first .. (first + (horizon + Day - 1) \div Day - 1)
DaysWalked(from, horizon) ==
  LET first == DayOf(WallAt(from))
  IN first .. (first + (horizon + Day - 1) \div Day + 2)

OccurrencesBetween(from, horizon) ==
  {o \in {Occurrence(d) : d \in {e \in DaysWalked(from, horizon) :
                                   IsLectureDay(e)}} :
     from < o /\ o <= from + horizon}
=============================================================================
