-------------------------- MODULE OccurrencesProofs --------------------------
(***************************************************************************)
(* For every pair of offsets and every change, two passes invert the campus*)
(* clock wherever it can be inverted; for every calendar as long as        *)
(* WeekIsLong asks, nearness keeps the weeks of a lecture apart; and the   *)
(* report drops no week and speaks of the right one.                       *)
(***************************************************************************)
EXTENDS Occurrences, TLAPS

OpenedRows ==
  /\ now \in Nat
  /\ opened \subseteq SessionOf
  /\ zone \in Zone

LEMMA OpenedRowsKept == OccSpec => []OpenedRows
<1>1. OccInit => OpenedRows
  BY DEF OccInit, OpenedRows
<1>2. OpenedRows /\ [OccNext]_occVars => OpenedRows'
  <2> SUFFICES ASSUME OpenedRows, [OccNext]_occVars PROVE OpenedRows'
    OBVIOUS
  <2>1. CASE OccTick \/ UNCHANGED occVars
    BY <2>1 DEF OpenedRows, OccTick, occVars
  <2>2. CASE OpenSession
    BY <2>2 DEF OpenedRows, OpenSession, SessionOf
  <2>3. CASE CloseOpened
    BY <2>3 DEF OpenedRows, CloseOpened, SessionOf
  <2> QED
    BY <2>1, <2>2, <2>3 DEF OccNext
<1> QED
  BY <1>1, <1>2, PTL DEF OccSpec

-----------------------------------------------------------------------------
(* The conversion.                                                         *)

\* Every offset in force is one of the zone's.
LEMMA OffsetIsOffset ==
  ASSUME zone \in Zone, NEW t \in Int
  PROVE  OffsetAt(t) \in Offsets /\ OffsetAt(t) \in Int
BY ClockAssumption DEF OffsetAt, Zone

\* If any instant shows a wall time, the offset at the first guess is the
\* offset at the instant it leads to: the second pass is the last one needed.
LEMMA Settled ==
  ASSUME zone \in Zone, NEW w \in Int, NEW t \in Int, WallAt(t) = w
  PROVE  WallAt(ZonedTimeToUtc(w)) = w
<1> DEFINE a == zone.after
           b == zone.before
           c == zone.change
           guess == w - OffsetAt(w)
<1>1. a \in Int /\ b \in Int /\ c \in Int
  BY ClockAssumption DEF Zone
<1>2. \/ t = w - b /\ t < c
      \/ t = w - a /\ ~(t < c)
  BY <1>1 DEF WallAt, OffsetAt
<1>3. OffsetAt(w) \in Int /\ guess \in Int
  BY OffsetIsOffset
<1>4. OffsetAt(w) = IF w < c THEN b ELSE a
  BY DEF OffsetAt
<1>5. OffsetAt(guess) = IF guess < c THEN b ELSE a
  BY DEF OffsetAt
<1>6. OffsetAt(w - OffsetAt(guess)) = OffsetAt(guess)
  <2>1. CASE guess < c
    <3>1. OffsetAt(guess) = b
      BY <2>1, <1>5
    <3>2. w - b < c
      BY <2>1, <1>1, <1>2, <1>4
    <3> QED
      BY <3>1, <3>2 DEF OffsetAt
  <2>2. CASE ~(guess < c)
    <3>1. OffsetAt(guess) = a
      BY <2>2, <1>5
    <3>2. ~(w - a < c)
      BY <2>2, <1>1, <1>2, <1>4
    <3> QED
      BY <3>1, <3>2 DEF OffsetAt
  <2> QED
    BY <2>1, <2>2
<1>7. ZonedTimeToUtc(w) = w - OffsetAt(guess)
  BY DEF ZonedTimeToUtc
<1> HIDE DEF guess
<1>8. OffsetAt(guess) \in Int
  BY <1>3, OffsetIsOffset
<1> QED
  BY <1>6, <1>7, <1>8 DEF WallAt

\* zonedTimeToUtc inverts the campus clock at every wall time it shows.
THEOREM TwoPassesAreEnough == OccSpec => [](TwoPassesSettle /\ TwoPassesSettleNear)
<1>1. OpenedRows => NearbyWalls \subseteq Int
  BY ClockAssumption, OccurrenceAssumption
  DEF OpenedRows, NearbyWalls, LookBack, Week
<1>2. OpenedRows => TwoPassesSettle
  BY <1>1, Settled DEF OpenedRows, TwoPassesSettle
<1>3. OpenedRows => TwoPassesSettleNear
  <2> SUFFICES ASSUME OpenedRows, NEW w \in NearbyWalls, NEW off \in Offsets,
                      WallAt(w - off) = w
               PROVE  WallAt(ZonedTimeToUtc(w)) = w
    BY DEF TwoPassesSettleNear
  <2>1. w \in Int /\ w - off \in Int
    BY <1>1, ClockAssumption
  <2> QED
    BY <2>1, Settled DEF OpenedRows
<1> QED
  BY <1>2, <1>3, OpenedRowsKept, PTL

-----------------------------------------------------------------------------
(* The weeks.                                                              *)

\* Lecture days are whole weeks apart.
LEMMA LectureDaysApart ==
  ASSUME NEW d \in Int, NEW e \in Int, IsLectureDay(d), IsLectureDay(e), d < e
  PROVE  e - d >= DaysPerWeek
<1> DEFINE n == DaysPerWeek
<1>1. n \in Nat \ {0}
  BY ClockAssumption
<1>3. PICK p \in Int, q \in Int : d = n * p + Weekday /\ e = n * q + Weekday
  <2>1. PICK p \in Int : d = p * n + Weekday
    BY DEF IsLectureDay
  <2>2. PICK q \in Int : e = q * n + Weekday
    BY DEF IsLectureDay
  <2>3. p * n = n * p /\ q * n = n * q
    BY <1>1
  <2> QED
    BY <2>1, <2>2, <2>3
<1>4. Weekday \in Int
  BY ClockAssumption
<1>5. n * p < n * q /\ e - d = n * q - n * p
  BY <1>1, <1>3, <1>4
<1>6. q - p >= 1
  <2> SUFFICES ASSUME q <= p PROVE FALSE
    OBVIOUS
  <2>1. PICK k \in Nat : p = q + k
    <3>1. p - q \in Nat /\ p = q + (p - q)
      OBVIOUS
    <3> QED
      BY <3>1
  <2>2. n * p = n * q + n * k /\ n * k >= 0
    BY <1>1, <2>1
  <2>3. n * p \in Int /\ n * q \in Int /\ n * k \in Int
    BY <1>1
  <2> QED
    BY <1>5, <2>2, <2>3
<1>7. PICK k \in Nat : q = p + 1 + k
  <2>1. q - p - 1 \in Nat /\ q = p + 1 + (q - p - 1)
    BY <1>6
  <2> QED
    BY <2>1
<1>8. n * q = n * p + n + n * k /\ n * k >= 0
  BY <1>1, <1>7
<1>9. n * p \in Int /\ n * q \in Int /\ n * k \in Int
  BY <1>1
<1> QED
  BY <1>1, <1>5, <1>8, <1>9

\* Consecutive occurrences are a week apart, give or take a change of offset.
LEMMA WeeksApart ==
  ASSUME zone \in Zone, NEW d \in Int, NEW e \in Int,
         IsLectureDay(d), IsLectureDay(e), d < e
  PROVE  /\ Occurrence(d) \in Int /\ Occurrence(e) \in Int
         /\ \E f, g \in Offsets : Occurrence(e) - Occurrence(d) >= Week + f - g
<1>1. StartsOn(d) \in Int /\ StartsOn(e) \in Int
  BY ClockAssumption DEF StartsOn
<1>2. StartsOn(e) - StartsOn(d) >= Week
  <2>1. PICK k \in Nat : e = d + DaysPerWeek + k
    <3>1. DaysPerWeek \in Int
      BY ClockAssumption
    <3>2. e - d - DaysPerWeek \in Nat /\ e = d + DaysPerWeek + (e - d - DaysPerWeek)
      BY <3>1, LectureDaysApart
    <3> QED
      BY <3>2
  <2>2. \A x \in Nat : /\ (d + DaysPerWeek + k) * x = d * x + DaysPerWeek * x + k * x
                       /\ k * x >= 0
    BY ClockAssumption
  <2>3. e * Day - d * Day >= DaysPerWeek * Day
    BY <2>1, <2>2, ClockAssumption
  <2>4. e * Day \in Int /\ d * Day \in Int /\ DaysPerWeek * Day = Day * DaysPerWeek
    BY ClockAssumption
  <2> QED
    BY <2>3, <2>4, ClockAssumption DEF StartsOn, Week
<1>3. \A w \in Int : \E f \in Offsets : f \in Int /\ ZonedTimeToUtc(w) = w - f
  <2> SUFFICES ASSUME NEW w \in Int
               PROVE  \E f \in Offsets : f \in Int /\ ZonedTimeToUtc(w) = w - f
    OBVIOUS
  <2>1. w - OffsetAt(w) \in Int
    BY OffsetIsOffset
  <2> QED
    BY <2>1, OffsetIsOffset DEF ZonedTimeToUtc
<1>4. PICK g \in Offsets : g \in Int /\ Occurrence(e) = StartsOn(e) - g
  BY <1>1, <1>3 DEF Occurrence
<1>5. PICK f \in Offsets : f \in Int /\ Occurrence(d) = StartsOn(d) - f
  BY <1>1, <1>3 DEF Occurrence
<1>6. Week \in Int
  BY ClockAssumption DEF Week
<1>7. Occurrence(e) - Occurrence(d) >= Week + f - g
  BY <1>1, <1>2, <1>4, <1>5, <1>6
<1> QED
  BY <1>1, <1>4, <1>5, <1>7

\* A session that belongs to one occurrence and one that belongs to a later one
\* opened further apart than the duplicate guard looks.
LEMMA BelongingIsApart ==
  ASSUME zone \in Zone, NEW d \in Int, NEW e \in Int,
         IsLectureDay(d), IsLectureDay(e), d < e,
         NEW s \in Nat, NEW t \in Nat,
         BelongsToOccurrence(s, Occurrence(d)),
         BelongsToOccurrence(t, Occurrence(e))
  PROVE  t - s > OpenLate
<1>1. Occurrence(d) \in Int /\ Occurrence(e) \in Int
  BY WeeksApart
<1>2. PICK f \in Offsets, g \in Offsets :
        Occurrence(e) - Occurrence(d) >= Week + f - g
  BY WeeksApart
<1>3. f \in Int /\ g \in Int /\ Week \in Int
  BY ClockAssumption DEF Week
<1>4. Occurrence(e) - Occurrence(d) > 2 * OpenLate + OpenEarly
  BY <1>1, <1>2, <1>3, WeekIsLong, WindowAssumption
<1> QED
  BY <1>1, <1>4, WindowAssumption DEF BelongsToOccurrence

\* No session of one week ever passes for a duplicate, or for the sibling, of a
\* session of another week.
THEOREM WeeksKeptApart == OccSpec => []OccurrencesKeptApart
<1>1. OpenedRows => OccurrencesKeptApart
  <2> SUFFICES ASSUME OpenedRows, NEW x \in opened, NEW y \in opened,
                      NEW d \in NearbyDays, NEW e \in NearbyDays, d # e,
                      IsLectureDay(d), IsLectureDay(e),
                      BelongsToOccurrence(x.startTime, Occurrence(d)),
                      BelongsToOccurrence(y.startTime, Occurrence(e))
               PROVE  ~SameOccurrenceWindow(x.startTime, y.startTime)
    BY DEF OccurrencesKeptApart, NearbyLectureDays
  <2>1. x.startTime \in Nat /\ y.startTime \in Nat
    BY DEF OpenedRows, SessionOf
  <2>2. d \in Int /\ e \in Int
    BY DEF NearbyDays
  <2>3. zone \in Zone
    BY DEF OpenedRows
  <2>4. CASE d < e
    <3>1. y.startTime - x.startTime > OpenLate
      BY <2>1, <2>2, <2>3, <2>4, BelongingIsApart
    <3> QED
      BY <2>1, <3>1, WindowAssumption DEF SameOccurrenceWindow
  <2>5. CASE e < d
    <3>1. x.startTime - y.startTime > OpenLate
      BY <2>1, <2>2, <2>3, <2>5, BelongingIsApart
    <3> QED
      BY <2>1, <3>1, WindowAssumption DEF SameOccurrenceWindow
  <2> QED
    BY <2>2, <2>4, <2>5
<1> QED
  BY <1>1, OpenedRowsKept, PTL

-----------------------------------------------------------------------------
(* The report.                                                             *)

\* A wall time falls on the day that begins at or before it.
LEMMA DayOfWall ==
  ASSUME NEW w \in Int
  PROVE  /\ DayOf(w) \in Int
         /\ DayOf(w) * Day <= w
         /\ w < DayOf(w) * Day + Day
BY ClockAssumption DEF DayOf

\* A day that begins a whole number of days after another.
LEMMA DaysLater ==
  ASSUME NEW d \in Int, NEW e \in Int, NEW k \in Int, d * Day < e * Day + k * Day
  PROVE  d < e + k
<1> SUFFICES ASSUME d >= e + k PROVE FALSE
  OBVIOUS
<1>1. PICK j \in Nat : d = e + k + j
  <2>1. d - e - k \in Nat /\ d = e + k + (d - e - k)
    OBVIOUS
  <2> QED
    BY <2>1
<1>2. d * Day = e * Day + k * Day + j * Day /\ j * Day >= 0
  BY <1>1, ClockAssumption
<1>3. d * Day \in Int /\ e * Day \in Int /\ k * Day \in Int /\ j * Day \in Int
  BY ClockAssumption
<1> QED
  BY <1>2, <1>3

\* The look-back is a whole number of days, and so is the walk.
LEMMA WalkIsWhole ==
  /\ Weeks * DaysPerWeek \in Nat
  /\ LookBack \in Nat
  /\ LookBack = (Weeks * DaysPerWeek) * Day
  /\ (LookBack + Day - 1) \div Day = Weeks * DaysPerWeek
<1> DEFINE n == Weeks * DaysPerWeek
<1>1. n \in Nat
  BY ClockAssumption, OccurrenceAssumption
<1>2. LookBack = n * Day
  <2>1. \A a, b, c \in Nat : a * (b * c) = (a * c) * b
    OBVIOUS
  <2> QED
    BY <2>1, ClockAssumption, OccurrenceAssumption DEF LookBack, Week
<1> HIDE DEF n
<1>3. n * Day \in Nat
  BY <1>1, ClockAssumption
<1>4. (n * Day + Day - 1) \div Day = n
  <2> DEFINE w == n * Day + Day - 1
             q == w \div Day
  <2>1. w \in Int /\ q \in Int /\ q * Day <= w /\ w < q * Day + Day
    BY <1>3, DayOfWall, ClockAssumption DEF DayOf
  <2>2. n * Day < q * Day + 1 * Day
    BY <2>1, <1>3, ClockAssumption
  <2>3. q * Day < n * Day + 1 * Day
    BY <2>1, <1>3, ClockAssumption
  <2> HIDE DEF w, q
  <2>4. n < q + 1 /\ q < n + 1
    BY <2>1, <2>2, <2>3, <1>1, DaysLater
  <2> QED
    BY <2>1, <2>4, <1>1 DEF q, w
<1> QED
  BY <1>1, <1>2, <1>3, <1>4 DEF n


\* An instant of the look-back at which alone the clock shows a wall time falls
\* on a day that is walked.
LEMMA OnlyInstantIsWalked ==
  ASSUME zone \in Zone, NEW from \in Int, NEW t \in Int, from < t,
         t <= from + LookBack, NEW d \in Int, WallAt(t) = StartsOn(d),
         \A f \in Offsets : WallAt(StartsOn(d) - f) = StartsOn(d)
                              => StartsOn(d) - f = t
  PROVE  d \in DaysWalked(from, LookBack)
<1> DEFINE w == StartsOn(d)
           a == zone.after
           b == zone.before
           c == zone.change
           first == DayOf(WallAt(from))
           n == Weeks * DaysPerWeek
<1>1. a \in Int /\ b \in Int /\ c \in Int /\ a \in Offsets /\ b \in Offsets
  BY ClockAssumption DEF Zone
<1>2. d * Day \in Int /\ Day \in Nat /\ StartClock \in Int
      /\ 0 <= StartClock /\ StartClock < Day
  BY ClockAssumption
<1>3. w \in Int /\ w = d * Day + StartClock
  BY <1>2 DEF StartsOn
<1>4. WallAt(from) = from + (IF from < c THEN b ELSE a) /\ WallAt(from) \in Int
  BY <1>1 DEF WallAt, OffsetAt
<1>5. w = t + (IF t < c THEN b ELSE a)
  BY DEF WallAt, OffsetAt
<1>6. from < c /\ ~(t < c) => w - b >= c \/ w - b = t
  <2> SUFFICES ASSUME w - b < c PROVE w - b = t
    BY <1>1, <1>3
  <2>1. WallAt(w - b) = w
    BY <1>1, <1>3 DEF WallAt, OffsetAt
  <2> QED
    BY <1>1, <2>1
<1>7. WallAt(from) < w
  BY <1>1, <1>3, <1>4, <1>5, <1>6
<1>8. n \in Nat /\ LookBack \in Nat /\ LookBack = n * Day
  BY WalkIsWhole
<1>9. w <= WallAt(from) + LookBack + 2 * Day
  <2>1. a - b <= 2 * Day
    BY <1>1, OffsetsAreNear
  <2> QED
    BY <1>1, <1>2, <1>3, <1>4, <1>5, <1>8, <2>1
<1>10. /\ first \in Int
       /\ first * Day <= WallAt(from)
       /\ WallAt(from) < first * Day + Day
  BY <1>4, DayOfWall
<1>11. first * Day \in Int /\ n * Day \in Int
  BY <1>2, <1>8, <1>10
<1> HIDE DEF w, first, n
<1>12. first < d + 1
  <2>1. first * Day < d * Day + 1 * Day
    BY <1>2, <1>3, <1>4, <1>7, <1>10, <1>11
  <2> QED
    BY <1>10, <2>1, DaysLater
<1>13. d < first + (n + 3)
  <2>1. (n + 3) * Day = n * Day + 3 * Day
    BY <1>2, <1>8
  <2>2. d * Day < first * Day + (n + 3) * Day
    BY <1>2, <1>3, <1>4, <1>8, <1>9, <1>10, <1>11, <2>1
  <2>3. n + 3 \in Int
    BY <1>8
  <2> QED
    BY <1>10, <2>2, <2>3, DaysLater
<1>14. d \in first .. (first + n + 2)
  BY <1>8, <1>10, <1>12, <1>13
<1> QED
  BY <1>14, WalkIsWhole DEF DaysWalked, first, n

\* Whatever instant shows a wall time, the one the conversion gives shows it
\* too, and is one offset away from it.
LEMMA ConversionShows ==
  ASSUME zone \in Zone, NEW w \in Int, NEW t \in Int, WallAt(t) = w
  PROVE  \E f \in Offsets : f \in Int /\ ZonedTimeToUtc(w) = w - f
                              /\ WallAt(w - f) = w
<1>1. OffsetAt(w) \in Int /\ w - OffsetAt(w) \in Int
  BY OffsetIsOffset
<1>2. OffsetAt(w - OffsetAt(w)) \in Offsets /\ OffsetAt(w - OffsetAt(w)) \in Int
  BY <1>1, OffsetIsOffset
<1>3. ZonedTimeToUtc(w) = w - OffsetAt(w - OffsetAt(w))
  BY DEF ZonedTimeToUtc
<1> QED
  BY <1>2, <1>3, Settled

\* No change of offset drops a week from the report, or moves it off the wall
\* time of its slot where the clock shows that time at all.
THEOREM EveryWeekIsReported == OccSpec => []NoWeekDropped
<1> DEFINE Shown(d) ==
      {StartsOn(d) - off :
         off \in {o \in Offsets : WallAt(StartsOn(d) - o) = StartsOn(d)}}
<1>1. ASSUME OpenedRows, NEW d \in NearbyDays, IsLectureDay(d)
      PROVE  /\ d \in Int /\ StartsOn(d) \in Int /\ zone \in Zone
             /\ now \in Nat /\ LookBack \in Nat
  BY <1>1, ClockAssumption, WalkIsWhole DEF NearbyDays, StartsOn, OpenedRows
<1>2. ASSUME OpenedRows, NEW d \in NearbyDays, IsLectureDay(d),
             NEW t \in Past, Shown(d) = {t}
      PROVE  t \in PastOccurrences
  <2>1. /\ d \in Int /\ StartsOn(d) \in Int /\ zone \in Zone
        /\ now \in Nat /\ LookBack \in Nat
    BY <1>1, <1>2
  <2>2. t \in Int /\ now - LookBack \in Int /\ now - LookBack < t /\ t <= now
    BY <1>2, <2>1 DEF Past
  <2>3. \A f \in Offsets : WallAt(StartsOn(d) - f) = StartsOn(d)
                             => StartsOn(d) - f \in Shown(d)
    OBVIOUS
  <2>4. \A f \in Offsets : WallAt(StartsOn(d) - f) = StartsOn(d)
                             => StartsOn(d) - f = t
    BY <1>2, <2>3
  <2>5. WallAt(t) = StartsOn(d)
    <3>1. t \in Shown(d)
      BY <1>2
    <3> QED
      BY <3>1
  <2>6. Occurrence(d) = t
    BY <2>1, <2>2, <2>4, <2>5, ConversionShows DEF Occurrence
  <2>7. d \in DaysWalked(now - LookBack, LookBack)
    BY <2>1, <2>2, <2>4, <2>5, OnlyInstantIsWalked
  <2> HIDE DEF Shown
  <2>8. t <= (now - LookBack) + LookBack
    BY <2>1, <2>2
  <2> QED
    BY <1>2, <2>2, <2>6, <2>7, <2>8 DEF PastOccurrences, OccurrencesBetween
<1>3. ASSUME OpenedRows, NEW d \in NearbyDays, IsLectureDay(d), Shown(d) # {}
      PROVE  Occurrence(d) \in Shown(d)
  <2>1. /\ d \in Int /\ StartsOn(d) \in Int /\ zone \in Zone
    BY <1>1, <1>3
  <2>2. PICK o \in Offsets : WallAt(StartsOn(d) - o) = StartsOn(d)
    BY <1>3
  <2>3. o \in Int /\ StartsOn(d) - o \in Int
    BY <2>1, ClockAssumption
  <2>4. PICK f \in Offsets : Occurrence(d) = StartsOn(d) - f
                             /\ WallAt(StartsOn(d) - f) = StartsOn(d)
    BY <2>1, <2>2, <2>3, ConversionShows DEF Occurrence
  <2> QED
    BY <2>4
<1>4. OpenedRows => NoWeekDropped
  BY <1>2, <1>3 DEF NoWeekDropped
<1> QED
  BY <1>4, OpenedRowsKept, PTL


\* Any sessions there are have an earliest among them.  Every one was opened at
\* the clock of its time, so the newest is never the one to displace it.
EarliestExists ==
  /\ OpenedRows
  /\ \A x \in opened : x.startTime <= now
  /\ \A some \in SUBSET opened :
       some # {} => \E x \in some : \A y \in some : x.startTime <= y.startTime

LEMMA EarliestInit ==
  ASSUME OccInit PROVE EarliestExists
BY DEF OccInit, EarliestExists, OpenedRows

LEMMA EarliestOpen ==
  ASSUME EarliestExists, OpenSession PROVE EarliestExists'
<1> DEFINE new == [startTime |-> now, status |-> "ACTIVE"]
<1>1. opened' = opened \union {new} /\ now' = now /\ new.startTime = now
      /\ now \in Nat /\ zone' = zone
  BY DEF OpenSession, EarliestExists, OpenedRows
<1>2. new \in SessionOf
  BY <1>1 DEF SessionOf
<1>3. \A x \in opened' : x.startTime <= now'
  BY <1>1 DEF EarliestExists
<1>4. ASSUME NEW some \in SUBSET opened', some # {}
      PROVE  \E x \in some : \A y \in some : x.startTime <= y.startTime
  <2>1. CASE some \ {new} = {}
    <3>1. some = {new}
      BY <1>4, <2>1
    <3> QED
      BY <1>1, <3>1
  <2>2. CASE some \ {new} # {}
    <3>1. some \ {new} \in SUBSET opened
      BY <1>1, <1>4
    <3>2. PICK x \in some \ {new} :
            \A y \in some \ {new} : x.startTime <= y.startTime
      BY <2>2, <3>1 DEF EarliestExists
    <3>3. x.startTime <= new.startTime
      BY <1>1, <3>1, <3>2 DEF EarliestExists
    <3> HIDE DEF new
    <3> QED
      BY <3>2, <3>3
  <2> QED
    BY <2>1, <2>2
<1>5. OpenedRows'
  BY <1>1, <1>2 DEF EarliestExists, OpenedRows
<1> QED
  BY <1>3, <1>4, <1>5 DEF EarliestExists

\* Closing a session leaves its opening alone.
LEMMA EarliestClose ==
  ASSUME EarliestExists, CloseOpened PROVE EarliestExists'
<1>1. PICK x \in opened :
        opened' = (opened \ {x}) \union {[x EXCEPT !.status = "CLOSED"]}
  BY DEF CloseOpened
<1>2. UNCHANGED <<now, zone>>
  BY DEF CloseOpened
<1>3. PICK new \in SessionOf :
        new = [x EXCEPT !.status = "CLOSED"] /\ new.startTime = x.startTime
  <2> DEFINE w == [x EXCEPT !.status = "CLOSED"]
  <2>1. w \in SessionOf /\ w.startTime = x.startTime
    BY DEF EarliestExists, OpenedRows, SessionOf
  <2> QED
    BY <2>1
<1>4. opened' = (opened \ {x}) \union {new}
  BY <1>1, <1>3
<1>5. OpenedRows' /\ \A y \in opened' : y.startTime <= now'
  BY <1>2, <1>3, <1>4 DEF EarliestExists, OpenedRows
<1>6. ASSUME NEW some \in SUBSET opened', some # {}
      PROVE  \E y \in some : \A z \in some : y.startTime <= z.startTime
  <2>1. CASE new \notin some
    <3>1. some \in SUBSET opened
      BY <1>4, <1>6, <2>1
    <3> QED
      BY <1>6, <3>1 DEF EarliestExists
  <2>2. CASE new \in some
    <3> DEFINE before == (some \ {new}) \union {x}
    <3>1. before \in SUBSET opened /\ before # {}
      BY <1>4, <1>6
    <3>2. PICK y \in before : \A z \in before : y.startTime <= z.startTime
      BY <3>1 DEF EarliestExists
    <3>3. \A z \in some : y.startTime <= z.startTime
      BY <1>3, <3>2
    <3>4. CASE y = x
      BY <1>3, <2>2, <3>3, <3>4
    <3>5. CASE y # x
      BY <3>2, <3>3, <3>5
    <3> QED
      BY <3>4, <3>5
  <2> QED
    BY <2>1, <2>2
<1> QED
  BY <1>5, <1>6 DEF EarliestExists

LEMMA EarliestIsKept == OccSpec => []EarliestExists
<1>1. EarliestExists /\ [OccNext]_occVars => EarliestExists'
  <2> SUFFICES ASSUME EarliestExists, [OccNext]_occVars PROVE EarliestExists'
    OBVIOUS
  <2>1. CASE OccTick
    BY <2>1 DEF OccTick, EarliestExists, OpenedRows, SessionOf
  <2>2. CASE UNCHANGED occVars
    BY <2>2 DEF occVars, EarliestExists, OpenedRows
  <2> QED
    BY <2>1, <2>2, EarliestOpen, EarliestClose DEF OccNext
<1> QED
  BY <1>1, EarliestInit, PTL DEF OccSpec

\* The session a report shows for an occurrence is one of its matches.
LEMMA MatchIsMatch ==
  ASSUME EarliestExists, NEW o, Matches(o) # {}
  PROVE  MatchOf(o) \in Matches(o)
<1>1. Matches(o) \in SUBSET opened
  BY DEF Matches, Fetched
<1>2. \E x \in Matches(o) : \A y \in Matches(o) : x.startTime <= y.startTime
  BY <1>1 DEF EarliestExists
<1> QED
  BY <1>2 DEF MatchOf

\* A past occurrence is the occurrence of a lecture day.
LEMMA PastIsOfADay ==
  ASSUME NEW o \in PastOccurrences
  PROVE  \E d \in Int : IsLectureDay(d) /\ o = Occurrence(d)
BY DEF PastOccurrences, OccurrencesBetween, DaysWalked

\* Only a missing match is reported as nothing recorded.
LEMMA NothingRecorded ==
  ASSUME NEW o PROVE (Report(o) = "NOT_RECORDED") <=> (Matches(o) = {})
<1>1. ASSUME NEW status, NEW start, NEW slot, NEW t
      PROVE  SessionState(status, start, slot, t) # "NOT_RECORDED"
  BY DEF SessionState
<1> QED
  BY <1>1 DEF Report

\* The report speaks of the right week, for every calendar as long as
\* WeekIsLong asks.
THEOREM ReportsTheirOwnWeek == OccSpec => []ReportSpeaksOfItsWeek
<1>1. ASSUME EarliestExists, NEW o \in PastOccurrences, Matches(o) # {}
      PROVE  /\ MatchOf(o) \in Fetched /\ MatchOf(o).startTime \in Nat
             /\ BelongsToOccurrence(MatchOf(o).startTime, o)
  <2>1. MatchOf(o) \in Matches(o)
    BY <1>1, MatchIsMatch
  <2> QED
    BY <1>1, <2>1 DEF Matches, Fetched, EarliestExists, OpenedRows, SessionOf
<1>2. ASSUME EarliestExists, NEW o \in PastOccurrences,
             NEW other \in PastOccurrences, o # other,
             Matches(o) # {}, Matches(other) # {}, MatchOf(other) = MatchOf(o)
      PROVE  FALSE
  <2>1. PICK d \in Int : IsLectureDay(d) /\ o = Occurrence(d)
    BY PastIsOfADay
  <2>2. PICK e \in Int : IsLectureDay(e) /\ other = Occurrence(e)
    BY PastIsOfADay
  <2>3. PICK t \in Nat : /\ t = MatchOf(o).startTime
                         /\ BelongsToOccurrence(t, o)
                         /\ BelongsToOccurrence(t, other)
    <3>1. /\ MatchOf(o).startTime \in Nat
          /\ BelongsToOccurrence(MatchOf(o).startTime, o)
      BY <1>1, <1>2
    <3>2. BelongsToOccurrence(MatchOf(other).startTime, other)
      BY <1>1, <1>2
    <3> QED
      BY <1>2, <3>1, <3>2
  <2>4. zone \in Zone
    BY <1>2 DEF EarliestExists, OpenedRows
  <2>5. OpenLate \in Nat /\ t - t = 0
    BY <2>3, WindowAssumption
  <2>6. CASE d < e
    BY <2>1, <2>2, <2>3, <2>4, <2>5, <2>6, BelongingIsApart
  <2>7. CASE e < d
    BY <2>1, <2>2, <2>3, <2>4, <2>5, <2>7, BelongingIsApart
  <2> QED
    BY <1>2, <2>1, <2>2, <2>6, <2>7
<1>3. ASSUME EarliestExists, NEW o \in PastOccurrences,
             o - OpenEarly >= now - LookBack,
             NEW x \in opened, x.startTime < now,
             BelongsToOccurrence(x.startTime, o)
      PROVE  Matches(o) # {}
  <2>1. PICK d \in Int : IsLectureDay(d) /\ o = Occurrence(d)
    BY PastIsOfADay
  <2>2. o \in Int
    <3>1. StartsOn(d) \in Int /\ zone \in Zone
      BY <1>3, ClockAssumption DEF StartsOn, EarliestExists, OpenedRows
    <3>2. OffsetAt(StartsOn(d)) \in Int /\ StartsOn(d) - OffsetAt(StartsOn(d)) \in Int
      BY <3>1, OffsetIsOffset
    <3> QED
      BY <2>1, <3>1, <3>2, OffsetIsOffset DEF Occurrence, ZonedTimeToUtc
  <2>3. x.startTime \in Nat /\ now \in Nat /\ LookBack \in Nat /\ OpenEarly \in Nat
    BY <1>3, WalkIsWhole, WindowAssumption DEF EarliestExists, OpenedRows, SessionOf
  <2>4. now - LookBack <= x.startTime
    BY <1>3, <2>2, <2>3 DEF BelongsToOccurrence
  <2> QED
    BY <1>3, <2>4 DEF Matches, Fetched
<1>4. EarliestExists => ReportSpeaksOfItsWeek
  <2> SUFFICES ASSUME EarliestExists, NEW o \in PastOccurrences
               PROVE  /\ Matches(o) # {} =>
                           /\ BelongsToOccurrence(MatchOf(o).startTime, o)
                           /\ \A other \in PastOccurrences \ {o} :
                                Matches(other) # {} => MatchOf(other) # MatchOf(o)
                      /\ (/\ o - OpenEarly >= now - LookBack
                          /\ \E x \in opened :
                               /\ x.startTime < now
                               /\ BelongsToOccurrence(x.startTime, o))
                         => Matches(o) # {}
    BY NothingRecorded DEF ReportSpeaksOfItsWeek
  <2> QED
    BY <1>1, <1>2, <1>3
<1> QED
  BY <1>4, EarliestIsKept, PTL
=============================================================================
