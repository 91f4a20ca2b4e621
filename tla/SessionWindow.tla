---------------------------- MODULE SessionWindow ----------------------------
(***************************************************************************)
(* The arithmetic that decides the lifecycle of an attendance session:     *)
(* when its lecture ends, when a session left open has gone stale, whether *)
(* it may be scanned, and whether two sessions record the same occurrence. *)
(*                                                                         *)
(* Source: backend/src/utils/session-window.ts.  Instants are naturals.    *)
(***************************************************************************)
EXTENDS Integers

CONSTANTS
  DefaultSession,  \* SESSION_DEFAULT_MINUTES, the length of an ad-hoc session
  StaleGrace,      \* SESSION_STALE_GRACE_MINUTES
  LateAfter,       \* ATTENDANCE_LATE_AFTER_MINUTES
  OpenEarly,       \* OCCURRENCE_OPEN_EARLY_MS
  OpenLate         \* OCCURRENCE_OPEN_LATE_MS

ASSUME WindowAssumption ==
  /\ DefaultSession \in Nat \ {0}
  /\ StaleGrace \in Nat
  /\ LateAfter \in Nat
  /\ OpenEarly \in Nat
  /\ OpenLate \in Nat \ {0}

\* The wall clocks of a timetable slot; NoClock is text that is not "HH:MM".
NoClock == -1
Clock == Nat \union {NoClock}
Slot == [start : Clock, end : Clock]

\* "No lecture", for a session opened ad hoc.
NoSlot == [start |-> NoClock, end |-> NoClock]

\* The timetable gives the duration and nothing else; a slot that cannot
\* answer (none, unreadable, not a forward interval) gives the default.
LectureDuration(slot) ==
  IF slot.start # NoClock /\ slot.end # NoClock /\ slot.end > slot.start
    THEN slot.end - slot.start
    ELSE DefaultSession

EndsAt(startTime, slot) == startTime + LectureDuration(slot)

StaleAt(startTime, slot) == EndsAt(startTime, slot) + StaleGrace

\* UPCOMING, IN_PROGRESS and PENDING are derived from the clock, not stored.
SessionState(status, startTime, slot, t) ==
  CASE status = "CLOSED" -> "RECORDED"
    [] status # "CLOSED" /\ t < startTime -> "UPCOMING"
    [] status # "CLOSED" /\ t > EndsAt(startTime, slot) -> "PENDING"
    [] OTHER -> "IN_PROGRESS"

IsScannable(status, startTime, slot, t) ==
  SessionState(status, startTime, slot, t) = "IN_PROGRESS"

IsStale(status, startTime, slot, t) ==
  status = "ACTIVE" /\ t > StaleAt(startTime, slot)

\* Whether a session that opened at startTime is this occurrence's.
BelongsAfterOccurrence(startTime, occurrence) ==  \* mutant: no upper bound
  startTime >= occurrence - OpenEarly
BelongsToOccurrence(startTime, occurrence) ==
  startTime >= occurrence - OpenEarly /\ startTime < occurrence + OpenLate

\* [from, to) around an instant: any session of the same lecture that opened
\* inside it is a session of the same occurrence.
SameOccurrenceWindow(anchor, startTime) ==
  startTime >= anchor - OpenLate /\ startTime < anchor + OpenLate

\* The threshold itself is still PRESENT.
Punctuality(openedAt, scannedAt) ==
  IF scannedAt - openedAt > LateAfter THEN "LATE" ELSE "PRESENT"
=============================================================================
