SPECIFICATION Spec
CONSTANTS
  Students = {s1}
  Staff = {u1, u2}
  Lectures = {l1}
  SessionIds = {x1, x2}
  Workers = {w1}
  Slots <- Fixed
  AllowUnlinked = TRUE
  Openable = {l1}
  TokenLife = 1
  BatchSize = 2
  Movers = {}
  MaxTime = 1
  LastOpening = 0
  MaxEdits = 0
  MaxFailures = 0
  DefaultSession = 1
  StaleGrace = 1
  LateAfter = 0
  OpenEarly = 1
  OpenLate = 4
  NoLecture = NoLecture
  NoSession = NoSession
SYMMETRY Symmetry
INVARIANTS
  NeverAbsentAfterAttendingSibling
