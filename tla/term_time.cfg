SPECIFICATION TermTimeSpec
CONSTANTS
  Students = {s1}
  Staff = {u1}
  Lectures = {l1}
  SessionIds = {x1}
  Workers = {w1, w2}
  Slots <- Editable
  AllowUnlinked = TRUE
  Openable = {l1, NoLecture}
  TokenLife = 2
  BatchSize = 1
  Movers = {s1}
  MaxTime = 3
  LastOpening = 0
  MaxEdits = 1
  MaxFailures = 0
  DefaultSession = 1
  StaleGrace = 1
  LateAfter = 0
  OpenEarly = 1
  OpenLate = 4
  NoLecture = NoLecture
  NoSession = NoSession
  r1 = r1
  r2 = r2
  TermIds = {"k1", "k2", "k3"}
  Registrars = {r1, r2}
  Dates = {1, 2}
  Groups = {"A", "B"}
  Learners = {"s1"}
  GroupOf <- FirstCohort
  Lecturers = {"t1"}
  Scores = {1, 2}
  Tasks = {r1, r2}
  Sets <- SomeSets
  Askers = {r1, r2}
  Addresses = {"e1"}
  RequireTicket = TRUE
  MaxAttempts = 1
  PerHour = 1
  Cooldown = 1
  Ttl = 1
  Hour = 1
  LastMinute = 1
  MaxCodes = 3
SYMMETRY Interchangeable
INVARIANTS
  TypeOK
  NoAbsenceWhileOpen
  AutoCloseIsHonest
  OnceLawful
  NothingUnproven
  ThrottleHolds
  GuessesAreBounded
PROPERTIES
  ManualCloseStands
  LateIsDeserved
  RowsAreFinal
  ScanFromTheRoom
  CurrentTermHandsOver
  NeverForEverybodyByAccident
  RetiredStaysRetired
