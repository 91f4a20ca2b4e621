SPECIFICATION PortalSpec
CONSTANTS
  Students = {}
  Staff = {u1}
  Lectures = {l1}
  SessionIds = {x1, x2}
  Workers = {w1}
  Slots <- Fixed
  AllowUnlinked = TRUE
  Openable = {l1, NoLecture}
  TokenLife = 1
  BatchSize = 1
  Movers = {}
  MaxTime = 3
  LastOpening = 0
  MaxEdits = 0
  MaxFailures = 2
  DefaultSession = 1
  StaleGrace = 1
  LateAfter = 0
  OpenEarly = 1
  OpenLate = 4
  NoLecture = NoLecture
  NoSession = NoSession
  Members = {"owner", "admin", "dean", "ins", "stu"}
  Post <- TheirPosts
  Universities = {"here", "there"}
  Here = "here"
  Departments = {"ours", "theirs"}
  Ours = "ours"
  NoDepartment = NoDepartment
  sa = sa
  sb = sb
  OurCohorts = {sa, sb}
  NoSection = NoSection
  HangsOff = {"ins"}
  MaxChanges = 3
CHECK_DEADLOCK FALSE
INVARIANTS
  OneSessionPerOccurrence
  ListedOpens
PROPERTIES
  ForgottenSessionSettles
  ClosedSessionSettles
