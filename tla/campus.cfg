SPECIFICATION CampusSpec
CONSTANTS
  r1 = r1
  r2 = r2
  c1 = c1
  c2 = c2
  o1 = o1
  o2 = o2
  s1 = s1
  s2 = s2
  People = {o1, o2, s1, s2}
  Role <- TheirRoles
  Registered = {o1, o2, s1}
  FirstAddress <- TheirAddresses
  Emails = {"a1", "a2", "a3", "a4", "a5"}
  Identities = {i1, i2}
  Clerks = {r1, r2}
  Historied = {o1}
  Edits <- SomeEdits
  NoOne = NoOne
  NoEmail = NoEmail
  NoIdentity = NoIdentity
  t1 = t1
  t2 = t2
  ra = ra
  rb = rb
  Lectures = {"l1", "l2"}
  Teachers = {t1, t2}
  Rooms = {ra, rb}
  Times = {1, 2, 3}
  Planners = {r1, r2}
  Drafts <- SomeDrafts
  FirstWeeks <- TwoWeeks
  MaxSaves = 2
  NoTeacher = NoTeacher
  NoRoom = NoRoom
  Pupils = {"s1"}
  Savers = {r1, r2}
  Words = {"a"}
  Semesters = {"first", "2026"}
  ReadsAs <- FirstSemesterOnly
  NoWord = NoWord
  Visitors = {"w1", "w2"}
  Calls = {c1, c2}
  Builds = {TRUE, FALSE}
  MaxTokens = 3
  Runs = {r1, r2}
  DemoAccounts <- TwoDemos
  SeedIdentities = {"d1", "d2", "d3"}
  NoSeedIdentity = NoSeedIdentity
  MaxStarts = 2
  MaxMishaps = 2
  DefaultSession = 2
  StaleGrace = 1
  LateAfter = 0
  OpenEarly = 2
  OpenLate = 4
  Offsets <- WinterAndSummer
  Changes <- Around
  Day = 4
  DaysPerWeek = 3
  Weekday = 1
  StartClock = 1
  LectureSlot <- TwoTickSlot
  Weeks = 1
  MaxTime = 17
  pa = pa
  Students = {pa}
  x1 = x1
  x2 = x2
  SessionIds = {x1, x2}
  Items = {"e1"}
  Texts = {1, 2}
  Filters = {"all", "off"}
  MaxWrites = 3
CHECK_DEADLOCK FALSE
SYMMETRY Interchangeable
INVARIANTS
  AddressFromTheProvider
  NoIdentityAbandoned
  ClashesOnlyFromRaces
  NobodyRolledOutside
  ShownIsTheirs
  SeedsMakeTheDemo
  TwoPassesSettleNear
  NoWeekDropped
  OccurrencesKeptApart
  ReportSpeaksOfItsWeek
  FiguresAddUp
PROPERTIES
  OwnersFallOnlyToARace
  UntouchedFieldsStand
