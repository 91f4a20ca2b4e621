SPECIFICATION CohortsSpec
CONSTANTS
  Pupils = {"s1"}
  Savers = {r1, r2}
  Words = {"a"}
  Semesters = {"first", "2026"}
  ReadsAs <- FirstSemesterOnly
  NoWord = NoWord
INVARIANTS
  RollFollowsTimetable
