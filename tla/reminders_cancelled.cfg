SPECIFICATION Spec
CONSTANTS
  Workers = {w1}
  Staff = {a1}
  Lectures = {algebra}
  Rules = {student}
  Lead <- OneLead
  Starts = {2}
  Horizon = 3
  LockTimeout = 1
  StaleAfter = 2
  MaxAttempts = 2
  BatchSize = 1
  Generators = {w1}
  PassLimit = 1
  MaxTime = 4
  MaxEdits = 1
  MaxFailures = 0
  NoWorker = NoWorker
  Forgotten = Forgotten
  Nothing = Nothing
INVARIANTS
  NoCallToCancelledLecture
