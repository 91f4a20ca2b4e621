SPECIFICATION CodesSpec
CONSTANTS
  Addresses = {"e1"}
  Askers = {r1, r2}
  RequireTicket = TRUE
  MaxAttempts = 1
  PerHour = 1
  Cooldown = 1
  Ttl = 2
  Hour = 3
  LastMinute = 1
  MaxCodes = 2
CHECK_DEADLOCK FALSE
INVARIANTS
  ALimitHolds
