SPECIFICATION Spec
CONSTANTS
  Tenants = {"t"}
  Keys = {"long", "short"}
  LongKeys = {"long"}
  NoKey = "none"
  KeyId <- FirstEight
  Clients <- SomeClients
  Rpm = 1
  Jumps = {30}
  MaxTime = 30
  MaxBack = 1
  MaxRequests = 3
  TTL = 30
  MaxApprovals = 1
  MaxInFlight = 2
  MaxRestarts = 1
  Roots = 2
  Dirs = 2
  Unknown = 0
  Names = {"planning", "mine"}
  Builtin = {"planning"}
  ServedDisks <- EmptyDisk
INVARIANTS RateIsBounded StartedSkillsAreServed AnswersStayTrue
CHECK_DEADLOCK FALSE
