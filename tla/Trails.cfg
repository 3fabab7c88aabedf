SPECIFICATION FairSpec
CONSTANTS
  Nobody = Nobody
  Tenants = {a}
  Procs = {"p", "q"}
  Environment <- TwoModes
  Tools = {"sandbox_exec", "memory_write"}
  Privileged = {"sandbox_exec"}
  MaxCalls = 2
  MaxErrors = 1
  MaxCrashes = 1
  MaxDays = 1
INVARIANTS NothingIsOvercounted DoneIsDurable ChargesAreOnTrail ClaimsVerify
PROPERTY EventsBecomeDurable
CHECK_DEADLOCK FALSE
