SPECIFICATION GateSpec
CONSTANTS
  Tenants = {a, b}
  Tools = {"memory_write", "memory_delete", "memory_stats"}
  Operators = {"operator"}
  TTL = 0
  Limits = {1}
  MaxRequests = 3
  MaxTime = 1
  Plans = {"free", "enterprise"}
  EnvPlan = "free"
  CallsPerDay <- OneCall
  WritesPerDay <- OneCall
  MaxDays = 1
  GlobalAllow = {"memory_write", "memory_delete"}
  FailClosed = TRUE
  MaxCalls = 3
  MaxChanges = 1
SYMMETRY TenantSymmetry
INVARIANTS ClaimsMatchAudit QueueMatchesAudit UsageMatchesAudit QuotaIsExact VerdictsAreInTime
PROPERTY ImplementsDesk
CHECK_DEADLOCK FALSE
