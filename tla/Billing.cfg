SPECIFICATION FairBillingSpec
CONSTANTS
  Tenants = {a, b}
  Plans = {"free", "pro", "enterprise"}
  EnvPlan = "free"
  CallsPerDay <- OneFreeCall
  MaxDays = 0
  PaidPlans = {"pro", "enterprise"}
  Pro = "pro"
  Live = TRUE
  Slots = {1, 2}
  Api = Api
  Nobody = Nobody
  NoPlan = NoPlan
  MaxEvents = 2
  MaxCalls = 1
  MaxFaults = 2
INVARIANTS EntitlementIsLastWritten PlanFollowsEntitlement
PROPERTY EntitlementsArrive
CHECK_DEADLOCK FALSE
