------------------------------- MODULE Quota -------------------------------
(***************************************************************************)
(* The in-process part of BillingService and UsageMeter                    *)
(* (src/src/yodmcp/monetization/billing.py, metering.py): one plan and one *)
(* current tenant for the whole process, and one counter per tenant and    *)
(* day.  All of it is synchronous.  Of the three metrics with a limit only *)
(* tool_call is ever recorded, by the tool gate.                           *)
(***************************************************************************)
EXTENDS Integers, Tenancy

CONSTANTS
  Plans,          \* ids of PLANS
  EnvPlan,        \* YODMCP_PLAN: the plan of a new process
  CallsPerDay,    \* tool_calls_per_day of each plan, negative for no limit
  MaxDays         \* bound: days

ASSUME PlanAssumption == EnvPlan \in Plans /\ CallsPerDay \in [Plans -> Int]
ASSUME DaysAssumption == MaxDays \in Nat

VARIABLES
  plan,     \* billing.plan
  bound,    \* billing.tenant_id
  counts,   \* counts[t]: _counts[t]["tool_call"] under the key of today
  day       \* the day of time.gmtime()

quotaVars == <<plan, bound, counts, day>>

QuotaInit == /\ plan = EnvPlan
             /\ bound \in Tenants
             /\ counts = [t \in Tenants |-> 0]
             /\ day = 0

\* Mutant of Charged: the quota is checked before the tenant is bound.
ChargedStale(t) == bound

\* The tenant whose quota a call of tenant t uses: the gate binds t first.
Charged(t) == t

\* check_quota("tool_call"): a plan change takes effect at once, whatever was
\* used before.
Exhausted(t) == CallsPerDay[plan] \in 0 .. counts[Charged(t)]

\* record_and_check(): a call within the quota is counted, another is not.
RecordAndCheck(t) ==
  /\ bound' = t
  /\ counts' = IF Exhausted(t) THEN counts ELSE [counts EXCEPT ![Charged(t)] = @ + 1]
  /\ UNCHANGED <<plan, day>>

\* What /api/billing/status ends with, for the caller t and the plan in force.
Refreshed(t, p) == bound' = t /\ plan' = p /\ UNCHANGED <<counts, day>>

\* A new day has a new key: no call is counted under it yet.
NewDay == /\ day < MaxDays
          /\ day' = day + 1
          /\ counts' = [t \in Tenants |-> 0]
          /\ UNCHANGED <<plan, bound>>
=============================================================================
