------------------------------ MODULE ToolGate ------------------------------
(***************************************************************************)
(* A call of an MCP tool: _gated() of src/src/yodmcp/tools/gate.py and the *)
(* test of its decision in src/src/yodmcp/tools/register.py, composed with *)
(* the policy engine, the HITL queue, the attestation claims, the audit    *)
(* trail and the quota of one process.  _gated() is synchronous: a call is *)
(* one step.  Arguments are valid or not; reasons are kinds of reasons.    *)
(***************************************************************************)
EXTENDS HitlQueue, Quota, Sequences

CONSTANTS
  GlobalAllow,    \* YODMCP_TOOL_ALLOWLIST
  FailClosed,     \* YODMCP_HITL_FAIL_CLOSED
  WritesPerDay,   \* memory_writes_per_day of each plan
  MaxCalls,       \* bound: tool calls
  MaxChanges      \* bound: changes of policy or plan

ASSUME GateAssumption == /\ GlobalAllow \subseteq Tools /\ FailClosed \in BOOLEAN
                         /\ WritesPerDay \in [Plans -> Int]
                         /\ MaxCalls \in Nat /\ MaxChanges \in Nat

VARIABLES
  blocked,  \* policy._blocked
  deny,     \* policy._tenant_deny; an absent key is an empty set
  allow,    \* policy._tenant_allow: a function from the tenants with a list
  claims,   \* attestation._claims
  audit,    \* audit._events
  replies,  \* what the caller of the i-th audited call got: the final decision,
            \* whether the body of the tool ran, and the plan it was checked with
  changes   \* policy and plan changes so far

policyVars == <<blocked, deny, allow>>
trailVars == <<claims, audit, replies>>
gateVars == <<hitlVars, quotaVars, policyVars, trailVars, changes>>

HighTiers == {"code_exec", "destructive", "high_privilege"}
Tiers == HighTiers \cup {"read", "write", "network"}

\* _tool_risk of the registered tools.
Tier(tool) ==
  CASE tool \in {"memory_delete", "tasks_cancel", "plan_cache_delete"} -> "destructive"
    [] tool \in {"memory_write", "memory_consolidate", "tasks_create", "tasks_update",
                 "plan_cache_put"} -> "write"
    [] OTHER -> "read"

\* Tools whose _gated() arguments are not always empty.
WithArguments == {"memory_write", "memory_read", "memory_delete", "discover_capabilities",
                  "tasks_create", "tasks_get", "tasks_list", "tasks_update", "tasks_cancel"}

\* Tools that do not look at the decision.
Unchecked == {"memory_stats", "discover_capabilities", "tasks_stats", "skills_list",
              "a2a_card", "cache_stats", "audit_recent", "attestation_recent"}

GateInit ==
  /\ HitlInit /\ QuotaInit
  /\ blocked = {} /\ deny = [t \in Tenants |-> {}] /\ allow = [t \in {} |-> {}]
  /\ claims = << >> /\ audit = << >> /\ replies = << >>
  /\ changes = 0
-----------------------------------------------------------------------------
Listed(t, tool) ==
  /\ tool \notin deny[t]
  /\ t \in DOMAIN allow => tool \in allow[t]
  /\ GlobalAllow # {} => tool \in GlobalAllow

\* evaluate_tool_call(): the kind of the reason and the risk tier.
Evaluate(t, tool) ==
  IF tool \in blocked THEN [reason |-> "blocked", tier |-> "high_privilege"]
  ELSE IF ~Listed(t, tool) THEN [reason |-> "unlisted", tier |-> "high_privilege"]
  ELSE [reason |-> IF Tier(tool) \in HighTiers THEN "high_risk" ELSE "allow",
        tier |-> Tier(tool)]

Invalid == [reason |-> "invalid", tier |-> "write"]

Allowed(d) == d.reason \in {"high_risk", "allow"}
RequiresHitl(d) == d.reason \in {"blocked", "high_risk"}

\* Mutant of Claimed: only calls that need approval get a claim.
ClaimedAsked(d) == RequiresHitl(d)

Claimed(d) == RequiresHitl(d) \/ d.tier \in HighTiers

Attest(tool, d) ==
  claims' = IF Claimed(d) THEN Append(claims, [tool |-> tool, tier |-> d.tier]) ELSE claims

\* Mutant of Ask: a request is queued for the calls that are allowed only.
AskAllowed(t, tool, d) ==
  IF d.reason = "high_risk" THEN Enqueue(t, tool) ELSE UNCHANGED items

Ask(t, tool, d) == IF RequiresHitl(d) THEN Enqueue(t, tool) ELSE UNCHANGED items

\* The event names the claim of the call and, through the reason that the
\* fail-closed mode rewrites, its HITL request.
Record(t, tool, d) ==
  audit' = Append(audit,
    [tenant |-> t, tool |-> tool, reason |-> d.reason, tier |-> d.tier, day |-> day,
     outcome |-> IF Allowed(d) THEN "allowed" ELSE "denied",
     claim |-> IF Claimed(d) THEN Len(claims) + 1 ELSE 0,
     request |-> IF RequiresHitl(d) /\ FailClosed THEN NewId ELSE 0])

\* The gate's answer is the policy's, then the quota's.
Reply(t, tool, d) ==
  LET yes == Allowed(d) /\ ~Exhausted(t) IN
  replies' = Append(replies, [allowed |-> yes, ran |-> yes \/ tool \in Unchecked,
                              plan |-> plan])

\* A tool call: validation, policy, claim, HITL request, audit, quota, body.
Call(t, tool, valid) ==
  LET d == IF valid THEN Evaluate(t, tool) ELSE Invalid IN
  /\ Len(audit) < MaxCalls
  /\ valid \/ tool \in WithArguments
  /\ Attest(tool, d)
  /\ Ask(t, tool, d)
  /\ Record(t, tool, d)
  /\ IF Allowed(d) THEN RecordAndCheck(t) ELSE UNCHANGED quotaVars
  /\ Reply(t, tool, d)
  /\ UNCHANGED <<now, policyVars, changes>>

Change == /\ changes < MaxChanges /\ changes' = changes + 1
          /\ UNCHANGED <<hitlVars, trailVars>>

BlockTool(tool) == /\ Change /\ blocked' = blocked \cup {tool}
                   /\ UNCHANGED <<deny, allow, quotaVars>>
UnblockTool(tool) == /\ Change /\ blocked' = blocked \ {tool}
                     /\ UNCHANGED <<deny, allow, quotaVars>>
SetTenantDenylist(t, tools) == /\ Change /\ deny' = [deny EXCEPT ![t] = tools]
                               /\ UNCHANGED <<blocked, allow, quotaVars>>
SetTenantAllowlist(t, tools) ==
  /\ Change
  /\ allow' = [u \in DOMAIN allow \cup {t} |-> IF u = t THEN tools ELSE allow[u]]
  /\ UNCHANGED <<blocked, deny, quotaVars>>
ChangePlan(t, p) == Change /\ Refreshed(t, p) /\ UNCHANGED policyVars

\* The operators' side of the queue, time, and the next day.
Operate == /\ \/ \E r \in Requests : Get(r)
              \/ \E r \in Requests, approve \in BOOLEAN, by \in Operators : Decide(r, approve, by)
              \/ \E t \in Tenants, limit \in Limits : ListPending(t, limit)
              \/ Tick
           /\ UNCHANGED <<quotaVars, policyVars, trailVars, changes>>
Midnight == NewDay /\ UNCHANGED <<hitlVars, policyVars, trailVars, changes>>

GateNext ==
  \/ \E t \in Tenants, tool \in Tools, valid \in BOOLEAN : Call(t, tool, valid)
  \/ \E tool \in Tools : BlockTool(tool) \/ UnblockTool(tool)
  \/ \E t \in Tenants, tools \in SUBSET Tools :
       SetTenantDenylist(t, tools) \/ SetTenantAllowlist(t, tools)
  \/ \E t \in Tenants, p \in Plans : ChangePlan(t, p)
  \/ Operate
  \/ Midnight

GateSpec == GateInit /\ [][GateNext]_gateVars
-----------------------------------------------------------------------------
Calls == DOMAIN audit

Event == [tenant : Tenants, tool : Tools, tier : Tiers, day : Nat,
          reason : {"invalid", "blocked", "unlisted", "high_risk", "allow"},
          outcome : {"allowed", "denied"}, claim : Nat, request : Nat]

GateTypeOK ==
  /\ HitlTypeOK
  /\ plan \in Plans /\ bound \in Tenants /\ counts \in [Tenants -> Nat] /\ day \in Nat
  /\ blocked \subseteq Tools /\ deny \in [Tenants -> SUBSET Tools]
  /\ DOMAIN allow \subseteq Tenants /\ allow \in [DOMAIN allow -> SUBSET Tools]
  /\ claims \in Seq([tool : Tools, tier : Tiers])
  /\ audit \in Seq(Event)
  /\ replies \in Seq([allowed : BOOLEAN, ran : BOOLEAN, plan : Plans])
  /\ Len(replies) = Len(audit)
  /\ changes \in Nat

\* The attestation claims and the audit trail tell one story: every decision of
\* a high risk tier, a refusal included, is attested by one claim of its own,
\* and every claim is that of one audited call to the same tool and tier.
ClaimsMatchAudit ==
  /\ \A i \in Calls : audit[i].tier \in HighTiers <=> audit[i].claim # 0
  /\ \A i \in Calls : audit[i].claim # 0 =>
       /\ audit[i].claim \in DOMAIN claims
       /\ claims[audit[i].claim] = [tool |-> audit[i].tool, tier |-> audit[i].tier]
       /\ \A j \in Calls : audit[j].claim = audit[i].claim => i = j
  /\ \A k \in DOMAIN claims : \E i \in Calls : audit[i].claim = k

AskedBy(t, tool) == {i \in Calls : /\ RequiresHitl(audit[i])
                                   /\ audit[i].tenant = t /\ audit[i].tool = tool}

\* Operators are asked once for every audited call that requires a human, be it
\* blocked or run, and for nothing else; a request named in a reason is one for
\* the tool and the tenant of that call.
QueueMatchesAudit ==
  /\ \A t \in Tenants, tool \in Tools :
       Cardinality({r \in Used : items[r].tenant = t /\ items[r].tool = tool})
         = Cardinality(AskedBy(t, tool))
  /\ \A i \in Calls : audit[i].request # 0 =>
       /\ audit[i].request \in Used
       /\ i \in AskedBy(items[audit[i].request].tenant, items[audit[i].request].tool)

\* The meter charges a tenant for exactly the calls of the day that the gate
\* let pass; and whatever it let pass is in the audit trail as allowed.
UsageMatchesAudit ==
  /\ \A t \in Tenants :
       counts[t] = Cardinality({i \in Calls : /\ replies[i].allowed
                                              /\ audit[i].tenant = t /\ audit[i].day = day})
  /\ \A i \in Calls : replies[i].allowed => audit[i].outcome = "allowed"

\* The quota is exact: a call the policy allows is turned away if and only if
\* as many calls of its tenant were let pass that day before it as the plan in
\* force allows, whatever other tenants, refusals and plan changes lie between.
PassedBefore(i) == {j \in Calls : /\ j < i /\ replies[j].allowed
                                  /\ audit[j].tenant = audit[i].tenant
                                  /\ audit[j].day = audit[i].day}
QuotaIsExact ==
  \A i \in Calls : audit[i].outcome = "allowed" =>
    (~replies[i].allowed <=>
       CallsPerDay[replies[i].plan] \in 0 .. Cardinality(PassedBefore(i)))
-----------------------------------------------------------------------------
\* audit_recent shows "what the kernel just decided", with its outcome: a call
\* reported as allowed was let pass.
AuditTellsTheOutcome ==
  \A i \in Calls : audit[i].outcome = "allowed" => replies[i].allowed

\* "tenant_id -> allowed tool names (empty = use default rules)": an empty list
\* keeps no tool from its tenant.
EmptyAllowlistIsNoRule ==
  \A t \in DOMAIN allow : allow[t] = {} =>
    \A tool \in Tools \ (blocked \cup deny[t]) :
      (GlobalAllow # {} /\ tool \notin GlobalAllow) \/ Allowed(Evaluate(t, tool))

\* "Fail-closed when YODMCP_HITL_FAIL_CLOSED=true and no approval within TTL": a
\* call that waits for an approval has not run before it is given.
FailClosedWaits ==
  \A i \in Calls : audit[i].request # 0 /\ replies[i].ran =>
    audit[i].request \in Used /\ items[audit[i].request].status = "approved"

\* recent() of the audit trail and of the claims: list[-limit:], which for limit 0
\* is the whole list.  What it shows, as positions in the list.
Recent(list, limit) ==
  LET first == IF limit = 0 \/ limit > Len(list) THEN 1 ELSE Len(list) - limit + 1
  IN [i \in 1 .. (Len(list) - first + 1) |-> first + i - 1]

\* audit_recent returns "the newest ... audit events ..., newest first".
RecentIsNewestFirst ==
  \A limit \in 0 .. MaxCalls :
    LET shown == Recent(audit, limit) IN
    \A i, j \in DOMAIN shown : i < j => shown[i] > shown[j]

\* "limit caps the list": no more events are shown than asked for.
LimitCapsTheList == \A limit \in 0 .. MaxCalls : Len(Recent(audit, limit)) <= limit

\* "Auth: tool policy gate." ends the description of every tool: the body of a
\* tool does not run in a call that policy or quota refused.
RefusedToolsDoNotRun == \A i \in Calls : replies[i].ran => replies[i].allowed

\* "UsageMeter for tool_call / memory_write / task_create", "soft quotas enforced
\* in tool gate": a tenant does not get more memory writes a day than its plan has.
WritesWithinQuota ==
  \A t \in Tenants : WritesPerDay[plan] >= 0 =>
    Cardinality({i \in Calls : /\ audit[i].tool = "memory_write" /\ replies[i].ran
                               /\ audit[i].tenant = t /\ audit[i].day = day})
      <= WritesPerDay[plan]
=============================================================================
