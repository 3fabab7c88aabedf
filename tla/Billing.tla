------------------------------ MODULE Billing ------------------------------
(***************************************************************************)
(* The asynchronous part of BillingService and the EntitlementStore        *)
(* (src/src/yodmcp/monetization/billing.py, entitlements.py) in a process  *)
(* that serves the API and the tools: Stripe webhooks, the billing status, *)
(* checkout, and the quota of tool calls (Quota) with the plan they set.   *)
(*                                                                         *)
(* The worker thread of the connection executes the statements of all      *)
(* coroutines in the order in which they were awaited, and the event loop  *)
(* resumes them in that order: `queue'.                                    *)
(*                                                                         *)
(* Stripe, which is outside the repository, sends its events in any order, *)
(* several at a time, and repeats one until it is answered with HTTP 200,  *)
(* and sometimes afterwards.  The service keeps neither the id nor the     *)
(* time of an event, and answers 200 to one that it could not read, too.   *)
(***************************************************************************)
EXTENDS Quota, SequencesExt, SqliteFile

CONSTANTS
  PaidPlans,    \* plans with an entry in STRIPE_CATALOG
  Pro,          \* the plan of an event without metadata
  Live,         \* STRIPE_SECRET_KEY is set: checkouts carry metadata
  Slots,        \* coroutines serving the API, numbered
  Api,          \* the store's connection
  NoPlan,       \* no entitlement
  MaxEvents,    \* bound: events of Stripe
  MaxCalls,     \* bound: status requests and tool calls
  MaxFaults     \* bound: statements that raise, restarts, repeats of answered
                \* events, events that cannot be read

ASSUME BillingAssumption ==
  /\ Pro \in PaidPlans /\ PaidPlans \subseteq Plans /\ NoPlan \notin Plans
  /\ Live \in BOOLEAN /\ Api # Nobody /\ Slots \subseteq Nat
  /\ {MaxEvents, MaxCalls, MaxFaults} \subseteq Nat

VARIABLES
  file,         \* the entitlements: plan_id or NoPlan for each tenant
  calls,        \* calls[s]: the request slot s is serving
  queue,        \* the slots waiting for a statement
  events,       \* events[t]: what t bought (a plan) or ended (NoPlan), in order
  answered,     \* the events <<t, i>> that were handled when they were last sent
  refused,      \* the events that were answered without being read
                \* What follows is not in the program:
  wrote,        \* wrote[t]: the event that wrote the row of t last, or NoEvent
  sent, late,   \* sent[t]: the newest event of t that was sent; late: the tenants
                \* that had an older one sent, or sent again, after a newer one
  fresh,        \* the process has found or activated a plan, and no webhook has
                \* failed between its write and its commit since
  served,       \* the tenants the process has been bound to since its start
  started, faults

storeVars == <<file, calls, queue>>
stripeVars == <<events, answered, refused>>
planGhosts == <<fresh, served>>
eventGhosts == <<wrote, sent, late>>
billingVars == <<quotaVars, storeVars, stripeVars, planGhosts, eventGhosts, started, faults>>

Idle == [pc |-> "idle"]
NoEvent == << >>
\* What an event says of its tenant, and what a row does.
Given == PaidPlans \cup {NoPlan}
Rows == [Tenants -> Given]
Webhook == [pc : {"write", "commit"}, tenant : Tenants, plan : Given,
            event : Tenants \X (Nat \ {0})]
Status == [pc : {"select", "fetch"}, tenant : Tenants, row : Plans \cup {NoPlan}]

BillingInit ==
  /\ QuotaInit
  /\ file = NewFile([t \in Tenants |-> NoPlan])
  /\ calls = [s \in Slots |-> Idle] /\ queue = << >>
  /\ events = [t \in Tenants |-> << >>]
  /\ answered = {} /\ refused = {}
  /\ wrote = [t \in Tenants |-> NoEvent]
  /\ sent = [t \in Tenants |-> 0] /\ late = {}
  /\ fresh = FALSE /\ served = {bound}
  /\ started = 0 /\ faults = 0

Bought == SumFunction([t \in Tenants |-> Len(events[t])])
-----------------------------------------------------------------------------
Serves(t) == served' = served \cup {t} /\ UNCHANGED fresh

Happens(t, given) == events' = [events EXCEPT ![t] = Append(@, given)]

\* create_checkout_stub(): a checkout of a paid plan, which is completed or expires.
\* The event of an expired one is like that of a subscription that ends.
Checkout(t, p) ==
  /\ Bought < MaxEvents
  /\ bound' = t /\ Serves(t)
  /\ IF p \in PaidPlans THEN Happens(t, p) \/ Happens(t, NoPlan) ELSE UNCHANGED events
  /\ UNCHANGED <<plan, counts, day, storeVars, answered, refused, eventGhosts, started, faults>>

\* A subscription of the tenant is created, renewed or deleted.
Subscription(t) ==
  /\ Bought < MaxEvents
  /\ \E i \in DOMAIN events[t] : /\ events[t][i] # NoPlan
                                 /\ Happens(t, events[t][i]) \/ Happens(t, NoPlan)
  /\ UNCHANGED <<quotaVars, storeVars, answered, refused, planGhosts, eventGhosts, started, faults>>

\* A tool call: the quota of its tenant under the plan in force.
Gate(t) ==
  /\ started < MaxCalls /\ started' = started + 1
  /\ RecordAndCheck(t) /\ Serves(t)
  /\ UNCHANGED <<storeVars, stripeVars, eventGhosts, faults>>

\* A request takes the first idle slot.
Enter(s, call) == /\ {r \in Slots : r <= s /\ calls[r] = Idle} = {s}
                  /\ calls' = [calls EXCEPT ![s] = call]
                  /\ queue' = Append(queue, s)

\* What event i of t asks for.  One without metadata is taken for plan Pro.
Means(t, i) == IF Live \/ events[t][i] = NoPlan THEN events[t][i] ELSE Pro

\* Event i of t is sent: a repeat of one that was answered is bounded.
Sends(t, i) ==
  /\ <<t, i>> \in answered \cup refused => faults < MaxFaults
  /\ faults' = IF <<t, i>> \in answered \cup refused THEN faults + 1 ELSE faults
  /\ sent' = [sent EXCEPT ![t] = IF i < @ THEN @ ELSE i]
  /\ late' = IF i < sent[t] THEN late \cup {t} ELSE late

\* handle_stripe_webhook() up to its first statement.  An event without metadata is
\* taken for one of the tenant bound last.
Deliver(s, t, i) == Enter(s, [pc |-> "write", event |-> <<t, i>>, plan |-> Means(t, i),
                              tenant |-> IF Live THEN t ELSE bound])

\* Mutant of BeginWebhook: an event that was seen before is refused.
BeginWebhookOnce(s, t, i) ==
  /\ sent[t] < i /\ Sends(t, i) /\ Deliver(s, t, i)
  /\ UNCHANGED <<quotaVars, file, stripeVars, planGhosts, wrote, started>>

BeginWebhook(s, t, i) ==
  /\ Sends(t, i) /\ Deliver(s, t, i)
  /\ UNCHANGED <<quotaVars, file, stripeVars, planGhosts, wrote, started>>

\* The signature or the JSON of an event is not accepted: the answer says so, with
\* HTTP 200, so that Stripe does not send the event again.
RefuseWebhook(t, i) ==
  /\ faults < MaxFaults /\ faults' = faults + 1
  /\ answered' = answered \ {<<t, i>>} /\ refused' = refused \cup {<<t, i>>}
  /\ UNCHANGED <<quotaVars, storeVars, events, planGhosts, eventGhosts, started>>

\* GET /api/billing/status up to its first statement.
BeginStatus(s, t) ==
  /\ started < MaxCalls /\ started' = started + 1
  /\ Enter(s, [pc |-> "select", tenant |-> t, row |-> NoPlan])
  /\ bound' = t /\ Serves(t)
  /\ UNCHANGED <<plan, counts, day, file, stripeVars, eventGhosts, faults>>

\* Slot s is at the head of the queue with a statement of kind pc.
At(s, pc) == queue # << >> /\ s = Head(queue) /\ calls[s].pc = pc

Await(s, call) == /\ calls' = [calls EXCEPT ![s] = call]
                  /\ queue' = Append(Tail(queue), s)

Leave(s) == /\ calls' = [calls EXCEPT ![s] = Idle]
            /\ queue' = Tail(queue)

\* The upsert of activate(), or the DELETE of deactivate().
WriteRow(s) ==
  /\ At(s, "write")
  /\ file' = Written(file, Api, [Seen(file, Api) EXCEPT ![calls[s].tenant] = calls[s].plan])
  /\ wrote' = [wrote EXCEPT ![calls[s].tenant] = calls[s].event]
  /\ Await(s, [calls[s] EXCEPT !.pc = "commit"])
  /\ UNCHANGED <<quotaVars, stripeVars, planGhosts, sent, late, started, faults>>

\* Mutant of CommitRow: the entitlement is not committed.
CommitNothing(s) ==
  /\ At(s, "commit")
  /\ UNCHANGED file
  /\ answered' = answered \cup {calls[s].event}
  /\ IF calls[s].plan # NoPlan /\ calls[s].tenant = bound
     THEN plan' = calls[s].plan /\ fresh' = TRUE
     ELSE UNCHANGED <<plan, fresh>>
  /\ Leave(s)
  /\ UNCHANGED <<bound, counts, day, events, refused, eventGhosts, started, faults, served>>

\* commit(), then the plan of the process if the tenant is still the bound one.
\* A deactivation leaves the plan alone.
CommitRow(s) ==
  /\ At(s, "commit")
  /\ file' = Committed(file, Api)
  /\ answered' = answered \cup {calls[s].event}
  /\ IF calls[s].plan # NoPlan /\ calls[s].tenant = bound
     THEN plan' = calls[s].plan /\ fresh' = TRUE
     ELSE UNCHANGED <<plan, fresh>>
  /\ Leave(s)
  /\ UNCHANGED <<bound, counts, day, events, refused, eventGhosts, started, faults, served>>

\* The SELECT of get_plan() for the tenant bound when the request began.
SelectRow(s) ==
  /\ At(s, "select")
  /\ Await(s, [calls[s] EXCEPT !.pc = "fetch", !.row = Seen(file, Api)[calls[s].tenant]])
  /\ UNCHANGED <<quotaVars, file, stripeVars, planGhosts, eventGhosts, started, faults>>

\* Mutant of Fetch: the plan that was found is not put in force.
FetchOnly(s) ==
  /\ At(s, "fetch")
  /\ fresh' = (fresh \/ calls[s].row # NoPlan)
  /\ Leave(s)
  /\ UNCHANGED <<quotaVars, file, stripeVars, eventGhosts, started, faults, served>>

\* The row arrives: refresh_plan_from_entitlement() and status() finish.
Fetch(s) ==
  /\ At(s, "fetch")
  /\ IF calls[s].row = NoPlan THEN UNCHANGED <<plan, fresh>>
                              ELSE plan' = calls[s].row /\ fresh' = TRUE
  /\ Leave(s)
  /\ UNCHANGED <<bound, counts, day, file, stripeVars, eventGhosts, started, faults, served>>

\* The events whose deliveries wait for a statement.
Underway == {calls[queue[n]].event : n \in {m \in DOMAIN queue :
                                            calls[queue[m]].pc \in {"write", "commit"}}}

\* A statement raises: the request fails, nobody rolls back, and Stripe has no answer.
Raise(s) ==
  /\ queue # << >> /\ s = Head(queue)
  /\ faults < MaxFaults /\ faults' = faults + 1
  /\ answered' = IF calls[s].pc \in {"write", "commit"}
                 THEN answered \ {calls[s].event} ELSE answered
  /\ fresh' = (fresh /\ calls[s].pc # "commit")
  /\ Leave(s)
  /\ UNCHANGED <<quotaVars, file, events, refused, served, eventGhosts, started>>

\* The process dies and starts again, with the plan of its environment.
Restart ==
  /\ faults < MaxFaults /\ faults' = faults + 1
  /\ file' = Dropped(file, Api)
  /\ calls' = [s \in Slots |-> Idle] /\ queue' = << >>
  /\ answered' = answered \ Underway
  /\ plan' = EnvPlan /\ bound' \in Tenants
  /\ counts' = [t \in Tenants |-> 0]
  /\ fresh' = FALSE /\ served' = {bound'}
  /\ UNCHANGED <<day, events, refused, eventGhosts, started>>

BillingNext ==
  \/ \E t \in Tenants : \/ \E p \in Plans : Checkout(t, p)
                        \/ Subscription(t) \/ Gate(t)
                        \/ \E i \in DOMAIN events[t] : RefuseWebhook(t, i)
                        \/ \E s \in Slots : BeginStatus(s, t)
  \/ \E s \in Slots : \/ \E t \in Tenants : \E i \in DOMAIN events[t] : BeginWebhook(s, t, i)
                      \/ WriteRow(s) \/ CommitRow(s)
                      \/ SelectRow(s) \/ Fetch(s) \/ Raise(s)
  \/ Restart

BillingSpec == BillingInit /\ [][BillingNext]_billingVars

Statement(s) == WriteRow(s) \/ CommitRow(s) \/ SelectRow(s) \/ Fetch(s) \/ Raise(s)

Retry(s, t) == \E i \in DOMAIN events[t] :
  <<t, i>> \notin answered \cup refused /\ BeginWebhook(s, t, i)

\* The worker thread executes what is queued, and Stripe keeps sending what is not
\* answered: it finds a free slot some time.
FairBillingSpec ==
  /\ BillingSpec
  /\ WF_billingVars(\E s \in Slots : Statement(s))
  /\ SF_billingVars(\E s \in Slots, t \in Tenants : Retry(s, t))
-----------------------------------------------------------------------------
Sent == UNION {{t} \X DOMAIN events[t] : t \in Tenants}

BillingTypeOK ==
  /\ plan \in Plans /\ bound \in Tenants /\ counts \in [Tenants -> Nat] /\ day \in Nat
  /\ IsFile(file, {Api}) /\ file.disk \in Rows /\ file.work \in Rows
  /\ calls \in [Slots -> Webhook \cup Status \cup {Idle}]
  /\ queue \in Seq(Slots)
  /\ \A s \in Slots : calls[s] # Idle <=> \E i \in DOMAIN queue : queue[i] = s
  /\ events \in [Tenants -> Seq(Given)]
  /\ answered \subseteq Sent /\ refused \subseteq Sent
  /\ wrote \in [Tenants -> Sent \cup {NoEvent}]
  /\ \A t \in Tenants : sent[t] \in 0 .. Len(events[t])
  /\ late \subseteq Tenants /\ served \subseteq Tenants
  /\ fresh \in BOOLEAN /\ {started, faults} \subseteq Nat

\* A delivery that has written the row of t waits for its commit.
Committing(t) == \E n \in DOMAIN queue : /\ calls[queue[n]].pc = "commit"
                                         /\ calls[queue[n]].tenant = t

\* "Stripe webhook -> plan entitlement": for checkouts that carry metadata, once the
\* event that wrote a tenant's row last has been handled, the entitlement in the
\* file is the one that this event asks for, and none if no event has written it.
\* This holds in whatever order events arrive and overlap, whatever other webhooks
\* write and commit in the same transaction, whichever statement raises and whenever
\* the process dies; it is not to say that the event is the tenant's newest.
EntitlementIsLastWritten ==
  Live => \A t \in Tenants :
    /\ wrote[t] \in answered /\ ~Committing(t) =>
         file.disk[t] = Means(wrote[t][1], wrote[t][2])
    /\ wrote[t] = NoEvent => file.disk[t] = NoPlan

\* For the only tenant a process has served since its start: once a status request or
\* a webhook has set the plan, and no webhook has failed halfway since, the plan in
\* force whenever no request is in progress is the tenant's entitlement, if it has
\* one.  A status request that overlaps webhooks never brings an old plan back, in
\* whatever order they arrive, and webhooks of other tenants do not touch it.
PlanFollowsEntitlement ==
  \A t \in Tenants : served = {t} /\ fresh /\ queue = << >> =>
    Seen(file, Api)[t] \in {plan, NoPlan}

Newest(t) == IF events[t] = << >> THEN NoPlan ELSE Last(events[t])

\* The entitlement of t is what its newest event says, unless an event was refused,
\* or an older one was sent after a newer one.
Arrived(t) == \/ t \in late
              \/ \E i \in DOMAIN events[t] : <<t, i>> \in refused
              \/ file.disk[t] = Newest(t)

\* "Stripe webhook -> plan entitlement", in the end: if Stripe repeats what is not
\* answered, the entitlement of each tenant becomes what its newest event says, and
\* stays so, although deliveries overlap, statements raise and the process dies; but
\* for the tenants of refused events and of older events sent after newer ones.
EntitlementsArrive == Live => <>[](\A t \in Tenants : Arrived(t))
-----------------------------------------------------------------------------
\* "Activated by Stripe webhooks or manual admin. Overrides env YODMCP_PLAN.": a
\* tool call of a tenant with an entitlement is charged against that plan.
EntitlementOverridesEnv ==
  [][\A t \in Tenants : Gate(t) => file.disk[t] \in {plan, NoPlan}]_billingVars

\* "Load durable entitlement for tenant if present; falls back to env plan."
FallsBackToEnvPlan ==
  [][\A s \in Slots : Fetch(s) /\ calls[s].row = NoPlan => plan' = EnvPlan]_billingVars

\* "Request-scoped tenant binding ... so billing, audit, and policy are never
\* stuck on process-global YODMCP_TENANT_ID alone": the status a request answers
\* is that of the tenant who asks.
StatusIsOfItsCaller ==
  [][\A s \in Slots : Fetch(s) => bound = calls[s].tenant]_billingVars

\* "activate entitlement on checkout.session.completed": a handled payment gave its
\* tenant the plan it bought, if it is the tenant's only event.
PaymentActivatesItsPlan ==
  \A t \in Tenants : Len(events[t]) = 1 /\ <<t, 1>> \in answered =>
    file.disk[t] = events[t][1]

\* "Stripe webhook -> plan entitlement": when all events of a tenant are handled, its
\* entitlement is what the newest one says.  An older event that is sent again after
\* a newer one, because its first delivery failed, puts its own plan back.
NewestEventWins ==
  Live => \A t \in Tenants :
    {t} \X DOMAIN events[t] \subseteq answered /\ queue = << >> => file.disk[t] = Newest(t)

\* "Verify (if secret present) and activate entitlement": a payment whose event is
\* answered with HTTP 200 is in the file.  One that fails the signature check is
\* answered with 200 as well, and Stripe does not send it again.
PaymentIsKept ==
  Live => \A t \in Tenants :
    Len(events[t]) = 1 /\ <<t, 1>> \in answered \cup refused => file.disk[t] = events[t][1]
=============================================================================
