----------------------------- MODULE HitlQueue -----------------------------
(***************************************************************************)
(* HitlQueue (src/src/yodmcp/security/hitl.py).  Its methods are           *)
(* synchronous, so each is one step.  Nothing expires a request when its   *)
(* time comes: get(), decide() and list_pending() do it when they happen   *)
(* to look.  Ids are numbers in the order of insertion; the clock is the   *)
(* integer `now', assumed not to step back, and one step reads it once.    *)
(***************************************************************************)
EXTENDS Naturals, FiniteSets, Tenancy

CONSTANTS
  Tools,          \* the tools whose calls are queued
  Operators,      \* the names that decisions are given under
  TTL,            \* ttl_seconds, in ticks
  Limits,         \* limit arguments of list_pending
  MaxRequests,    \* bound: requests ever made
  MaxTime         \* bound: ticks

ASSUME TTLAssumption == TTL \in Nat /\ MaxRequests \in Nat /\ MaxTime \in Nat
ASSUME LimitsAssumption == Limits \subseteq Nat

Requests == 1 .. MaxRequests
Statuses == {"pending", "approved", "denied", "expired"}
Nobody == "nobody"          \* decided_by = None
ASSUME OperatorsAssumption == Nobody \notin Operators
Request == [tenant : Tenants, tool : Tools, status : Statuses, created : Nat,
            decided : Nat, by : Operators \cup {Nobody}]

VARIABLES
  items,    \* _items: a function from the ids in use
  now       \* time.time()

hitlVars == <<items, now>>

Used == DOMAIN items

HitlInit == items = [r \in {} |-> {}] /\ now = 0

\* time.time() - req.created_at > self.ttl
Late(r) == now > items[r].created + TTL

\* The id of the next request.
NewId == Cardinality(Used) + 1

Enqueue(tenant, tool) ==
  /\ NewId \in Requests
  /\ items' = [x \in Used \cup {NewId} |->
                 IF x \in Used THEN items[x]
                 ELSE [tenant |-> tenant, tool |-> tool, status |-> "pending",
                       created |-> now, decided |-> 0, by |-> Nobody]]

\* get(): a late request expires when it is looked at.
Looked(r) ==
  IF items[r].status = "pending" /\ Late(r)
  THEN [items[r] EXCEPT !.status = "expired", !.decided = now] ELSE items[r]

Get(r) == /\ r \in Used
          /\ items' = [items EXCEPT ![r] = Looked(r)]
          /\ UNCHANGED now

\* Mutant of Decide: the request is fetched without get(), so it never expires.
DecideUnlooked(r, approve, by) ==
  /\ r \in Used
  /\ items' = [items EXCEPT ![r] =
       IF items[r].status # "pending" THEN items[r]
       ELSE [items[r] EXCEPT !.status = IF approve THEN "approved" ELSE "denied",
                             !.decided = now, !.by = by]]
  /\ UNCHANGED now

\* Mutant of Decide: a second decision overwrites the first.
DecideAgain(r, approve, by) ==
  /\ r \in Used
  /\ items' = [items EXCEPT ![r] =
       IF Looked(r).status = "expired" THEN Looked(r)
       ELSE [items[r] EXCEPT !.status = IF approve THEN "approved" ELSE "denied",
                             !.decided = now, !.by = by]]
  /\ UNCHANGED now

\* decide(): looks first; only a request still pending is decided.  For an unknown id
\* it changes nothing.
Decide(r, approve, by) ==
  /\ r \in Used
  /\ items' = [items EXCEPT ![r] =
       IF Looked(r).status # "pending" THEN Looked(r)
       ELSE [items[r] EXCEPT !.status = IF approve THEN "approved" ELSE "denied",
                             !.decided = now, !.by = by]]
  /\ UNCHANGED now

\* list_pending(): walks from the newest and stops once `limit' requests of the
\* tenant are found (after the first one for limit 0).  The late ones are the
\* oldest: the walk reaches all of them or none.  decided_at stays None.
OpenOf(tenant) == {r \in Used : /\ items[r].status = "pending" /\ ~Late(r)
                                /\ items[r].tenant = tenant}
ListPending(tenant, limit) ==
  LET found == Cardinality(OpenOf(tenant)) IN
  /\ items' = IF found > 0 /\ found >= limit THEN items
              ELSE [r \in Used |-> IF items[r].status = "pending" /\ Late(r)
                                   THEN [items[r] EXCEPT !.status = "expired"]
                                   ELSE items[r]]
  /\ UNCHANGED now

Tick == now < MaxTime /\ now' = now + 1 /\ UNCHANGED items

HitlNext ==
  \/ (\E t \in Tenants, tool \in Tools : Enqueue(t, tool)) /\ UNCHANGED now
  \/ \E r \in Requests : Get(r)
  \/ \E r \in Requests, approve \in BOOLEAN, by \in Operators : Decide(r, approve, by)
  \/ \E t \in Tenants, limit \in Limits : ListPending(t, limit)
  \/ Tick

HitlSpec == HitlInit /\ [][HitlNext]_hitlVars
-----------------------------------------------------------------------------
HitlTypeOK ==
  /\ Used = 1 .. Cardinality(Used) /\ Used \subseteq Requests
  /\ items \in [Used -> Request]
  /\ now \in Nat

\* A verdict has an operator's name on it and was given within the TTL of the
\* request; a request nobody decided never carries one.
VerdictsAreInTime ==
  \A r \in Used :
    /\ items[r].status \in {"approved", "denied"} <=> items[r].by # Nobody
    /\ items[r].by # Nobody => items[r].decided - items[r].created \in 0 .. TTL

\* The status an operator may count on: late and still marked pending is expired.
Effective(r) ==
  IF r \notin Used THEN "unknown"
  ELSE IF items[r].status = "pending" /\ Late(r) THEN "expired"
  ELSE items[r].status

Desk == INSTANCE ApprovalDesk
          WITH status <- [r \in Requests |-> Effective(r)],
               opened <- [r \in Requests |-> IF r \in Used THEN items[r].created ELSE 0]

\* The lazy queue implements the desk that expires requests on the dot: no
\* order of looks, listings and decisions lets a late request be decided, or
\* a decision be changed.
ImplementsDesk == Desk!Spec
=============================================================================
