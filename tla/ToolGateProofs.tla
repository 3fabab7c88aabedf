--------------------------- MODULE ToolGateProofs ---------------------------
(***************************************************************************)
(* Late requests are never decided: proofs of VerdictsAreInTime and of     *)
(* ImplementsDesk for the HITL queue, for any TTL, any number of requests  *)
(* and any clock.  The records of the gate agree: proofs of                *)
(* ClaimsMatchAudit, QueueMatchesAudit, UsageMatchesAudit and QuotaIsExact,*)
(* and of the properties of the queue in the composition, for any tenants, *)
(* tools, plans, limits, allow lists, number of calls and of days.         *)
(***************************************************************************)
EXTENDS ToolGate, FiniteSetTheorems, TLAPS

\* No request is from the future.
CreatedInThePast == \A r \in Used : items[r].created =< now

IndInv == HitlTypeOK /\ CreatedInThePast /\ VerdictsAreInTime

\* A step of one request: the others stay, this one gets the value `to'.
OnlyChanges(r, to) == r \in Used /\ items' = [items EXCEPT ![r] = to]
-----------------------------------------------------------------------------
\* The next id is not in use, and using it keeps the ids in use an initial
\* segment of the requests.
LEMMA NewIdIsNext ==
  ASSUME HitlTypeOK, NewId \in Requests
  PROVE  /\ NewId \notin Used
         /\ Used \cup {NewId} = 1 .. Cardinality(Used \cup {NewId})
<1>1. Cardinality(Used) \in Nat /\ IsFiniteSet(Used)
  <2>1. IsFiniteSet(1 .. MaxRequests) /\ Used \subseteq 1 .. MaxRequests
    BY FS_Interval, TTLAssumption DEF HitlTypeOK, Requests
  <2>2. QED
    BY <2>1, FS_Subset, FS_CardinalityType
<1>2. Used = 1 .. Cardinality(Used)
  BY DEF HitlTypeOK
<1>3. NewId = Cardinality(Used) + 1 /\ NewId \notin Used
  BY <1>1, <1>2 DEF NewId
<1>4. Cardinality(Used \cup {NewId}) = Cardinality(Used) + 1
  BY <1>1, <1>3, FS_AddElement
<1>5. 1 .. (Cardinality(Used) + 1) = (1 .. Cardinality(Used)) \cup {Cardinality(Used) + 1}
  BY <1>1
<1>6. QED
  BY <1>2, <1>3, <1>4, <1>5

\* Looking at a request yields a request with the same tenant, times and verdict.
LEMMA LookedIsSafe ==
  ASSUME IndInv, NEW r \in Used
  PROVE  /\ Looked(r) \in Request
         /\ Looked(r).created = items[r].created /\ Looked(r).by = items[r].by
         /\ Looked(r) = items[r] \/ (items[r].status = "pending" /\ Late(r)
                                     /\ Looked(r).status = "expired")
         /\ Looked(r).status = "pending" => ~Late(r)
  BY DEF IndInv, HitlTypeOK, Looked, Request, Statuses

\* The request once it is decided.
Ruled(r, verdict, by) == [items[r] EXCEPT !.status = verdict, !.decided = now, !.by = by]

\* A request decided before it is late is a request, with its verdict in time.
LEMMA RuledIsSafe ==
  ASSUME IndInv, TTL \in Nat, NEW r \in Used, items[r].status = "pending", ~Late(r),
         NEW verdict \in {"approved", "denied"}, NEW by \in Operators
  PROVE  LET d == Ruled(r, verdict, by) IN
         /\ d \in Request /\ d.created = items[r].created
         /\ d.status = verdict /\ d.by # Nobody /\ d.decided - d.created \in 0 .. TTL
<1> DEFINE d == Ruled(r, verdict, by)
<1>1. items[r] \in Request /\ now \in Nat /\ items[r].created =< now
  BY DEF IndInv, HitlTypeOK, CreatedInThePast
<1>2. items[r].created \in Nat /\ now =< items[r].created + TTL
  BY <1>1 DEF Request, Late
<1>3. /\ d \in Request /\ d.created = items[r].created /\ d.decided = now
      /\ d.status = verdict /\ d.by = by
  BY <1>1 DEF Request, Statuses, Ruled
<1>4. now - items[r].created \in 0 .. TTL
  BY <1>1, <1>2
<1> HIDE DEF d
<1>5. d.by # Nobody
  BY <1>3, OperatorsAssumption
<1>6. d \in Request /\ d.created = items[r].created /\ d.status = verdict
      /\ d.by # Nobody /\ d.decided - d.created \in 0 .. TTL
  BY <1>3, <1>4, <1>5
<1>7. QED
  BY <1>6 DEF d

\* Replacing a request by a safe one of the same age keeps the invariant.
LEMMA ReplaceIsSafe ==
  ASSUME IndInv, NEW r \in Used, NEW to \in Request, OnlyChanges(r, to), now' = now,
         to.created = items[r].created,
         to.status \in {"approved", "denied"} <=> to.by # Nobody,
         to.by # Nobody => to.decided - to.created \in 0 .. TTL
  PROVE  IndInv'
<1>1. Used' = Used /\ \A x \in Used : items'[x] = IF x = r THEN to ELSE items[x]
  BY DEF OnlyChanges, Used
<1>2. HitlTypeOK'
  BY <1>1 DEF IndInv, HitlTypeOK, OnlyChanges
<1>3. CreatedInThePast' /\ VerdictsAreInTime'
  BY <1>1 DEF IndInv, CreatedInThePast, VerdictsAreInTime
<1>4. QED
  BY <1>2, <1>3 DEF IndInv

\* Every step keeps the invariant.
LEMMA StepIndInv ==
  ASSUME IndInv, [HitlNext]_hitlVars
  PROVE  IndInv'
<1> USE TTLAssumption
<1>1. ASSUME NEW t \in Tenants, NEW tool \in Tools, Enqueue(t, tool), UNCHANGED now
      PROVE  IndInv'
  <2> DEFINE fresh == [tenant |-> t, tool |-> tool, status |-> "pending",
                       created |-> now, decided |-> 0, by |-> Nobody]
  <2>1. fresh \in Request /\ NewId \notin Used
    BY <1>1, NewIdIsNext DEF Enqueue, IndInv, HitlTypeOK, Request, Statuses
  <2>2. /\ Used' = Used \cup {NewId}
        /\ \A x \in Used' : items'[x] = IF x \in Used THEN items[x] ELSE fresh
        /\ items' \in [Used' -> Request]
    BY <1>1, <2>1 DEF Enqueue, IndInv, HitlTypeOK, Used
  <2>3. HitlTypeOK'
    BY <1>1, <2>2, NewIdIsNext DEF IndInv, HitlTypeOK, Enqueue
  <2>4. CreatedInThePast' /\ VerdictsAreInTime'
    BY <1>1, <2>2 DEF IndInv, HitlTypeOK, CreatedInThePast, VerdictsAreInTime, Nobody
  <2>5. QED
    BY <2>3, <2>4 DEF IndInv
<1>2. ASSUME NEW r \in Requests, Get(r)
      PROVE  IndInv'
  <2>1. r \in Used /\ OnlyChanges(r, Looked(r)) /\ now' = now
    BY <1>2 DEF Get, OnlyChanges
  <2>2. QED
    BY <2>1, LookedIsSafe, ReplaceIsSafe DEF IndInv, VerdictsAreInTime
<1>3. ASSUME NEW r \in Requests, NEW approve \in BOOLEAN, NEW by \in Operators,
             Decide(r, approve, by)
      PROVE  IndInv'
  <2>1. r \in Used /\ now' = now
    BY <1>3 DEF Decide
  <2>2. CASE Looked(r).status # "pending"
    <3>1. OnlyChanges(r, Looked(r))
      BY <1>3, <2>1, <2>2 DEF Decide, OnlyChanges
    <3>2. QED
      BY <2>1, <3>1, LookedIsSafe, ReplaceIsSafe DEF IndInv, VerdictsAreInTime
  <2>3. CASE Looked(r).status = "pending"
    <3>0. PICK verdict \in {"approved", "denied"} : verdict = IF approve THEN "approved" ELSE "denied"
      OBVIOUS
    <3> DEFINE d == Ruled(r, verdict, by)
    <3>1. items[r].status = "pending" /\ ~Late(r)
      BY <2>1, <2>3, LookedIsSafe
    <3>2. OnlyChanges(r, d)
      BY <1>3, <2>1, <2>3, <3>0 DEF Decide, OnlyChanges, Ruled
    <3>3. by \in Operators
      BY <1>3
    <3>4. /\ d \in Request /\ d.created = items[r].created
          /\ d.status \in {"approved", "denied"} /\ d.by # Nobody
          /\ d.decided - d.created \in 0 .. TTL
      BY <2>1, <3>1, <3>3, RuledIsSafe
    <3> HIDE DEF d
    <3>5. QED
      BY <2>1, <3>2, <3>4, ReplaceIsSafe
  <2>4. QED
    BY <2>2, <2>3
<1>4. ASSUME NEW t \in Tenants, NEW limit \in Limits, ListPending(t, limit)
      PROVE  IndInv'
  <2>1. CASE items' = items
    BY <1>4, <2>1 DEF ListPending, IndInv, HitlTypeOK, CreatedInThePast,
       VerdictsAreInTime, Used
  <2>2. CASE items' # items
    <3> DEFINE kept(x) == IF items[x].status = "pending" /\ Late(x)
                          THEN [items[x] EXCEPT !.status = "expired"] ELSE items[x]
    <3>1. now' = now /\ items' = [x \in Used |-> kept(x)]
      BY <1>4, <2>2 DEF ListPending
    <3>2. ASSUME NEW x \in Used
          PROVE  /\ kept(x) \in Request /\ kept(x).created = items[x].created
                 /\ kept(x).by = items[x].by /\ kept(x).decided = items[x].decided
                 /\ kept(x).status \in {"approved", "denied"}
                      <=> items[x].status \in {"approved", "denied"}
      BY DEF IndInv, HitlTypeOK, Request, Statuses
    <3> HIDE DEF kept
    <3>3. Used' = Used /\ \A x \in Used : items'[x] = kept(x)
      BY <3>1 DEF Used
    <3>4. HitlTypeOK'
      BY <3>1, <3>2, <3>3 DEF IndInv, HitlTypeOK
    <3>5. CreatedInThePast' /\ VerdictsAreInTime'
      BY <3>1, <3>2, <3>3 DEF IndInv, CreatedInThePast, VerdictsAreInTime
    <3>6. QED
      BY <3>4, <3>5 DEF IndInv
  <2>3. QED
    BY <2>1, <2>2
<1>5. CASE Tick
  <2>1. HitlTypeOK' /\ VerdictsAreInTime'
    BY <1>5 DEF Tick, IndInv, HitlTypeOK, VerdictsAreInTime, Used
  <2>2. CreatedInThePast'
    <3>1. \A r \in Used : items[r].created \in Nat
      BY DEF IndInv, HitlTypeOK, Request
    <3>2. QED
      BY <1>5, <3>1 DEF Tick, IndInv, HitlTypeOK, CreatedInThePast, Used
  <2>3. QED
    BY <2>1, <2>2 DEF IndInv
<1>6. CASE UNCHANGED hitlVars
  BY <1>6 DEF hitlVars, IndInv, HitlTypeOK, CreatedInThePast, VerdictsAreInTime, Used
<1>7. QED
  BY <1>1, <1>2, <1>3, <1>4, <1>5, <1>6 DEF HitlNext

\* The invariant holds at the start.
LEMMA InitIndInv == HitlInit => IndInv
<1> SUFFICES ASSUME HitlInit PROVE IndInv
  OBVIOUS
<1>1. Used = {} /\ Cardinality({}) = 0 /\ 1 .. 0 = {}
  BY FS_EmptySet DEF HitlInit, Used
<1>2. QED
  BY <1>1 DEF HitlInit, IndInv, HitlTypeOK, CreatedInThePast, VerdictsAreInTime

\* Every reachable state of the queue is well formed.
THEOREM TypeCorrect == HitlSpec => []HitlTypeOK
<1>1. HitlSpec => []IndInv
  BY InitIndInv, StepIndInv, PTL DEF HitlSpec
<1>2. IndInv => HitlTypeOK
  BY DEF IndInv
<1>3. QED
  BY <1>1, <1>2, PTL

\* In every reachable state the verdicts are those of an operator who gave them
\* within the TTL.
THEOREM InTimeVerdicts == HitlSpec => []VerdictsAreInTime
<1>1. HitlSpec => []IndInv
  BY InitIndInv, StepIndInv, PTL DEF HitlSpec
<1>2. IndInv => VerdictsAreInTime
  BY DEF IndInv
<1>3. QED
  BY <1>1, <1>2, PTL
-----------------------------------------------------------------------------
\* What the desk shows of a queue.
Shown == [r \in Requests |-> Effective(r)]
OpenedAt == [r \in Requests |-> IF r \in Used THEN items[r].created ELSE 0]

\* The desk does not see a change that leaves ids, creation times and effective
\* statuses alone.
LEMMA Unseen ==
  ASSUME Used' = Used, now' = now,
         \A x \in Used : items'[x].created = items[x].created,
         \A x \in Used : Effective(x)' = Effective(x)
  PROVE  UNCHANGED Desk!deskVars
<1>1. \A x \in Requests : Effective(x)' = Effective(x)
  BY DEF Effective
<1>2. QED
  BY <1>1 DEF Desk!deskVars

\* The first state of the queue is the first state of the desk.
LEMMA InitRefines == HitlInit => Desk!Init
  BY DEF HitlInit, Desk!Init, Effective, Used

\* Every step of the queue is a step of the desk, or one it does not see.
LEMMA StepRefines ==
  ASSUME IndInv, [HitlNext]_hitlVars
  PROVE  [Desk!Next]_(Desk!deskVars)
<1> USE TTLAssumption
<1>1. ASSUME NEW t \in Tenants, NEW tool \in Tools, Enqueue(t, tool), UNCHANGED now
      PROVE  \E n \in Requests : Desk!Open(n)
  <2>1. PICK n \in Requests : n = NewId
    BY <1>1 DEF Enqueue
  <2>2. n \notin Used
    BY <2>1, NewIdIsNext DEF IndInv
  <2>3. /\ Used' = Used \cup {n} /\ now' = now /\ now \in Nat
        /\ \A x \in Used : items'[x] = items[x]
        /\ items'[n].status = "pending" /\ items'[n].created = now
    BY <1>1, <2>1, <2>2 DEF Enqueue, Used, IndInv, HitlTypeOK
  <2>4. Effective(n) = "unknown" /\ Effective(n)' = "pending"
    BY <2>2, <2>3 DEF Effective, Late
  <2>5. \A x \in Requests \ {n} : Effective(x)' = Effective(x)
    BY <2>3 DEF Effective, Late
  <2>6. QED
    BY <2>2, <2>3, <2>4, <2>5 DEF Desk!Open
<1>2. ASSUME NEW r \in Requests, Get(r)
      PROVE  UNCHANGED Desk!deskVars
  <2>1. r \in Used /\ Used' = Used /\ now' = now
        /\ \A x \in Used : items'[x] = IF x = r THEN Looked(r) ELSE items[x]
    BY <1>2 DEF Get, Used
  <2>2. \A x \in Used : items'[x].created = items[x].created
    BY <2>1, LookedIsSafe
  <2>3. \A x \in Used : Effective(x)' = Effective(x)
    BY <2>1, <2>2, LookedIsSafe DEF Effective, Late
  <2>4. QED
    BY <2>1, <2>2, <2>3, Unseen
<1>3. ASSUME NEW r \in Requests, NEW approve \in BOOLEAN, NEW by \in Operators,
             Decide(r, approve, by)
      PROVE  [Desk!Next]_(Desk!deskVars)
  <2>1. r \in Used /\ Used' = Used /\ now' = now
    BY <1>3 DEF Decide, Used
  <2>2. CASE Looked(r).status # "pending"
    <3>1. \A x \in Used : items'[x] = IF x = r THEN Looked(r) ELSE items[x]
      BY <1>3, <2>1, <2>2 DEF Decide, Used
    <3>2. \A x \in Used : items'[x].created = items[x].created
      BY <2>1, <3>1, LookedIsSafe
    <3>3. \A x \in Used : Effective(x)' = Effective(x)
      BY <2>1, <3>1, <3>2, LookedIsSafe DEF Effective, Late
    <3>4. QED
      BY <2>1, <3>2, <3>3, Unseen
  <2>3. CASE Looked(r).status = "pending"
    <3> DEFINE verdict == IF approve THEN "approved" ELSE "denied"
               d == [items[r] EXCEPT !.status = verdict, !.decided = now, !.by = by]
    <3>1. items[r].status = "pending" /\ ~Late(r) /\ verdict \in {"approved", "denied"}
      BY <2>1, <2>3, LookedIsSafe
    <3>2. \A x \in Used : items'[x] = IF x = r THEN d ELSE items[x]
      BY <1>3, <2>1, <2>3 DEF Decide, Used
    <3>3. d.status = verdict /\ d.created = items[r].created
      BY <2>1 DEF IndInv, HitlTypeOK, Request
    <3> HIDE DEF d
    <3>4. Effective(r) = "pending" /\ Effective(r)' = verdict
      BY <2>1, <3>1, <3>2, <3>3 DEF Effective
    <3>5. \A x \in Requests \ {r} : Effective(x)' = Effective(x)
      BY <2>1, <3>2 DEF Effective, Late
    <3>6. Desk!Decide(r, verdict)
      BY <2>1, <3>2, <3>3, <3>4, <3>5 DEF Desk!Decide
    <3>7. QED
      BY <3>1, <3>6 DEF Desk!Next
  <2>4. QED
    BY <2>2, <2>3
<1>4. ASSUME NEW t \in Tenants, NEW limit \in Limits, ListPending(t, limit)
      PROVE  UNCHANGED Desk!deskVars
  <2>1. CASE items' = items
    BY <1>4, <2>1, Unseen DEF ListPending, Used, Effective, Late
  <2>2. CASE items' # items
    <3>1. /\ Used' = Used /\ now' = now
          /\ \A x \in Used : items'[x] = IF items[x].status = "pending" /\ Late(x)
                                         THEN [items[x] EXCEPT !.status = "expired"]
                                         ELSE items[x]
      BY <1>4, <2>2 DEF ListPending, Used
    <3>2. ASSUME NEW x \in Used
          PROVE  items'[x].created = items[x].created /\ Effective(x)' = Effective(x)
      <4>1. items[x] \in Request
        BY DEF IndInv, HitlTypeOK
      <4>2. CASE items[x].status = "pending" /\ Late(x)
        BY <3>1, <4>1, <4>2 DEF Effective, Request
      <4>3. CASE ~(items[x].status = "pending" /\ Late(x))
        BY <3>1, <4>3 DEF Effective, Late
      <4>4. QED
        BY <4>2, <4>3
    <3>3. QED
      BY <3>1, <3>2, Unseen
  <2>3. QED
    BY <2>1, <2>2
<1>5. ASSUME Tick
      PROVE  Desk!Tick
  <2>1. items' = items /\ now' = now + 1 /\ now \in Nat /\ Used' = Used
    BY <1>5 DEF Tick, IndInv, HitlTypeOK, Used
  <2>2. ASSUME NEW x \in Requests
        PROVE  Effective(x)' = IF Effective(x) = "pending" /\ now' > OpenedAt[x] + TTL
                               THEN "expired" ELSE Effective(x)
    <3>1. CASE x \notin Used
      BY <2>1, <3>1 DEF Effective
    <3>2. CASE x \in Used
      <4>1. items[x].created \in Nat /\ OpenedAt[x] = items[x].created
        BY <3>2 DEF IndInv, HitlTypeOK, Request, OpenedAt
      <4>2. Late(x) => Late(x)'
        BY <2>1, <4>1 DEF Late
      <4>3. QED
        BY <2>1, <3>2, <4>1, <4>2 DEF Effective, Late
    <3>3. QED
      BY <3>1, <3>2
  <2>3. QED
    BY <2>1, <2>2 DEF Desk!Tick, Desk!Overdue, OpenedAt
<1>6. CASE UNCHANGED hitlVars
  BY <1>6, Unseen DEF hitlVars, Used, Effective, Late
<1>7. QED
  <2>1. CASE \E t \in Tenants, tool \in Tools : Enqueue(t, tool) /\ UNCHANGED now
    BY <2>1, <1>1 DEF Desk!Next
  <2>2. CASE Tick
    BY <2>2, <1>5 DEF Desk!Next
  <2>3. QED
    BY <1>2, <1>3, <1>4, <1>6, <2>1, <2>2 DEF HitlNext

\* The lazily expiring queue implements the desk that expires requests on time.
THEOREM LazyExpiryIsInvisible == HitlSpec => ImplementsDesk
<1>1. HitlSpec => []IndInv
  BY InitIndInv, StepIndInv, PTL DEF HitlSpec
<1>2. QED
  BY <1>1, InitRefines, StepRefines, PTL DEF HitlSpec, ImplementsDesk, Desk!Spec
-----------------------------------------------------------------------------
\* The gate and its queue.
\* No event is from the future.
EventsArePast == \A i \in Calls : audit[i].day <= day

GateInv == /\ IndInv
           /\ GateTypeOK
           /\ EventsArePast
           /\ ClaimsMatchAudit
           /\ QueueMatchesAudit
           /\ UsageMatchesAudit
           /\ QuotaIsExact

Decision == [reason : {"invalid", "blocked", "unlisted", "high_risk", "allow"}, tier : Tiers]
ReplyRecord == [allowed : BOOLEAN, ran : BOOLEAN, plan : Plans]

RequestsOf(t, tool) == {r \in Used : items[r].tenant = t /\ items[r].tool = tool}
PassedToday(t) ==
  {i \in Calls : replies[i].allowed /\ audit[i].tenant = t /\ audit[i].day = day}
-----------------------------------------------------------------------------
\* What Append does, elementwise.
LEMMA Appended ==
  ASSUME NEW S, NEW q \in Seq(S), NEW x \in S
  PROVE  /\ Append(q, x) \in Seq(S) /\ Len(q) \in Nat /\ Len(Append(q, x)) = Len(q) + 1
         /\ DOMAIN q = 1 .. Len(q) /\ Len(q) + 1 \notin DOMAIN q
         /\ DOMAIN Append(q, x) = DOMAIN q \cup {Len(q) + 1}
         /\ Append(q, x)[Len(q) + 1] = x
         /\ \A i \in DOMAIN q : Append(q, x)[i] = q[i]
OBVIOUS

\* Sets of calls and of requests are finite.
LEMMA RecordsAreFinite ==
  ASSUME GateTypeOK
  PROVE  /\ \A s \in SUBSET Calls : IsFiniteSet(s) /\ Cardinality(s) \in Nat
         /\ \A s \in SUBSET Used : IsFiniteSet(s) /\ Cardinality(s) \in Nat
<1>1. Len(audit) \in Nat /\ Calls = 1 .. Len(audit)
  BY DEF GateTypeOK, Calls
<1>2. IsFiniteSet(Calls)
  BY <1>1, FS_Interval
<1>3. IsFiniteSet(Used)
  <2>1. HitlTypeOK
    BY DEF GateTypeOK
  <2>2. IsFiniteSet(1 .. MaxRequests) /\ Used \subseteq 1 .. MaxRequests
    BY <2>1, FS_Interval, TTLAssumption DEF HitlTypeOK, Requests
  <2>3. QED
    BY <2>2, FS_Subset
<1>4. QED
  BY <1>2, <1>3, FS_Subset, FS_CardinalityType

\* A decision is well formed, and it is attested exactly if its tier is high.
LEMMA DecisionTyped ==
  ASSUME NEW t, NEW tool, NEW d, d = Evaluate(t, tool) \/ d = Invalid
  PROVE  /\ d \in Decision
         /\ Claimed(d) <=> d.tier \in HighTiers
<1>1. Tier(tool) \in Tiers
  BY DEF Tier, Tiers, HighTiers
<1>2. CASE d = Invalid
  BY <1>2 DEF Invalid, Decision, Claimed, RequiresHitl, HighTiers, Tiers
<1>3. CASE d = Evaluate(t, tool)
  BY <1>1, <1>3 DEF Evaluate, Decision, Claimed, RequiresHitl, HighTiers, Tiers
<1>4. QED
  BY <1>2, <1>3

\* To the queue, a step of the gate is a step of the queue or nothing.
LEMMA GateStepsQueue ==
  ASSUME [GateNext]_gateVars
  PROVE  [HitlNext]_hitlVars
<1>1. ASSUME NEW t \in Tenants, NEW tool \in Tools, NEW valid \in BOOLEAN,
             Call(t, tool, valid)
      PROVE  [HitlNext]_hitlVars
  BY <1>1 DEF Call, Ask, HitlNext, hitlVars
<1>2. ASSUME Operate PROVE [HitlNext]_hitlVars
  BY <1>2 DEF Operate, HitlNext
<1>3. QED
  BY <1>1, <1>2 DEF GateNext, gateVars, Change, BlockTool, UnblockTool, SetTenantDenylist,
     SetTenantAllowlist, ChangePlan, Midnight

\* What operators and time do to the queue leaves tenants and tools of requests alone.
LEMMA OperateKeeps ==
  ASSUME IndInv, Operate
  PROVE  /\ Used' = Used
         /\ \A r \in Used : items'[r].tenant = items[r].tenant /\ items'[r].tool = items[r].tool
<1> DEFINE Same(x, r) == x.tenant = items[r].tenant /\ x.tool = items[r].tool
<1>1. \A r \in Used : items[r] \in Request
  BY DEF IndInv, HitlTypeOK
<1>2. \A r \in Used : Same(Looked(r), r)
  BY <1>1 DEF Looked, Request
<1>3. ASSUME NEW r \in Requests, Get(r)
      PROVE  Used' = Used /\ \A x \in Used : Same(items'[x], x)
  BY <1>2, <1>3 DEF Get, Used
<1>4. ASSUME NEW r \in Requests, NEW approve \in BOOLEAN, NEW by \in Operators,
             Decide(r, approve, by)
      PROVE  Used' = Used /\ \A x \in Used : Same(items'[x], x)
  <2>1. Used' = Used /\ \A x \in Used \ {r} : items'[x] = items[x]
    BY <1>4 DEF Decide, Used
  <2>2. Same(items'[r], r)
    <3>1. CASE Looked(r).status # "pending"
      BY <1>2, <1>4, <3>1 DEF Decide, Used
    <3>2. CASE Looked(r).status = "pending"
      <4>1. /\ r \in Used
            /\ items'[r] = [items[r] EXCEPT !.status = IF approve THEN "approved" ELSE "denied",
                                            !.decided = now, !.by = by]
        BY <1>4, <3>2 DEF Decide, Used
      <4>2. QED
        BY <1>1, <4>1 DEF Request
    <3>3. QED
      BY <3>1, <3>2
  <2>3. QED
    BY <2>1, <2>2
<1>5. ASSUME NEW t \in Tenants, NEW limit \in Limits, ListPending(t, limit)
      PROVE  Used' = Used /\ \A x \in Used : Same(items'[x], x)
  <2>1. CASE items' = items
    BY <2>1 DEF Used
  <2>2. CASE items' = [r \in Used |-> IF items[r].status = "pending" /\ Late(r)
                                      THEN [items[r] EXCEPT !.status = "expired"]
                                      ELSE items[r]]
    <3>1. Used' = Used
      BY <2>2 DEF Used
    <3>2. \A x \in Used : Same([items[x] EXCEPT !.status = "expired"], x)
      BY <1>1 DEF Request
    <3>3. QED
      BY <2>2, <3>1, <3>2
  <2>3. QED
    BY <1>5, <2>1, <2>2 DEF ListPending
<1>6. ASSUME Tick PROVE Used' = Used /\ \A x \in Used : Same(items'[x], x)
  BY <1>6 DEF Tick, Used
<1>7. QED
  BY <1>3, <1>4, <1>5, <1>6 DEF Operate

LEMMA InitGateInv == GateInit => GateInv
<1> SUFFICES ASSUME GateInit PROVE GateInv
  OBVIOUS
<1>1. IndInv
  BY InitIndInv DEF GateInit
<1>2. /\ Calls = {} /\ DOMAIN claims = {} /\ Used = {}
      /\ Cardinality({}) = 0
  BY FS_EmptySet DEF GateInit, Calls, HitlInit, Used
<1>3. GateTypeOK
  BY <1>1, PlanAssumption DEF IndInv, GateInit, QuotaInit, GateTypeOK
<1>4. QueueMatchesAudit
  <2>1. \A t \in Tenants, tool \in Tools : RequestsOf(t, tool) = {} /\ AskedBy(t, tool) = {}
    BY <1>2 DEF RequestsOf, AskedBy
  <2>2. QED
    BY <1>2, <2>1 DEF QueueMatchesAudit, RequestsOf
<1>5. UsageMatchesAudit
  <2>1. \A t \in Tenants : PassedToday(t) = {} /\ counts[t] = 0
    BY <1>2 DEF PassedToday, GateInit, QuotaInit
  <2>2. QED
    BY <1>2, <2>1 DEF UsageMatchesAudit, PassedToday
<1>6. QED
  BY <1>1, <1>2, <1>3, <1>4, <1>5 DEF GateInv, EventsArePast, ClaimsMatchAudit, QuotaIsExact

\* A tool call keeps the invariant.
LEMMA CallKeeps ==
  ASSUME GateInv, IndInv', NEW t \in Tenants, NEW tool \in Tools, NEW valid \in BOOLEAN,
         Call(t, tool, valid)
  PROVE  GateInv'
<1> DEFINE d == IF valid THEN Evaluate(t, tool) ELSE Invalid
           e == [tenant |-> t, tool |-> tool, reason |-> d.reason, tier |-> d.tier, day |-> day,
                 outcome |-> IF Allowed(d) THEN "allowed" ELSE "denied",
                 claim |-> IF Claimed(d) THEN Len(claims) + 1 ELSE 0,
                 request |-> IF RequiresHitl(d) /\ FailClosed THEN NewId ELSE 0]
           yes == Allowed(d) /\ ~Exhausted(t)
           rp == [allowed |-> yes, ran |-> yes \/ tool \in Unchecked, plan |-> plan]
           cl == [tool |-> tool, tier |-> d.tier]
<1>0. PICK n : n = Len(audit) + 1
  OBVIOUS
<1>1. /\ IndInv /\ GateTypeOK /\ EventsArePast /\ ClaimsMatchAudit /\ QueueMatchesAudit
      /\ UsageMatchesAudit /\ QuotaIsExact /\ HitlTypeOK
  BY DEF GateInv, GateTypeOK
<1>2. d \in Decision /\ (Claimed(d) <=> d.tier \in HighTiers)
  <2>1. d = Evaluate(t, tool) \/ d = Invalid
    OBVIOUS
  <2> HIDE DEF d
  <2>2. QED
    BY <2>1, DecisionTyped
<1>3. /\ audit' = Append(audit, e) /\ replies' = Append(replies, rp)
      /\ claims' = IF Claimed(d) THEN Append(claims, cl) ELSE claims
      /\ IF RequiresHitl(d) THEN Enqueue(t, tool) ELSE UNCHANGED items
      /\ IF Allowed(d) THEN RecordAndCheck(t) ELSE UNCHANGED quotaVars
      /\ UNCHANGED <<now, policyVars, changes>>
  BY DEF Call, Attest, Ask, Record, Reply
<1> HIDE DEF d
<1>4. NewId \in Nat /\ (RequiresHitl(d) => NewId \in Requests)
  BY <1>1, <1>3, RecordsAreFinite DEF NewId, Enqueue
<1>5. yes \in BOOLEAN /\ yes = (Allowed(d) /\ ~Exhausted(t))
  BY DEF Allowed
<1>6. e \in Event
  BY <1>1, <1>2, <1>4 DEF Event, Decision, GateTypeOK
<1>7. rp \in ReplyRecord
  BY <1>1, <1>5 DEF ReplyRecord, GateTypeOK
<1>8. cl \in [tool : Tools, tier : Tiers]
  BY <1>2 DEF Decision
<1>9. /\ e.tenant = t /\ e.tool = tool /\ e.reason = d.reason /\ e.tier = d.tier
      /\ e.day = day /\ e.outcome = (IF Allowed(d) THEN "allowed" ELSE "denied")
      /\ e.claim = (IF Claimed(d) THEN Len(claims) + 1 ELSE 0)
      /\ e.request = (IF RequiresHitl(d) /\ FailClosed THEN NewId ELSE 0)
      /\ rp.allowed = yes /\ rp.plan = plan
      /\ (RequiresHitl(e) <=> RequiresHitl(d))
  BY DEF RequiresHitl
<1> HIDE DEF e, rp, cl, yes
<1>10. /\ audit \in Seq(Event) /\ replies \in Seq(ReplyRecord) /\ Len(replies) = Len(audit)
       /\ claims \in Seq([tool : Tools, tier : Tiers])
  BY <1>1 DEF GateTypeOK, ReplyRecord
<1>11. /\ audit' \in Seq(Event) /\ Len(audit') = n /\ Calls' = Calls \cup {n}
       /\ n \notin Calls /\ n \in Nat /\ \A i \in Calls : i \in Nat /\ i < n
       /\ audit'[n] = e /\ \A i \in Calls : audit'[i] = audit[i]
  BY <1>0, <1>3, <1>6, <1>10, Appended DEF Calls
<1>12. /\ replies' \in Seq(ReplyRecord) /\ Len(replies') = n
       /\ replies'[n] = rp /\ \A i \in Calls : replies'[i] = replies[i]
  <2>1. DOMAIN replies = Calls
    BY <1>10 DEF Calls
  <2>2. QED
    BY <1>0, <1>3, <1>7, <1>10, <2>1, Appended
<1>13. /\ claims' \in Seq([tool : Tools, tier : Tiers]) /\ Len(claims) + 1 \notin DOMAIN claims
       /\ Len(claims) + 1 # 0
       /\ DOMAIN claims' = DOMAIN claims \cup (IF Claimed(d) THEN {Len(claims) + 1} ELSE {})
       /\ Claimed(d) => claims'[Len(claims) + 1] = cl
       /\ \A k \in DOMAIN claims : claims'[k] = claims[k]
  <2>1. CASE Claimed(d)
    <3>1. claims' = Append(claims, cl)
      BY <1>3, <2>1
    <3>2. QED
      BY <1>8, <1>10, <2>1, <3>1, Appended
  <2>2. CASE ~Claimed(d)
    <3>1. claims' = claims
      BY <1>3, <2>2
    <3>2. QED
      BY <1>8, <1>10, <2>2, <3>1, Appended
  <2>3. QED
    BY <2>1, <2>2
<1>14. /\ plan' = plan /\ day' = day /\ bound' \in Tenants
       /\ counts' = IF yes THEN [counts EXCEPT ![t] = @ + 1] ELSE counts
  BY <1>1, <1>3, <1>5 DEF RecordAndCheck, quotaVars, Charged, GateTypeOK
<1>15. counts \in [Tenants -> Nat] /\ counts' \in [Tenants -> Nat] /\ day \in Nat
  BY <1>1, <1>14 DEF GateTypeOK
<1>16. GateTypeOK'
  <2>1. HitlTypeOK'
    BY DEF IndInv
  <2>2. QED
    BY <1>1, <1>3, <1>11, <1>12, <1>13, <1>14, <1>15, <2>1 DEF GateTypeOK, ReplyRecord, policyVars
<1>17. EventsArePast'
  BY <1>1, <1>9, <1>11, <1>14, <1>15 DEF EventsArePast
<1>18. ClaimsMatchAudit'
  <2>1. \A i \in Calls' : audit'[i].tier \in HighTiers <=> audit'[i].claim # 0
    BY <1>1, <1>2, <1>9, <1>11, <1>13 DEF ClaimsMatchAudit
  <2>0. /\ \A j \in Calls : audit[j].claim # 0 => audit[j].claim \in DOMAIN claims
        /\ e.claim # 0 => Claimed(d) /\ e.claim = Len(claims) + 1
        /\ e.claim \notin DOMAIN claims \/ e.claim = 0
    <3>1. \A j \in Calls : audit[j].claim # 0 => audit[j].claim \in DOMAIN claims
      BY <1>1 DEF ClaimsMatchAudit
    <3>2. QED
      BY <1>9, <1>13, <3>1
  <2>2. ASSUME NEW i \in Calls', audit'[i].claim # 0
        PROVE  /\ audit'[i].claim \in DOMAIN claims'
               /\ claims'[audit'[i].claim] = [tool |-> audit'[i].tool, tier |-> audit'[i].tier]
               /\ \A j \in Calls' : audit'[j].claim = audit'[i].claim => i = j
    <3>1. CASE i = n
      <4>1. Claimed(d) /\ audit'[i] = e /\ e.claim = Len(claims) + 1
        BY <1>9, <1>11, <2>2, <3>1
      <4>2. cl = [tool |-> e.tool, tier |-> e.tier]
        BY <1>9 DEF cl
      <4>3. \A j \in Calls : audit'[j].claim # e.claim
        BY <1>11, <1>13, <2>0, <4>1
      <4>4. QED
        BY <1>11, <1>13, <3>1, <4>1, <4>2, <4>3
    <3>2. CASE i \in Calls
      <4>1. /\ audit'[i] = audit[i] /\ audit[i].claim \in DOMAIN claims
            /\ claims[audit[i].claim] = [tool |-> audit[i].tool, tier |-> audit[i].tier]
            /\ \A j \in Calls : audit[j].claim = audit[i].claim => i = j
        BY <1>1, <1>11, <2>2, <3>2 DEF ClaimsMatchAudit
      <4>2. audit'[n].claim # audit[i].claim
        BY <1>11, <1>13, <2>0, <2>2, <4>1
      <4>3. QED
        BY <1>11, <1>13, <4>1, <4>2
    <3>3. QED
      BY <1>11, <3>1, <3>2
  <2>3. \A k \in DOMAIN claims' : \E i \in Calls' : audit'[i].claim = k
    BY <1>1, <1>9, <1>11, <1>13 DEF ClaimsMatchAudit
  <2>4. QED
    BY <2>1, <2>2, <2>3 DEF ClaimsMatchAudit
<1>19. QueueMatchesAudit'
  <2>1. /\ RequiresHitl(d) => /\ Used' = Used \cup {NewId} /\ NewId \notin Used
                              /\ items'[NewId].tenant = t /\ items'[NewId].tool = tool
        /\ ~RequiresHitl(d) => Used' = Used
        /\ \A r \in Used : items'[r] = items[r]
    BY <1>1, <1>3, NewIdIsNext DEF Enqueue, Used
  <2>2. ASSUME NEW u \in Tenants, NEW other \in Tools
        PROVE  Cardinality(RequestsOf(u, other)') = Cardinality(AskedBy(u, other)')
    <3>1. /\ Cardinality(RequestsOf(u, other)) = Cardinality(AskedBy(u, other))
          /\ IsFiniteSet(RequestsOf(u, other)) /\ IsFiniteSet(AskedBy(u, other))
      BY <1>1, RecordsAreFinite DEF QueueMatchesAudit, RequestsOf, AskedBy
    <3>2. CASE RequiresHitl(d) /\ u = t /\ other = tool
      <4>1. /\ RequestsOf(u, other)' = RequestsOf(u, other) \cup {NewId}
            /\ NewId \notin RequestsOf(u, other)
        BY <2>1, <3>2 DEF RequestsOf
      <4>2. /\ AskedBy(u, other)' = AskedBy(u, other) \cup {n}
            /\ n \notin AskedBy(u, other)
        BY <1>9, <1>11, <3>2 DEF AskedBy, RequiresHitl
      <4>3. QED
        <5>1. /\ Cardinality(RequestsOf(u, other)') = Cardinality(RequestsOf(u, other)) + 1
              /\ Cardinality(AskedBy(u, other)') = Cardinality(AskedBy(u, other)) + 1
          BY <3>1, <4>1, <4>2, FS_AddElement
        <5>2. QED
          BY <3>1, <5>1
    <3>3. CASE ~(RequiresHitl(d) /\ u = t /\ other = tool)
      <4>1. RequestsOf(u, other)' = RequestsOf(u, other)
        BY <2>1, <3>3 DEF RequestsOf
      <4>2. AskedBy(u, other)' = AskedBy(u, other)
        BY <1>9, <1>11, <3>3 DEF AskedBy, RequiresHitl
      <4>3. QED
        BY <3>1, <4>1, <4>2
    <3>4. QED
      BY <3>2, <3>3
  <2>3. ASSUME NEW i \in Calls', audit'[i].request # 0
        PROVE  /\ audit'[i].request \in Used' /\ RequiresHitl(audit'[i])
               /\ audit'[i].tenant = items'[audit'[i].request].tenant
               /\ audit'[i].tool = items'[audit'[i].request].tool
    <3>1. CASE i = n
      BY <1>9, <1>11, <2>1, <2>3, <3>1
    <3>2. CASE i \in Calls
      <4>1. /\ audit[i].request \in Used /\ RequiresHitl(audit[i])
            /\ audit[i].tenant = items[audit[i].request].tenant
            /\ audit[i].tool = items[audit[i].request].tool
        BY <1>1, <1>11, <2>3, <3>2 DEF QueueMatchesAudit, AskedBy
      <4>2. QED
        BY <1>11, <2>1, <3>2, <4>1
    <3>3. QED
      BY <1>11, <3>1, <3>2
  <2>4. QED
    BY <2>2, <2>3 DEF QueueMatchesAudit, RequestsOf, AskedBy
<1>20. \A u \in Tenants : /\ counts[u] = Cardinality(PassedToday(u))
                          /\ IsFiniteSet(PassedToday(u))
  BY <1>1, RecordsAreFinite DEF UsageMatchesAudit, PassedToday
<1>21. UsageMatchesAudit'
  <2>1. ASSUME NEW u \in Tenants PROVE counts'[u] = Cardinality(PassedToday(u)')
    <3>1. CASE yes /\ u = t
      <4>1. PassedToday(u)' = PassedToday(u) \cup {n} /\ n \notin PassedToday(u)
        BY <1>9, <1>11, <1>12, <1>14, <3>1 DEF PassedToday
      <4>2. Cardinality(PassedToday(u)') = Cardinality(PassedToday(u)) + 1
        BY <1>20, <4>1, FS_AddElement
      <4>3. QED
        BY <1>14, <1>15, <1>20, <3>1, <4>2
    <3>2. CASE ~(yes /\ u = t)
      <4>1. PassedToday(u)' = PassedToday(u)
        BY <1>9, <1>11, <1>12, <1>14, <3>2 DEF PassedToday
      <4>2. QED
        BY <1>14, <1>15, <1>20, <3>2, <4>1
    <3>3. QED
      BY <3>1, <3>2
  <2>2. \A i \in Calls' : replies'[i].allowed => audit'[i].outcome = "allowed"
    BY <1>1, <1>5, <1>9, <1>11, <1>12 DEF UsageMatchesAudit
  <2>3. QED
    BY <2>1, <2>2 DEF UsageMatchesAudit, PassedToday
<1>22. QuotaIsExact'
  <2>1. ASSUME NEW i \in Calls', audit'[i].outcome = "allowed"
        PROVE  ~replies'[i].allowed <=>
                 CallsPerDay[replies'[i].plan] \in 0 .. Cardinality(PassedBefore(i)')
    <3>1. CASE i = n
      <4>1. Allowed(d)
        BY <1>9, <1>11, <2>1, <3>1
      <4>2. PassedBefore(n)' = PassedToday(t)
        BY <1>9, <1>11, <1>12 DEF PassedBefore, PassedToday
      <4>3. ~yes <=> CallsPerDay[plan] \in 0 .. Cardinality(PassedBefore(n)')
        BY <1>5, <1>20, <4>1, <4>2 DEF Exhausted, Charged
      <4>4. QED
        BY <1>9, <1>12, <3>1, <4>3
    <3>2. CASE i \in Calls
      <4>1. PassedBefore(i)' = PassedBefore(i)
        BY <1>11, <1>12, <3>2 DEF PassedBefore
      <4>2. QED
        BY <1>1, <1>11, <1>12, <2>1, <3>2, <4>1 DEF QuotaIsExact
    <3>3. QED
      BY <1>11, <3>1, <3>2
  <2>2. QED
    BY <2>1 DEF QuotaIsExact
<1>23. QED
  BY <1>16, <1>17, <1>18, <1>19, <1>21, <1>22 DEF GateInv

\* A step that adds no call, takes no request away and counts nothing keeps it.
LEMMA QuietKeeps ==
  ASSUME GateInv, IndInv', GateTypeOK', UNCHANGED <<trailVars, counts, day>>, Used' = Used,
         \A r \in Used : items'[r].tenant = items[r].tenant /\ items'[r].tool = items[r].tool
  PROVE  GateInv'
<1>1. /\ EventsArePast /\ ClaimsMatchAudit /\ QueueMatchesAudit
      /\ UsageMatchesAudit /\ QuotaIsExact
  BY DEF GateInv
<1>2. Calls' = Calls /\ audit' = audit /\ replies' = replies /\ claims' = claims
  BY DEF trailVars, Calls
<1>3. EventsArePast' /\ ClaimsMatchAudit'
  BY <1>1, <1>2 DEF EventsArePast, ClaimsMatchAudit
<1>4. UsageMatchesAudit'
  BY <1>1, <1>2 DEF UsageMatchesAudit
<1>5. QuotaIsExact'
  <2>1. \A i \in Calls : PassedBefore(i)' = PassedBefore(i)
    BY <1>2 DEF PassedBefore
  <2>2. QED
    BY <1>1, <1>2, <2>1 DEF QuotaIsExact
<1>6. QueueMatchesAudit'
  <2>1. \A t \in Tenants, tool \in Tools :
          /\ RequestsOf(t, tool)' = RequestsOf(t, tool)
          /\ AskedBy(t, tool)' = AskedBy(t, tool)
    BY <1>2 DEF RequestsOf, AskedBy
  <2>2. \A t \in Tenants, tool \in Tools :
          Cardinality(RequestsOf(t, tool)') = Cardinality(AskedBy(t, tool)')
    BY <1>1, <2>1 DEF QueueMatchesAudit, RequestsOf
  <2>3. ASSUME NEW i \in Calls, audit[i].request # 0
        PROVE  /\ audit[i].request \in Used /\ RequiresHitl(audit[i])
               /\ audit[i].tenant = items'[audit[i].request].tenant
               /\ audit[i].tool = items'[audit[i].request].tool
    BY <1>1, <2>3 DEF QueueMatchesAudit, AskedBy
  <2>4. QED
    BY <1>2, <2>2, <2>3 DEF QueueMatchesAudit, RequestsOf, AskedBy
<1>7. QED
  BY <1>3, <1>4, <1>5, <1>6 DEF GateInv

\* On a new day nothing is charged, and no event is of that day.
LEMMA MidnightKeeps ==
  ASSUME GateInv, IndInv', Midnight
  PROVE  GateInv'
<1>1. /\ EventsArePast /\ ClaimsMatchAudit /\ QueueMatchesAudit /\ UsageMatchesAudit
      /\ QuotaIsExact /\ GateTypeOK /\ HitlTypeOK /\ HitlTypeOK'
  BY DEF GateInv, GateTypeOK, IndInv
<1>2. /\ day \in Nat /\ day' = day + 1 /\ counts' = [t \in Tenants |-> 0]
      /\ UNCHANGED <<plan, bound, items, now, blocked, deny, allow, claims, audit, replies, changes>>
      /\ Calls' = Calls /\ Used' = Used
  BY <1>1 DEF Midnight, NewDay, hitlVars, policyVars, trailVars, GateTypeOK, Calls, Used
<1>3. GateTypeOK'
  BY <1>1, <1>2 DEF GateTypeOK
<1>4. /\ \A i \in Calls : audit[i] \in Event /\ audit[i].day \in Nat
      /\ \A i \in Calls : audit[i].day <= day
  <2>1. audit \in Seq(Event)
    BY <1>1 DEF GateTypeOK
  <2>2. \A i \in Calls : audit[i] \in Event
    BY <2>1 DEF Calls
  <2>3. QED
    BY <1>1, <2>2 DEF Event, EventsArePast
<1>5. EventsArePast'
  BY <1>2, <1>4 DEF EventsArePast
<1>6. ClaimsMatchAudit'
  BY <1>1, <1>2 DEF ClaimsMatchAudit
<1>7. QueueMatchesAudit'
  BY <1>1, <1>2 DEF QueueMatchesAudit, AskedBy
<1>8. UsageMatchesAudit'
  <2>1. \A t \in Tenants : PassedToday(t)' = {}
    BY <1>2, <1>4 DEF PassedToday
  <2>2. QED
    BY <1>1, <1>2, <2>1, FS_EmptySet DEF UsageMatchesAudit, PassedToday
<1>9. QuotaIsExact'
  BY <1>1, <1>2 DEF QuotaIsExact, PassedBefore
<1>10. QED
  BY <1>3, <1>5, <1>6, <1>7, <1>8, <1>9 DEF GateInv

\* Every step of the gate keeps the invariant.
LEMMA StepGateInv == GateInv /\ [GateNext]_gateVars => GateInv'
<1> SUFFICES ASSUME GateInv, [GateNext]_gateVars PROVE GateInv'
  OBVIOUS
<1>1. IndInv /\ IndInv' /\ GateTypeOK /\ HitlTypeOK'
  BY GateStepsQueue, StepIndInv DEF GateInv, IndInv
<1>2. ASSUME NEW t \in Tenants, NEW tool \in Tools, NEW valid \in BOOLEAN,
             Call(t, tool, valid)
      PROVE  GateInv'
  BY <1>1, <1>2, CallKeeps
<1>3. ASSUME UNCHANGED <<hitlVars, trailVars, counts, day>>, GateTypeOK' PROVE GateInv'
  BY <1>1, <1>3, QuietKeeps DEF hitlVars, Used
<1>4. ASSUME NEW tool \in Tools, BlockTool(tool) \/ UnblockTool(tool) PROVE GateInv'
  BY <1>1, <1>3, <1>4 DEF BlockTool, UnblockTool, Change, GateTypeOK, hitlVars, trailVars,
     quotaVars
<1>5. ASSUME NEW t \in Tenants, NEW tools \in SUBSET Tools,
             SetTenantDenylist(t, tools) \/ SetTenantAllowlist(t, tools)
      PROVE  GateInv'
  <2>1. GateTypeOK'
    <3>1. CASE SetTenantDenylist(t, tools)
      BY <1>1, <3>1 DEF SetTenantDenylist, Change, GateTypeOK, hitlVars, trailVars, quotaVars
    <3>2. CASE SetTenantAllowlist(t, tools)
      <4>1. DOMAIN allow' \subseteq Tenants /\ allow' \in [DOMAIN allow' -> SUBSET Tools]
        BY <1>1, <3>2 DEF SetTenantAllowlist, GateTypeOK
      <4>2. QED
        BY <1>1, <3>2, <4>1 DEF SetTenantAllowlist, Change, GateTypeOK, hitlVars, trailVars,
           quotaVars
    <3>3. QED
      BY <1>5, <3>1, <3>2
  <2>2. QED
    BY <1>3, <1>5, <2>1 DEF SetTenantDenylist, SetTenantAllowlist, Change, quotaVars
<1>6. ASSUME NEW t \in Tenants, NEW p \in Plans, ChangePlan(t, p) PROVE GateInv'
  BY <1>1, <1>3, <1>6 DEF ChangePlan, Refreshed, Change, GateTypeOK, hitlVars, trailVars,
     policyVars
<1>7. ASSUME Operate PROVE GateInv'
  <2>1. GateTypeOK'
    BY <1>1, <1>7 DEF Operate, GateTypeOK, quotaVars, policyVars, trailVars
  <2>2. QED
    BY <1>1, <1>7, <2>1, OperateKeeps, QuietKeeps DEF Operate, quotaVars
<1>8. ASSUME Midnight PROVE GateInv'
  BY <1>1, <1>8, MidnightKeeps
<1>9. CASE UNCHANGED gateVars
  BY <1>1, <1>3, <1>9 DEF gateVars, hitlVars, trailVars, quotaVars, policyVars, GateTypeOK
<1>10. QED
  BY <1>2, <1>4, <1>5, <1>6, <1>7, <1>8, <1>9 DEF GateNext

\* The invariant holds in every behaviour of the gate.
LEMMA GateInvariance == GateSpec => []GateInv
BY InitGateInv, StepGateInv, PTL DEF GateSpec

\* The state of the gate always has its type.
THEOREM GateTyped == GateSpec => []GateTypeOK
<1>1. GateInv => GateTypeOK
  BY DEF GateInv
<1>2. QED
  BY GateInvariance, <1>1, PTL

\* Attestation and audit tell one story, in every order of calls, policy changes
\* and decisions.
THEOREM AttestationMatchesAudit == GateSpec => []ClaimsMatchAudit
<1>1. GateInv => ClaimsMatchAudit
  BY DEF GateInv
<1>2. QED
  BY GateInvariance, <1>1, PTL

\* The operators' queue has one request for every audited call that asks for one.
THEOREM ApprovalsMatchAudit == GateSpec => []QueueMatchesAudit
<1>1. GateInv => QueueMatchesAudit
  BY DEF GateInv
<1>2. QED
  BY GateInvariance, <1>1, PTL

\* The meter counts the calls of the day that were let pass, no more and no less.
THEOREM MeterMatchesAudit == GateSpec => []UsageMatchesAudit
<1>1. GateInv => UsageMatchesAudit
  BY DEF GateInv
<1>2. QED
  BY GateInvariance, <1>1, PTL

\* A call that the policy allows is refused exactly when the plan in force has been
\* used up by its tenant that day, whatever the plans, the calls and the days.
THEOREM ExactQuota == GateSpec => []QuotaIsExact
<1>1. GateInv => QuotaIsExact
  BY DEF GateInv
<1>2. QED
  BY GateInvariance, <1>1, PTL

\* The queue keeps its verdicts in time also when the gate fills it.
THEOREM GateVerdictsInTime == GateSpec => []VerdictsAreInTime
<1>1. GateInv => VerdictsAreInTime
  BY DEF GateInv, IndInv
<1>2. QED
  BY GateInvariance, <1>1, PTL

\* The gate, seen by its operators, is the desk that expires requests on the dot.
THEOREM GateImplementsDesk == GateSpec => ImplementsDesk
<1>1. GateInv /\ [GateNext]_gateVars => [Desk!Next]_(Desk!deskVars)
  BY GateStepsQueue, StepRefines DEF GateInv
<1>2. GateInit => Desk!Init
  BY InitRefines DEF GateInit
<1>3. QED
  BY GateInvariance, <1>1, <1>2, PTL DEF GateSpec, ImplementsDesk, Desk!Spec
=============================================================================
