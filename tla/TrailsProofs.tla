---------------------------- MODULE TrailsProofs ----------------------------
(***************************************************************************)
(* Which claims verify where (Attestation), what the durable counters are  *)
(* worth (Metering) and what the trail tells of the calls (Trails), proved *)
(* for any processes, environments, tools, calls, errors, crashes and days.*)
(***************************************************************************)
EXTENDS Trails, FiniteSetTheorems, TLAPS

\* The key that process p has had since its n-th start.
KeySince(p, n) ==
  IF Environment[p].mode = "software" THEN <<"secret">>
  ELSE IF Environment[p].pem THEN <<"pem">> ELSE <<p, n>>

Fields == [id : Nat, tool : Tools, decision : Decisions]

\* The claim that process p makes of f after its n-th start.
ClaimBy(p, n, f) ==
  [fields |-> f, signature |-> <<KeySince(p, n), Body(p, f)>>, by |-> <<p, n>>]

SignedClaims == {ClaimBy(p, n, f) : p \in Procs, n \in Nat, f \in Fields}

\* The invariant: every claim is signed with the key and the measurement of the
\* process and the start that issued it.
ClaimsAreSigned ==
  calls \in Nat /\ starts \in [Procs -> Nat] /\ claims \in Seq(SignedClaims)
-----------------------------------------------------------------------------
LEMMA InitSigned == Init => ClaimsAreSigned
BY DEF Init, AttestInit, ClaimsAreSigned

\* A claim is made with the key of the start.
LEMMA NewIsSigned ==
  ASSUME ClaimsAreSigned, NEW p \in Procs, NEW tool \in Tools, NEW decision \in Decisions
  PROVE  NewClaim(p, calls + 1, tool, decision) \in SignedClaims
<1> DEFINE f == [id |-> calls + 1, tool |-> tool, decision |-> decision]
<1>1. f \in Fields /\ starts[p] \in Nat
  BY DEF ClaimsAreSigned, Fields
<1>2. KeyOf(p) = KeySince(p, starts[p])
  BY DEF KeyOf, KeySince
<1>3. NewClaim(p, calls + 1, tool, decision) = ClaimBy(p, starts[p], f)
  BY <1>2 DEF NewClaim, Sign, ClaimBy
<1>4. QED
  BY <1>1, <1>3 DEF SignedClaims

\* No step spoils a claim: calls issue new ones and ends of processes change keys.
LEMMA StepSigned == ClaimsAreSigned /\ [Next]_vars => ClaimsAreSigned'
<1> SUFFICES ASSUME ClaimsAreSigned, [Next]_vars PROVE ClaimsAreSigned'
  OBVIOUS
<1>1. ASSUME NEW p \in Procs, NEW t \in Tenants, NEW tool \in Tools,
             NEW decision \in Decisions, NEW metered \in BOOLEAN,
             Call(p, t, tool, decision, metered)
      PROVE  ClaimsAreSigned'
  <2>1. calls' \in Nat
    BY <1>1 DEF Call, ClaimsAreSigned
  <2>2. CASE tool \in Privileged
    <3>1. claims' = Append(claims, NewClaim(p, calls + 1, tool, decision)) /\ starts' = starts
      BY <1>1, <2>2 DEF Call, Issue
    <3>2. claims' \in Seq(SignedClaims)
      BY <3>1, NewIsSigned DEF ClaimsAreSigned
    <3>3. QED
      BY <2>1, <3>1, <3>2 DEF ClaimsAreSigned
  <2>3. CASE tool \notin Privileged
    BY <1>1, <2>1, <2>3 DEF Call, attestVars, ClaimsAreSigned
  <2>4. QED
    BY <2>2, <2>3
<1>2. ASSUME NEW n \in DOMAIN tasks, Step(n) PROVE ClaimsAreSigned'
  BY <1>2 DEF Step, attestVars, ClaimsAreSigned
<1>3. ASSUME NEW p \in Procs, Crash(p) PROVE ClaimsAreSigned'
  BY <1>3 DEF Crash, Restarted, ClaimsAreSigned
<1>4. CASE Midnight
  BY <1>4 DEF Midnight, attestVars, ClaimsAreSigned
<1>5. CASE UNCHANGED vars
  BY <1>5 DEF vars, attestVars, ClaimsAreSigned
<1>6. QED
  BY <1>1, <1>2, <1>3, <1>4, <1>5 DEF Next
-----------------------------------------------------------------------------
\* Processes with the same measurement are in the same mode.
LEMMA MeasuredAlike ==
  ASSUME NEW p \in Procs, NEW q \in Procs, MeasurementOf(p) = MeasurementOf(q)
  PROVE  Environment[p].mode = Environment[q].mode
BY DEF MeasurementOf

\* Two bodies are the same if the measurements and the signed fields are.
LEMMA BodiesAlike ==
  ASSUME NEW p \in Procs, NEW q \in Procs, NEW f \in Fields, NEW d \in Decisions
  PROVE  Body(p, [f EXCEPT !.decision = d]) = Body(q, f)
           <=> d = f.decision /\ MeasurementOf(p) = MeasurementOf(q)
BY DEF Body, Fields

\* With the same measurement, process p has the key of another one, or of an
\* earlier start, exactly if both attest alike or it is the key of this start.
LEMMA KeysAlike ==
  ASSUME NEW p \in Procs, NEW q \in Procs, NEW m \in Nat, NEW n \in Nat,
         MeasurementOf(p) = MeasurementOf(q)
  PROVE  KeySince(p, m) = KeySince(q, n) <=> <<q, n>> = <<p, m>> \/ Alike(p, q)
<1>1. Environment[p].mode = Environment[q].mode
  BY MeasuredAlike
<1>2. CASE Environment[p].mode = "software"
  BY <1>1, <1>2 DEF KeySince, Alike
<1>3. CASE Environment[p].mode # "software"
  <2>1. <<p, m>> # <<"pem">> /\ <<q, n>> # <<"pem">>
    OBVIOUS
  <2>2. Environment[p].pem \in BOOLEAN /\ Environment[q].pem \in BOOLEAN
    BY EnvironmentAssumption
  <2>3. QED
    BY <1>1, <1>3, <2>1, <2>2 DEF KeySince, Alike
<1>4. QED
  BY <1>2, <1>3

LEMMA SignedVerify == ClaimsAreSigned => ClaimsVerify
<1> SUFFICES ASSUME ClaimsAreSigned,
                    NEW i \in DOMAIN claims, NEW p \in Procs, NEW d \in Decisions
             PROVE  Verify(p, [claims[i].fields EXCEPT !.decision = d], claims[i].signature)
                      <=> /\ d = claims[i].fields.decision
                          /\ claims[i].by = <<p, starts[p]>> \/ Alike(p, claims[i].by[1])
  BY DEF ClaimsVerify
<1>1. claims[i] \in SignedClaims
  BY DEF ClaimsAreSigned
<1>2. PICK q \in Procs, n \in Nat, f \in Fields : claims[i] = ClaimBy(q, n, f)
  BY <1>1 DEF SignedClaims
<1>3. /\ claims[i].fields = f /\ claims[i].by = <<q, n>> /\ claims[i].by[1] = q
      /\ claims[i].signature = <<KeySince(q, n), Body(q, f)>>
  BY <1>2 DEF ClaimBy
<1>4. starts[p] \in Nat /\ KeyOf(p) = KeySince(p, starts[p])
  BY DEF ClaimsAreSigned, KeyOf, KeySince
<1>5. Verify(p, [f EXCEPT !.decision = d], claims[i].signature)
        <=> KeySince(p, starts[p]) = KeySince(q, n)
              /\ Body(p, [f EXCEPT !.decision = d]) = Body(q, f)
  BY <1>3, <1>4 DEF Verify, Sign
<1>6. CASE MeasurementOf(p) = MeasurementOf(q)
  <2>1. KeySince(p, starts[p]) = KeySince(q, n) <=> <<q, n>> = <<p, starts[p]>> \/ Alike(p, q)
    BY <1>4, <1>6, KeysAlike
  <2>2. Body(p, [f EXCEPT !.decision = d]) = Body(q, f) <=> d = f.decision
    BY <1>6, BodiesAlike
  <2>3. QED
    BY <1>3, <1>5, <2>1, <2>2
<1>7. CASE MeasurementOf(p) # MeasurementOf(q)
  <2>1. Body(p, [f EXCEPT !.decision = d]) # Body(q, f)
    BY <1>7, BodiesAlike
  <2>2. <<q, n>> # <<p, starts[p]>> /\ ~Alike(p, q)
    BY <1>7 DEF Alike
  <2>3. QED
    BY <1>3, <1>5, <2>1, <2>2
<1>8. QED
  BY <1>6, <1>7

\* At any time a process verifies exactly the claims of its own start and those of
\* the processes that attest like it (security/attestation.py), and none of them
\* with another decision.
THEOREM ClaimsAlwaysVerify == Spec => []ClaimsVerify
<1>1. Spec => []ClaimsAreSigned
  BY InitSigned, StepSigned, PTL DEF Spec
<1>2. QED
  BY <1>1, SignedVerify, PTL
-----------------------------------------------------------------------------
IsMeter(n) == tasks[n].conn[2] = "meter"

\* A call has at most one task of the meter, whose statements are those of
\* _record_async(); the other tasks are those of the audit trail.
TaskShape ==
  /\ \A n \in DOMAIN tasks :
       IF IsMeter(n) THEN tasks[n].call \in DOMAIN usage /\ tasks[n].pc # "event"
                     ELSE tasks[n].pc \notin {"daily", "row"}
  /\ \A m, n \in DOMAIN tasks :
       IsMeter(m) /\ IsMeter(n) /\ tasks[m].call = tasks[n].call => m = n

Holds(n, c) == tasks[n].call \in IF IsMeter(n) THEN c.rows ELSE c.index

\* What a task has inserted its connection sees until it commits, and all do then.
TasksAreStored ==
  \A n \in DOMAIN tasks : /\ tasks[n].pc = "commit" => Holds(n, Sees(n))
                          /\ tasks[n].pc = "done" => Holds(n, file.disk)

RowsGrow == /\ file.disk.rows \subseteq file.work.rows
            /\ file.disk.index \subseteq file.work.index

\* The counters are the numbers of calls in two sets: D is counted for good, W
\* in the open transaction.  A call is in them once its task has counted it, and
\* is so even if its row never comes.
CountedAs(D, W) ==
  /\ file.disk.rows \subseteq D /\ file.work.rows \subseteq W
  /\ \A k \in Keys : file.disk.daily[k] = MeteredOf(k, D) /\ file.work.daily[k] = MeteredOf(k, W)
  /\ \A n \in DOMAIN tasks : IsMeter(n) =>
       /\ tasks[n].pc = "daily" => tasks[n].call \notin W
       /\ tasks[n].pc = "row" => tasks[n].call \in IF file.owner = tasks[n].conn THEN W ELSE D

\* Calls without a line had an append that raised, and what a process counts it
\* also keeps.
ChargesAreNoted ==
  /\ Cardinality(Numbers \ lines) <= errors
  /\ \A p \in Procs, k \in Keys : counts[p][k] <= MeteredOf(k, kept[p] \cap DOMAIN usage)
  /\ \A i \in DOMAIN claims : claims[i].fields.id \in Numbers

TrailInv == /\ TypeOK /\ day <= MaxDays
            /\ TaskShape /\ TasksAreStored /\ RowsGrow
            /\ \E W \in SUBSET DOMAIN usage : \E D \in SUBSET W : CountedAs(D, W)
            /\ ChargesAreNoted
-----------------------------------------------------------------------------
\* A task that goes on to its next statement, or ends, and no other changes.
LEMMA MovedTasks ==
  ASSUME tasks \in Seq(Task), NEW n \in DOMAIN tasks,
         NEW pc \in Statements \cup {"done", "lost"}, Moved(n, pc)
  PROVE  /\ tasks' \in Seq(Task) /\ DOMAIN tasks' = DOMAIN tasks
         /\ tasks'[n].pc = pc
         /\ \A m \in DOMAIN tasks : /\ tasks'[m].conn = tasks[m].conn
                                    /\ tasks'[m].call = tasks[m].call
                                    /\ m # n => tasks'[m].pc = tasks[m].pc
<1> DEFINE t == [tasks[n] EXCEPT !.pc = pc]
<1>1. tasks[n] \in Task
  OBVIOUS
<1>2. t \in Task /\ t.pc = pc /\ t.conn = tasks[n].conn /\ t.call = tasks[n].call
  BY <1>1 DEF Task
<1>3. tasks' = [tasks EXCEPT ![n] = t]
  BY DEF Moved
<1> HIDE DEF t
<1>4. /\ DOMAIN tasks' = DOMAIN tasks /\ tasks'[n] = t
      /\ \A m \in DOMAIN tasks : m # n => tasks'[m] = tasks[m]
  BY <1>3
<1>5. tasks' \in Seq(Task)
  BY <1>2, <1>3
<1>6. QED
  BY <1>2, <1>4, <1>5

\* A count depends on the calls in the set only.
LEMMA SameCount ==
  ASSUME NEW S, \A c \in S : usage'[c] = usage[c], NEW k
  PROVE  MeteredOf(k, S)' = MeteredOf(k, S)
<1>1. {c \in S : usage'[c] = k} = {c \in S : usage[c] = k}
  OBVIOUS
<1>2. QED
  BY <1>1 DEF MeteredOf

\* The metered calls are finitely many, and counts are numbers.
LEMMA CountsAreNumbers ==
  ASSUME TypeOK, NEW S \in SUBSET DOMAIN usage, NEW k
  PROVE  IsFiniteSet(S) /\ MeteredOf(k, S) \in Nat
<1>1. IsFiniteSet(Numbers) /\ DOMAIN usage \subseteq Numbers
  <2>1. calls \in Nat /\ 1 \in Int
    BY DEF TypeOK
  <2>2. IsFiniteSet(Numbers)
    BY <2>1, FS_Interval DEF Numbers
  <2>3. QED
    BY <2>2 DEF TypeOK
<1>2. IsFiniteSet(S)
  BY <1>1, FS_Subset
<1>3. IsFiniteSet({c \in S : usage[c] = k})
  BY <1>2, FS_Subset
<1>4. QED
  BY <1>2, <1>3, FS_CardinalityType DEF MeteredOf

\* More calls make no smaller count.
LEMMA CountsGrow ==
  ASSUME TypeOK, NEW S \in SUBSET DOMAIN usage, NEW R \in SUBSET S, NEW k
  PROVE  MeteredOf(k, R) <= MeteredOf(k, S)
<1>1. IsFiniteSet({c \in S : usage[c] = k})
  BY CountsAreNumbers, FS_Subset
<1>2. {c \in R : usage[c] = k} \in SUBSET {c \in S : usage[c] = k}
  OBVIOUS
<1>3. QED
  BY <1>1, <1>2, FS_Subset DEF MeteredOf

\* One more call adds one to the count of its key.
LEMMA OneMore ==
  ASSUME TypeOK, NEW S \in SUBSET DOMAIN usage, NEW c \in DOMAIN usage, c \notin S, NEW k
  PROVE  MeteredOf(k, S \cup {c}) = MeteredOf(k, S) + (IF usage[c] = k THEN 1 ELSE 0)
<1> DEFINE R == {d \in S : usage[d] = k}
<1>1. IsFiniteSet(R) /\ c \notin R
  BY CountsAreNumbers, FS_Subset
<1>2. Cardinality(R) \in Nat
  BY <1>1, FS_CardinalityType
<1>3. {d \in S \cup {c} : usage[d] = k} = IF usage[c] = k THEN R \cup {c} ELSE R
  OBVIOUS
<1>4. Cardinality(R \cup {c}) = Cardinality(R) + 1
  <2> HIDE DEF R
  <2>1. QED
    BY <1>1, FS_AddElement
<1>5. QED
  BY <1>2, <1>3, <1>4 DEF MeteredOf

\* The write lock, the committed content and the content of the transaction.
LEMMA FileTyped ==
  ASSUME TypeOK
  PROVE  /\ IsContent(file.disk) /\ IsContent(file.work)
         /\ file = [disk |-> file.disk, work |-> file.work, owner |-> file.owner]
         /\ file.owner \in Conns \cup {Nobody}
         /\ file.owner = Nobody => file.work = file.disk
BY DEF TypeOK, IsFile

\* A task and what its connection sees.
LEMMA TaskTyped ==
  ASSUME TypeOK, NEW n \in DOMAIN tasks
  PROVE  /\ tasks[n].conn \in Conns /\ tasks[n].call \in Numbers
         /\ tasks[n].pc \in Statements \cup {"done", "lost"}
         /\ IsContent(Sees(n))
<1>1. tasks[n] \in Task
  BY DEF TypeOK
<1>2. QED
  BY <1>1, FileTyped DEF Task, TypeOK, Sees, Seen

\* The calls that the content seen by task n counts.
SeenCalls(n, D, W) == IF file.owner = tasks[n].conn THEN W ELSE D

\* Content c, which counts the calls in S, is what task n makes of the content it
\* sees, and its next statement is fit for that.
Follows(n, c, next, D, W, S) ==
  /\ IsContent(c) /\ next \in {"row", "commit"}
  /\ W \subseteq DOMAIN usage /\ D \subseteq W /\ CountedAs(D, W)
  /\ S \subseteq DOMAIN usage /\ SeenCalls(n, D, W) \subseteq S
  /\ c.rows \subseteq S /\ \A k \in Keys : c.daily[k] = MeteredOf(k, S)
  /\ Sees(n).rows \subseteq c.rows /\ Sees(n).index \subseteq c.index
  /\ IF next = "commit" THEN Holds(n, c) ELSE IsMeter(n) /\ tasks[n].call \in S
  /\ \A m \in DOMAIN tasks \ {n} :
       IsMeter(m) /\ tasks[m].pc = "daily" => tasks[m].call \notin S

\* A write statement by which the counters come to stand for the calls in S.
LEMMA ExecuteKeeps ==
  ASSUME TrailInv, NEW n \in DOMAIN tasks, NEW c, NEW pc, NEW next, Execute(n, pc, c, next),
         NEW D, NEW W, NEW S, Follows(n, c, next, D, W, S),
         UNCHANGED <<meterVars, auditVars, attestVars, calls, crashes>>
  PROVE  TrailInv'
<1> USE DEF TrailInv, Follows, SeenCalls
<1>1. /\ tasks' \in Seq(Task) /\ DOMAIN tasks' = DOMAIN tasks /\ tasks'[n].pc = next
      /\ \A m \in DOMAIN tasks : /\ tasks'[m].conn = tasks[m].conn
                                 /\ tasks'[m].call = tasks[m].call
                                 /\ m # n => tasks'[m].pc = tasks[m].pc
  BY MovedTasks DEF Execute, TypeOK, Statements
<1>2. /\ file'.disk = file.disk /\ file'.work = c /\ file'.owner = tasks[n].conn
      /\ file' = [disk |-> file'.disk, work |-> file'.work, owner |-> file'.owner]
      /\ file.owner \in {tasks[n].conn, Nobody} /\ tasks[n].conn \in Conns
      /\ errors' = errors
  BY FileTyped, TaskTyped DEF Execute, MayWrite, Written
<1>3. /\ UNCHANGED <<usage, counts, day, kept, lines, starts, claims, calls, crashes>>
      /\ Numbers' = Numbers
  BY DEF meterVars, auditVars, attestVars, Numbers
<1>4. TypeOK'
  <2>1. IsFile(file, Conns)'
    BY <1>2, ConnsAssumption DEF IsFile
  <2>2. IsContent(file.disk)' /\ IsContent(file.work)'
    BY <1>2, <1>3, FileTyped DEF IsContent
  <2>3. \A m \in DOMAIN tasks' : tasks'[m].call \in Numbers'
    BY <1>1, <1>3 DEF TypeOK
  <2>4. QED
    BY <1>1, <1>2, <1>3, <2>1, <2>2, <2>3 DEF TypeOK
<1>5. TaskShape'
  <2>1. \A m \in DOMAIN tasks : IsMeter(m)' <=> IsMeter(m)
    BY <1>1 DEF IsMeter
  <2>2. next = "row" => IsMeter(n)
    OBVIOUS
  <2>3. QED
    BY <1>1, <1>3, <2>1, <2>2 DEF TaskShape
<1>6. ASSUME NEW m \in DOMAIN tasks
      PROVE  Sees(m)' = IF tasks[m].conn = tasks[n].conn THEN c ELSE Sees(m)
  BY <1>1, <1>2, <1>6, FileTyped DEF Sees, Seen
<1>7. TasksAreStored'
  <2>1. ASSUME NEW m \in DOMAIN tasks, tasks'[m].pc = "commit"
        PROVE  Holds(m, Sees(m))'
    <3>1. CASE m = n
      BY <1>1, <1>6, <2>1, <3>1 DEF Holds, IsMeter
    <3>2. CASE m # n
      <4>1. Holds(m, Sees(m)) /\ Sees(m).rows \subseteq Sees(m)'.rows
              /\ Sees(m).index \subseteq Sees(m)'.index
        BY <1>1, <1>6, <2>1, <3>2 DEF TasksAreStored, Sees
      <4>2. QED
        BY <1>1, <4>1 DEF Holds, IsMeter
    <3>3. QED
      BY <3>1, <3>2
  <2>2. ASSUME NEW m \in DOMAIN tasks, tasks'[m].pc = "done"
        PROVE  Holds(m, file.disk)'
    BY <1>1, <1>2, <2>2 DEF TasksAreStored, Holds, IsMeter
  <2>3. QED
    BY <1>1, <2>1, <2>2 DEF TasksAreStored
<1>8. RowsGrow'
  <2>1. file.disk.rows \subseteq Sees(n).rows /\ file.disk.index \subseteq Sees(n).index
    BY DEF RowsGrow, Sees, Seen
  <2>2. QED
    BY <1>2, <2>1 DEF RowsGrow
<1>9. CountedAs(D, S)'
  <2>1. \A k : MeteredOf(k, D)' = MeteredOf(k, D) /\ MeteredOf(k, S)' = MeteredOf(k, S)
    BY <1>3, SameCount
  <2>2. /\ file'.disk.rows \subseteq D /\ file'.work.rows \subseteq S
        /\ \A k \in Keys : /\ file'.disk.daily[k] = MeteredOf(k, D)'
                           /\ file'.work.daily[k] = MeteredOf(k, S)'
    BY <1>2, <2>1 DEF CountedAs
  <2>3. ASSUME NEW m \in DOMAIN tasks, IsMeter(m)
        PROVE  /\ tasks'[m].pc = "daily" => tasks[m].call \notin S
               /\ tasks'[m].pc = "row" =>
                    tasks[m].call \in IF tasks[n].conn = tasks[m].conn THEN S ELSE D
    <3>1. CASE m = n
      BY <1>1, <2>3, <3>1
    <3>2. CASE m # n
      BY <1>1, <1>2, <2>3, <3>2, TaskTyped, ConnsAssumption DEF CountedAs
    <3>3. QED
      BY <3>1, <3>2
  <2>4. QED
    BY <1>1, <1>2, <2>2, <2>3 DEF CountedAs, IsMeter
<1>10. D \subseteq S /\ S \in SUBSET DOMAIN usage'
  BY <1>3
<1>11. ChargesAreNoted'
  BY <1>2, <1>3 DEF ChargesAreNoted, MeteredOf
<1>12. QED
  BY <1>3, <1>4, <1>5, <1>7, <1>8, <1>9, <1>10, <1>11

LEMMA InsertEventKeeps ==
  ASSUME TrailInv, NEW n \in DOMAIN tasks, InsertEvent(n),
         UNCHANGED <<meterVars, attestVars, calls, crashes>>
  PROVE  TrailInv'
<1> USE DEF TrailInv
<1>0. PICK W \in SUBSET DOMAIN usage : \E D \in SUBSET W : CountedAs(D, W)
  OBVIOUS
<1>1. PICK D \in SUBSET W : CountedAs(D, W)
  BY <1>0
<1> DEFINE t == Sees(n)
           S == SeenCalls(n, D, W)
<1>2. PICK c : /\ c = [t EXCEPT !.index = @ \cup {tasks[n].call}]
               /\ Execute(n, "event", c, "commit")
  BY DEF InsertEvent
<1>3. IsContent(t) /\ tasks[n].call \in Numbers
  BY TaskTyped
<1>4. /\ c.daily = t.daily /\ c.rows = t.rows /\ c.index = t.index \cup {tasks[n].call}
      /\ c = [daily |-> c.daily, rows |-> c.rows, index |-> c.index]
  <2> HIDE DEF t
  <2>1. PICK d, r, i : t = [daily |-> d, rows |-> r, index |-> i]
    BY <1>3 DEF IsContent
  <2>2. c = [daily |-> d, rows |-> r, index |-> i \cup {tasks[n].call}]
    BY <1>2, <2>1
  <2>3. QED
    BY <2>1, <2>2
<1>5. IsContent(c)
  BY <1>3, <1>4 DEF IsContent
<1>6. ~IsMeter(n)
  BY <1>2 DEF Execute, TaskShape
<1>7. Holds(n, c)
  BY <1>4, <1>6 DEF Holds
<1>8. t.rows \subseteq S /\ \A k \in Keys : t.daily[k] = MeteredOf(k, S)
  BY <1>1 DEF CountedAs, SeenCalls, Sees, Seen
<1>9. \A m \in DOMAIN tasks \ {n} : IsMeter(m) /\ tasks[m].pc = "daily" => tasks[m].call \notin S
  BY <1>1 DEF CountedAs, SeenCalls
<1>10. UNCHANGED <<meterVars, auditVars, attestVars, calls, crashes>> /\ S \in SUBSET DOMAIN usage
  BY DEF InsertEvent, SeenCalls
<1>11. /\ c.rows \subseteq S /\ \A k \in Keys : c.daily[k] = MeteredOf(k, S)
       /\ Sees(n).rows \subseteq c.rows /\ Sees(n).index \subseteq c.index
  BY <1>4, <1>8
<1>12. Follows(n, c, "commit", D, W, S)
  BY <1>1, <1>5, <1>7, <1>9, <1>10, <1>11 DEF Follows
<1>13. QED
  BY <1>2, <1>10, <1>12, ExecuteKeeps

LEMMA InsertDailyKeeps ==
  ASSUME TrailInv, NEW n \in DOMAIN tasks, InsertDaily(n),
         UNCHANGED <<auditVars, attestVars, calls, crashes>>
  PROVE  TrailInv'
<1> USE DEF TrailInv
<1>0. PICK W \in SUBSET DOMAIN usage : \E D \in SUBSET W : CountedAs(D, W)
  OBVIOUS
<1>1. PICK D \in SUBSET W : CountedAs(D, W)
  BY <1>0
<1> DEFINE t == Sees(n)
           R == SeenCalls(n, D, W)
           call == tasks[n].call
           S == R \cup {call}
<1>2. PICK c : /\ c = [t EXCEPT !.daily = Plus(@, usage[call])]
               /\ Execute(n, "daily", c, "row")
  BY DEF InsertDaily
<1>3. IsContent(t)
  BY TaskTyped
<1>4. /\ c.daily = Plus(t.daily, usage[call]) /\ c.rows = t.rows /\ c.index = t.index
      /\ c = [daily |-> c.daily, rows |-> c.rows, index |-> c.index]
  <2> HIDE DEF t
  <2>1. PICK d, r, i : t = [daily |-> d, rows |-> r, index |-> i]
    BY <1>3 DEF IsContent
  <2>2. c = [daily |-> Plus(d, usage[call]), rows |-> r, index |-> i]
    BY <1>2, <2>1
  <2>3. QED
    BY <2>1, <2>2
<1>5. IsMeter(n) /\ tasks[n].pc = "daily" /\ call \in DOMAIN usage
  BY <1>2 DEF Execute, TaskShape
<1>6. usage[call] \in Keys /\ t.daily \in [Keys -> Nat]
  BY <1>3, <1>5 DEF TypeOK, IsContent
<1>7. /\ c.daily \in [Keys -> Nat]
      /\ \A k \in Keys : c.daily[k] = t.daily[k] + (IF usage[call] = k THEN 1 ELSE 0)
  BY <1>4, <1>6 DEF Plus
<1>8. IsContent(c)
  BY <1>3, <1>4, <1>7 DEF IsContent
<1>9. R \in SUBSET DOMAIN usage /\ call \notin R
  BY <1>1, <1>5 DEF CountedAs, SeenCalls
<1>10. t.rows \subseteq R /\ \A k \in Keys : t.daily[k] = MeteredOf(k, R)
  BY <1>1 DEF CountedAs, SeenCalls, Sees, Seen
<1>11. \A k \in Keys : c.daily[k] = MeteredOf(k, S)
  <2> HIDE DEF R, call
  <2>1. ASSUME NEW k \in Keys PROVE c.daily[k] = MeteredOf(k, S)
    <3>1. MeteredOf(k, S) = MeteredOf(k, R) + (IF usage[call] = k THEN 1 ELSE 0)
      BY <1>5, <1>9, OneMore
    <3>2. QED
      BY <1>7, <1>10, <3>1
  <2>2. QED
    BY <2>1
<1>12. \A m \in DOMAIN tasks \ {n} : IsMeter(m) /\ tasks[m].pc = "daily" => tasks[m].call \notin S
  BY <1>1, <1>5 DEF CountedAs, SeenCalls, TaskShape
<1>13. /\ c.rows \subseteq S /\ Sees(n).rows \subseteq c.rows /\ Sees(n).index \subseteq c.index
       /\ S \in SUBSET DOMAIN usage /\ call \in S
  BY <1>4, <1>5, <1>9, <1>10
<1>14. UNCHANGED <<meterVars, auditVars, attestVars, calls, crashes>>
  BY DEF InsertDaily
<1>15. Follows(n, c, "row", D, W, S)
  BY <1>1, <1>5, <1>8, <1>11, <1>12, <1>13 DEF Follows
<1>16. QED
  BY <1>2, <1>14, <1>15, ExecuteKeeps

LEMMA InsertRowKeeps ==
  ASSUME TrailInv, NEW n \in DOMAIN tasks, InsertRow(n),
         UNCHANGED <<auditVars, attestVars, calls, crashes>>
  PROVE  TrailInv'
<1> USE DEF TrailInv
<1>0. PICK W \in SUBSET DOMAIN usage : \E D \in SUBSET W : CountedAs(D, W)
  OBVIOUS
<1>1. PICK D \in SUBSET W : CountedAs(D, W)
  BY <1>0
<1> DEFINE t == Sees(n)
           S == SeenCalls(n, D, W)
<1>2. PICK c : /\ c = [t EXCEPT !.rows = @ \cup {tasks[n].call}]
               /\ Execute(n, "row", c, "commit")
  BY DEF InsertRow
<1>3. IsContent(t)
  BY TaskTyped
<1>4. /\ c.daily = t.daily /\ c.rows = t.rows \cup {tasks[n].call} /\ c.index = t.index
      /\ c = [daily |-> c.daily, rows |-> c.rows, index |-> c.index]
  <2> HIDE DEF t
  <2>1. PICK d, r, i : t = [daily |-> d, rows |-> r, index |-> i]
    BY <1>3 DEF IsContent
  <2>2. c = [daily |-> d, rows |-> r \cup {tasks[n].call}, index |-> i]
    BY <1>2, <2>1
  <2>3. QED
    BY <2>1, <2>2
<1>5. IsMeter(n) /\ tasks[n].pc = "row" /\ tasks[n].call \in DOMAIN usage
  BY <1>2 DEF Execute, TaskShape
<1>6. IsContent(c)
  BY <1>3, <1>4, <1>5 DEF IsContent
<1>7. Holds(n, c)
  BY <1>4, <1>5 DEF Holds
<1>8. t.rows \subseteq S /\ \A k \in Keys : t.daily[k] = MeteredOf(k, S)
  BY <1>1 DEF CountedAs, SeenCalls, Sees, Seen
<1>9. /\ \A m \in DOMAIN tasks \ {n} : IsMeter(m) /\ tasks[m].pc = "daily" => tasks[m].call \notin S
      /\ tasks[n].call \in S /\ S \in SUBSET DOMAIN usage
  BY <1>1, <1>5 DEF CountedAs, SeenCalls
<1>10. UNCHANGED <<meterVars, auditVars, attestVars, calls, crashes>>
  BY DEF InsertRow
<1>11. /\ c.rows \subseteq S /\ \A k \in Keys : c.daily[k] = MeteredOf(k, S)
       /\ Sees(n).rows \subseteq c.rows /\ Sees(n).index \subseteq c.index
  BY <1>4, <1>8, <1>9
<1>12. Follows(n, c, "commit", D, W, S)
  BY <1>1, <1>6, <1>7, <1>9, <1>11 DEF Follows
<1>13. QED
  BY <1>2, <1>10, <1>12, ExecuteKeeps

\* Tasks end, or go on with what they saw before and more.
TasksEnd ==
  /\ tasks' \in Seq(Task) /\ DOMAIN tasks' = DOMAIN tasks
  /\ \A m \in DOMAIN tasks :
       /\ tasks'[m].conn = tasks[m].conn /\ tasks'[m].call = tasks[m].call
       /\ \/ /\ tasks'[m].pc = tasks[m].pc
             /\ Sees(m).rows \subseteq Sees(m)'.rows /\ Sees(m).index \subseteq Sees(m)'.index
          \/ tasks'[m].pc = "lost"
          \/ tasks'[m].pc = "done" /\ Holds(m, file'.disk)
          \/ tasks'[m].pc = tasks[m].pc /\ tasks[m].pc \notin Statements

\* A commit, or the loss of a transaction: the file keeps what it has.
FileKeeps ==
  /\ IsFile(file, Conns)' /\ IsContent(file'.disk) /\ IsContent(file'.work) /\ RowsGrow'
  /\ file.disk.rows \subseteq file'.disk.rows /\ file.disk.index \subseteq file'.disk.index

\* No call comes; a process goes on or loses its counters.
NothingNew ==
  /\ UNCHANGED <<usage, day, lines, calls, claims>>
  /\ errors' \in Nat /\ errors <= errors' /\ crashes' \in Nat
  /\ kept' \in [Procs -> SUBSET Numbers] /\ counts' \in [Procs -> [Keys -> Nat]]
  /\ starts' \in [Procs -> Nat]
  /\ \A p \in Procs : (kept'[p] = kept[p] /\ counts'[p] = counts[p]) \/ counts'[p] = NoCounts

\* A step that only ends tasks, for better or worse.
LEMMA EndsKeep ==
  ASSUME TrailInv, TasksEnd, FileKeeps, NothingNew,
         NEW W, NEW D, W \subseteq DOMAIN usage, D \subseteq W, CountedAs(D, W)'
  PROVE  TrailInv'
<1> USE DEF TrailInv, TasksEnd, FileKeeps, NothingNew
<1>1. Numbers' = Numbers /\ \A c \in DOMAIN usage : usage'[c] = usage[c]
  BY DEF Numbers
<1>2. TypeOK'
  <2>1. \A m \in DOMAIN tasks' : tasks'[m].call \in Numbers'
    BY <1>1 DEF TypeOK
  <2>2. IsContent(file.disk)' /\ IsContent(file.work)'
    BY <1>1 DEF IsContent
  <2>3. QED
    BY <1>1, <2>1, <2>2 DEF TypeOK
<1>3. TaskShape'
  BY DEF TaskShape, IsMeter, Statements
<1>4. TasksAreStored'
  <2>1. ASSUME NEW m \in DOMAIN tasks, tasks'[m].pc = "commit"
        PROVE  Holds(m, Sees(m))'
    BY <2>1 DEF TasksAreStored, Holds, IsMeter, Statements
  <2>2. ASSUME NEW m \in DOMAIN tasks, tasks'[m].pc = "done"
        PROVE  Holds(m, file.disk)'
    BY <2>2 DEF TasksAreStored, Holds, IsMeter
  <2>3. QED
    BY <2>1, <2>2 DEF TasksAreStored
<1>5. ChargesAreNoted'
  <2>1. Cardinality(Numbers' \ lines') <= errors'
    <3>1. Cardinality(Numbers \ lines) \in Nat
      <4>1. calls \in Nat /\ 1 \in Int
        BY DEF TypeOK
      <4>2. IsFiniteSet(Numbers)
        BY <4>1, FS_Interval DEF Numbers
      <4>3. IsFiniteSet(Numbers \ lines)
        BY <4>2, FS_Subset
      <4>4. QED
        BY <4>3, FS_CardinalityType
    <3>2. errors \in Nat /\ Numbers' \ lines' = Numbers \ lines
      BY <1>1 DEF TypeOK
    <3>3. Cardinality(Numbers \ lines) <= errors
      BY DEF ChargesAreNoted
    <3>4. Cardinality(Numbers' \ lines') = Cardinality(Numbers \ lines)
      BY <3>2
    <3>5. errors \in Nat /\ errors' \in Nat /\ errors <= errors'
      BY <3>2
    <3>6. QED
      <4> HIDE DEF TrailInv, TasksEnd, FileKeeps, NothingNew
      <4>1. QED
        BY <3>1, <3>3, <3>4, <3>5
  <2>2. ASSUME NEW p \in Procs, NEW k \in Keys
        PROVE  counts'[p][k] <= MeteredOf(k, kept[p] \cap DOMAIN usage)'
    <3>1. CASE kept'[p] = kept[p] /\ counts'[p] = counts[p]
      BY <3>1 DEF ChargesAreNoted, MeteredOf
    <3>2. CASE counts'[p] = NoCounts
      <4>1. counts'[p][k] = 0
        BY <3>2 DEF NoCounts
      <4>2. MeteredOf(k, kept[p] \cap DOMAIN usage)' \in Nat
        <5>1. IsFiniteSet(DOMAIN usage)
          BY CountsAreNumbers
        <5>2. IsFiniteSet({c \in kept'[p] \cap DOMAIN usage : usage[c] = k})
          BY <5>1, FS_Subset
        <5>3. QED
          BY <5>2, FS_CardinalityType DEF MeteredOf
      <4>3. QED
        BY <4>1, <4>2
    <3>3. QED
      BY <3>1, <3>2
  <2>3. QED
    BY <1>1, <2>1, <2>2 DEF ChargesAreNoted
<1>6. QED
  BY <1>2, <1>3, <1>4, <1>5

LEMMA CommitKeeps ==
  ASSUME TrailInv, NEW n \in DOMAIN tasks, Commit(n),
         UNCHANGED <<auditVars, meterVars, attestVars, calls, crashes>>
  PROVE  TrailInv'
<1> USE DEF TrailInv
<1>0. PICK W \in SUBSET DOMAIN usage : \E D \in SUBSET W : CountedAs(D, W)
  OBVIOUS
<1>1. PICK D \in SUBSET W : CountedAs(D, W)
  BY <1>0
<1>2. /\ tasks' \in Seq(Task) /\ DOMAIN tasks' = DOMAIN tasks /\ tasks'[n].pc = "done"
      /\ \A m \in DOMAIN tasks : /\ tasks'[m].conn = tasks[m].conn
                                 /\ tasks'[m].call = tasks[m].call
                                 /\ m # n => tasks'[m].pc = tasks[m].pc
  BY MovedTasks DEF Commit, TypeOK
<1>3. /\ UNCHANGED <<usage, counts, day, kept, lines, starts, claims, calls, crashes, errors>>
      /\ file' = Committed(file, tasks[n].conn) /\ tasks[n].pc = "commit"
  BY DEF Commit, auditVars, meterVars, attestVars
<1>4. \A k, S : MeteredOf(k, S)' = MeteredOf(k, S)
  BY <1>3 DEF MeteredOf
<1>5. NothingNew
  BY <1>3 DEF NothingNew, TypeOK
<1>6. CASE file.owner = tasks[n].conn
  <2>1. file'.disk = file.work /\ file'.work = file.work /\ file'.owner = Nobody
    BY <1>3, <1>6 DEF Committed, NewFile
  <2>2. file' = [disk |-> file'.disk, work |-> file'.work, owner |-> file'.owner]
    BY <1>3, <1>6 DEF Committed, NewFile
  <2>3. IsFile(file, Conns)' /\ IsContent(file'.disk) /\ IsContent(file'.work) /\ RowsGrow'
    BY <2>1, <2>2, FileTyped DEF IsFile, RowsGrow
  <2>4. \A m \in DOMAIN tasks : Sees(m)' = file.work
    BY <1>2, <2>1 DEF Sees, Seen
  <2>5. Holds(n, file.work)
    BY <1>3, <1>6 DEF TasksAreStored, Sees, Seen
  <2>6. \A m \in DOMAIN tasks : /\ Sees(m).rows \subseteq file.work.rows
                                /\ Sees(m).index \subseteq file.work.index
    BY DEF RowsGrow, Sees, Seen
  <2>7. CountedAs(W, W)'
    BY <1>1, <1>2, <1>3, <1>4, <2>1 DEF CountedAs, IsMeter
  <2>8. /\ file.disk.rows \subseteq file'.disk.rows
        /\ file.disk.index \subseteq file'.disk.index
    BY <2>1 DEF RowsGrow
  <2>9. TasksEnd
    BY <1>2, <2>1, <2>4, <2>5, <2>6 DEF TasksEnd
  <2>10. FileKeeps
    BY <2>3, <2>8 DEF FileKeeps
  <2>11. QED
    BY <1>5, <2>7, <2>9, <2>10, EndsKeep
<1>7. CASE file.owner # tasks[n].conn
  <2>1. file' = file
    BY <1>3, <1>7 DEF Committed
  <2>2. Holds(n, file.disk)
    BY <1>3, <1>7 DEF TasksAreStored, Sees, Seen
  <2>3. \A m \in DOMAIN tasks : Sees(m)' = Sees(m)
    BY <1>2, <2>1 DEF Sees
  <2>4. CountedAs(D, W)'
    BY <1>1, <1>2, <1>3, <1>4, <2>1 DEF CountedAs, IsMeter
  <2>5. FileKeeps
    BY <2>1, FileTyped DEF TypeOK, RowsGrow, FileKeeps
  <2>6. TasksEnd
    BY <1>2, <2>1, <2>2, <2>3 DEF TasksEnd
  <2>7. QED
    BY <1>5, <2>4, <2>5, <2>6, EndsKeep
<1>8. QED
  BY <1>6, <1>7

LEMMA SwallowKeeps ==
  ASSUME TrailInv, NEW n \in DOMAIN tasks, Swallow(n),
         UNCHANGED <<auditVars, meterVars, attestVars, calls, crashes>>
  PROVE  TrailInv'
<1> USE DEF TrailInv
<1>1. PICK W \in SUBSET DOMAIN usage : \E D \in SUBSET W : CountedAs(D, W)
  OBVIOUS
<1>2. PICK D \in SUBSET W : CountedAs(D, W)
  BY <1>1
<1>3. /\ tasks' \in Seq(Task) /\ DOMAIN tasks' = DOMAIN tasks /\ tasks'[n].pc = "lost"
      /\ \A m \in DOMAIN tasks : /\ tasks'[m].conn = tasks[m].conn
                                 /\ tasks'[m].call = tasks[m].call
                                 /\ m # n => tasks'[m].pc = tasks[m].pc
  BY MovedTasks DEF Swallow, TypeOK
<1>4. /\ UNCHANGED <<usage, counts, day, kept, lines, starts, claims, calls, crashes, file>>
      /\ errors' \in Nat /\ errors <= errors'
  BY DEF Swallow, Fails, TimesOut, auditVars, meterVars, attestVars, TypeOK
<1>5. \A k, S : MeteredOf(k, S)' = MeteredOf(k, S)
  BY <1>4 DEF MeteredOf
<1>6. NothingNew
  BY <1>4 DEF NothingNew, TypeOK
<1>7. \A m \in DOMAIN tasks : Sees(m)' = Sees(m)
  BY <1>3, <1>4 DEF Sees
<1>8. CountedAs(D, W)'
  BY <1>2, <1>3, <1>4, <1>5 DEF CountedAs, IsMeter
<1>9. FileKeeps
  BY <1>4, FileTyped DEF TypeOK, RowsGrow, FileKeeps
<1>10. TasksEnd
  BY <1>3, <1>7 DEF TasksEnd
<1>11. QED
  BY <1>6, <1>8, <1>9, <1>10, EndsKeep

LEMMA CrashKeeps ==
  ASSUME TrailInv, NEW p \in Procs, Crash(p)
  PROVE  TrailInv'
<1> USE DEF TrailInv
<1>1. PICK W \in SUBSET DOMAIN usage : \E D \in SUBSET W : CountedAs(D, W)
  OBVIOUS
<1>2. PICK D \in SUBSET W : CountedAs(D, W)
  BY <1>1
<1>3. /\ UNCHANGED <<usage, day, lines, claims, calls, errors>>
      /\ kept' = [kept EXCEPT ![p] = {}] /\ counts' = [counts EXCEPT ![p] = NoCounts]
      /\ starts' = [starts EXCEPT ![p] = @ + 1] /\ crashes' \in Nat
      /\ file' = Dropped(Dropped(file, <<p, "audit">>), <<p, "meter">>)
      /\ tasks' = [n \in DOMAIN tasks |-> IF tasks[n].conn[1] = p /\ Waiting(n)
                                          THEN [tasks[n] EXCEPT !.pc = "lost"] ELSE tasks[n]]
  BY DEF Crash, Ended, AuditEnded, MeterEnded, Restarted, TypeOK
<1>4. \A k, S : MeteredOf(k, S)' = MeteredOf(k, S)
  BY <1>3 DEF MeteredOf
<1>5. NothingNew
  <2>1. NoCounts \in [Keys -> Nat]
    BY DEF NoCounts
  <2>2. QED
    BY <1>3, <2>1 DEF NothingNew, TypeOK
<1>6. tasks' \in Seq(Task) /\ DOMAIN tasks' = DOMAIN tasks
  <2>1. ASSUME NEW n \in DOMAIN tasks PROVE tasks'[n] \in Task
    <3>1. tasks[n] \in Task
      BY DEF TypeOK
    <3>2. [tasks[n] EXCEPT !.pc = "lost"] \in Task
      BY <3>1 DEF Task
    <3>3. QED
      BY <1>3, <3>1, <3>2
  <2>2. Len(tasks) \in Nat /\ DOMAIN tasks = 1 .. Len(tasks)
    BY DEF TypeOK
  <2>3. DOMAIN tasks' = 1 .. Len(tasks) /\ tasks' = [n \in 1 .. Len(tasks) |-> tasks'[n]]
    BY <1>3, <2>2
  <2>4. QED
    BY <2>1, <2>2, <2>3
<1>7. ASSUME NEW m \in DOMAIN tasks
      PROVE  /\ tasks'[m].conn = tasks[m].conn /\ tasks'[m].call = tasks[m].call
             /\ tasks'[m].pc = IF tasks[m].conn[1] = p /\ Waiting(m) THEN "lost" ELSE tasks[m].pc
  <2>1. tasks[m] \in Task
    BY DEF TypeOK
  <2>2. QED
    BY <1>3, <2>1 DEF Task
<1>8. <<p, "audit">> \in Conns /\ <<p, "meter">> \in Conns
  BY DEF Conns, Components
<1>9. \A m \in DOMAIN tasks : tasks[m].conn[1] = p =>
         tasks[m].conn \in {<<p, "audit">>, <<p, "meter">>}
  BY TaskTyped DEF Conns, Components
<1>10. CASE file.owner \in {<<p, "audit">>, <<p, "meter">>}
  <2>1. file' = NewFile(file.disk)
    BY <1>3, <1>8, <1>10, ConnsAssumption DEF Dropped, NewFile
  <2>2. file'.disk = file.disk /\ file'.work = file.disk /\ file'.owner = Nobody
    BY <2>1 DEF NewFile
  <2>3. FileKeeps
    BY <2>1, <2>2, FileTyped DEF FileKeeps, IsFile, NewFile, RowsGrow
  <2>4. \A m \in DOMAIN tasks : tasks[m].conn[1] # p => Sees(m)' = Sees(m)
    BY <1>7, <1>10, <2>2 DEF Sees, Seen
  <2>5. TasksEnd
    BY <1>6, <1>7, <2>4 DEF TasksEnd, Waiting
  <2>6. CountedAs(D, D)'
    <3>1. /\ file'.disk.rows \subseteq D /\ file'.work.rows \subseteq D
          /\ \A k \in Keys : /\ file'.disk.daily[k] = MeteredOf(k, D)'
                             /\ file'.work.daily[k] = MeteredOf(k, D)'
      BY <1>2, <1>4, <2>2 DEF CountedAs
    <3>2. ASSUME NEW m \in DOMAIN tasks, IsMeter(m)
          PROVE  /\ tasks'[m].pc = "daily" => tasks[m].call \notin D
                 /\ tasks'[m].pc = "row" => tasks[m].call \in D
      <4>1. tasks'[m].pc \in {"daily", "row"} =>
              tasks'[m].pc = tasks[m].pc /\ tasks[m].conn[1] # p
        BY <1>7 DEF Waiting, Statements
      <4>2. tasks[m].conn[1] # p => file.owner # tasks[m].conn
        BY <1>10
      <4>3. QED
        BY <1>2, <3>2, <4>1, <4>2 DEF CountedAs
    <3>3. QED
      BY <1>6, <1>7, <3>1, <3>2 DEF CountedAs, IsMeter
  <2>7. QED
    BY <1>5, <2>3, <2>5, <2>6, EndsKeep
<1>11. CASE file.owner \notin {<<p, "audit">>, <<p, "meter">>}
  <2>1. file' = file
    BY <1>3, <1>11 DEF Dropped
  <2>2. FileKeeps
    BY <2>1, FileTyped DEF TypeOK, RowsGrow, FileKeeps
  <2>3. \A m \in DOMAIN tasks : Sees(m)' = Sees(m)
    BY <1>7, <2>1 DEF Sees
  <2>4. TasksEnd
    BY <1>6, <1>7, <2>3 DEF TasksEnd
  <2>5. CountedAs(D, W)'
    <3>1. \A m \in DOMAIN tasks : tasks'[m].pc \in {"daily", "row"} => tasks'[m].pc = tasks[m].pc
      BY <1>7
    <3>2. QED
      BY <1>2, <1>4, <1>6, <1>7, <2>1, <3>1 DEF CountedAs, IsMeter
  <2>6. QED
    BY <1>5, <2>2, <2>4, <2>5, EndsKeep
<1>12. QED
  BY <1>10, <1>11

\* The tasks of a call come at the end.
TasksCome(p, call, metered) ==
  tasks' = tasks \o << NewTask(p, "audit", call) >>
                 \o (IF metered THEN << NewTask(p, "meter", call) >> ELSE << >>)

\* They are one for the trail and perhaps one for the meter.
LEMMA TasksOfCall ==
  ASSUME TypeOK, NEW p \in Procs, NEW metered \in BOOLEAN, NEW call \in Nat \ {0},
         TasksCome(p, call, metered)
  PROVE  /\ tasks' \in Seq(Task)
         /\ \A m \in DOMAIN tasks : m \in DOMAIN tasks' /\ tasks'[m] = tasks[m]
         /\ \A m \in DOMAIN tasks' \ DOMAIN tasks :
              \/ m = Len(tasks) + 1 /\ tasks'[m] = NewTask(p, "audit", call)
              \/ m = Len(tasks) + 2 /\ tasks'[m] = NewTask(p, "meter", call) /\ metered
<1>1. NewTask(p, "audit", call) \in Task /\ NewTask(p, "meter", call) \in Task
  BY DEF NewTask, Task, Statements, Conns, Components
<1>2. PICK a, b : a = NewTask(p, "audit", call) /\ b = NewTask(p, "meter", call)
  OBVIOUS
<1>3. tasks \in Seq(Task) /\ Len(tasks) \in Nat
  BY DEF TypeOK
<1>4. CASE metered
  <2>1. tasks' = tasks \o << a >> \o << b >>
    BY <1>2, <1>4 DEF TasksCome
  <2>2. /\ tasks' \in Seq(Task) /\ Len(tasks') = Len(tasks) + 2
        /\ \A m \in DOMAIN tasks : tasks'[m] = tasks[m]
        /\ tasks'[Len(tasks) + 1] = a /\ tasks'[Len(tasks) + 2] = b
    BY <1>1, <1>2, <1>3, <2>1
  <2>3. QED
    BY <1>2, <1>3, <1>4, <2>2
<1>5. CASE ~metered
  <2>1. tasks' = tasks \o << a >>
    BY <1>1, <1>2, <1>3, <1>5 DEF TasksCome
  <2>2. /\ tasks' \in Seq(Task) /\ Len(tasks') = Len(tasks) + 1
        /\ \A m \in DOMAIN tasks : tasks'[m] = tasks[m] /\ tasks'[Len(tasks) + 1] = a
    BY <1>1, <1>2, <1>3, <2>1
  <2>3. tasks'[Len(tasks) + 1] = a
    BY <1>1, <1>2, <1>3, <2>1
  <2>4. QED
    BY <1>2, <1>3, <2>2, <2>3
<1>6. QED
  BY <1>4, <1>5

LEMMA CallKeeps ==
  ASSUME TrailInv, ClaimsAreSigned, NEW p \in Procs, NEW t \in Tenants, NEW tool \in Tools,
         NEW decision \in Decisions, NEW metered \in BOOLEAN,
         Call(p, t, tool, decision, metered)
  PROVE  TrailInv'
<1> USE DEF TrailInv
<1>1. PICK W \in SUBSET DOMAIN usage : \E D \in SUBSET W : CountedAs(D, W)
  OBVIOUS
<1>2. PICK D \in SUBSET W : CountedAs(D, W)
  BY <1>1
<1>3. PICK call : call = calls + 1
  OBVIOUS
<1>4. /\ call \in Nat \ {0} /\ calls' = call /\ Numbers' = Numbers \cup {call}
      /\ call \notin Numbers
  BY <1>3 DEF Call, Numbers, TypeOK
<1>5. /\ file' = file /\ crashes' = crashes /\ starts' = starts /\ day' = day
      /\ kept' = [kept EXCEPT ![p] = @ \cup {call}]
      /\ \/ lines' = lines \cup {call} /\ errors' = errors
         \/ lines' = lines /\ errors' = errors + 1
  BY <1>3 DEF Call, Issue, attestVars, Note, Fails, Meter, meterVars
<1>6. /\ tasks' \in Seq(Task)
      /\ \A m \in DOMAIN tasks : m \in DOMAIN tasks' /\ tasks'[m] = tasks[m]
      /\ \A m \in DOMAIN tasks' \ DOMAIN tasks :
           \/ m = Len(tasks) + 1 /\ tasks'[m] = NewTask(p, "audit", call)
           \/ m = Len(tasks) + 2 /\ tasks'[m] = NewTask(p, "meter", call) /\ metered
  <2>1. TasksCome(p, call, metered)
    BY <1>3 DEF Call, TasksCome
  <2>2. TypeOK
    OBVIOUS
  <2> HIDE DEF TrailInv
  <2>3. QED
    BY <1>4, <2>1, <2>2, TasksOfCall
<1>7. PICK key : key = <<t, day>> /\ key \in Keys
  <2>1. day \in 0 .. MaxDays
    BY MeterAssumption DEF TypeOK
  <2>2. <<t, day>> \in Keys
    BY <2>1 DEF Keys
  <2>3. QED
    BY <2>2
<1>8. /\ DOMAIN usage \subseteq DOMAIN usage'
      /\ \A c \in DOMAIN usage : usage'[c] = usage[c]
      /\ usage' \in [DOMAIN usage' -> Keys]
      /\ DOMAIN usage' = IF metered THEN DOMAIN usage \cup {call} ELSE DOMAIN usage
      /\ metered => usage'[call] = key
  <2>1. CASE metered
    <3>1. usage' = [c \in DOMAIN usage \cup {call} |-> IF c = call THEN key ELSE usage[c]]
      BY <1>3, <1>7, <2>1 DEF Call, Meter
    <3>2. call \notin DOMAIN usage /\ usage \in [DOMAIN usage -> Keys]
      BY <1>4 DEF TypeOK
    <3>3. QED
      BY <1>7, <2>1, <3>1, <3>2
  <2>2. CASE ~metered
    <3>1. usage' = usage /\ usage \in [DOMAIN usage -> Keys]
      BY <2>2 DEF Call, meterVars, TypeOK
    <3>2. QED
      BY <2>2, <3>1
  <2>3. QED
    BY <2>1, <2>2
<1>9. /\ counts' \in [Procs -> [Keys -> Nat]]
      /\ \A q \in Procs \ {p} : counts'[q] = counts[q]
      /\ \A k \in Keys : counts'[p][k] = counts[p][k] + (IF metered /\ k = key THEN 1 ELSE 0)
  <2>1. counts \in [Procs -> [Keys -> Nat]]
    BY DEF TypeOK
  <2>2. CASE metered
    <3>1. counts' = [counts EXCEPT ![p] = Plus(@, key)]
      BY <1>7, <2>2 DEF Call, Meter
    <3>2. /\ Plus(counts[p], key) \in [Keys -> Nat]
          /\ \A k \in Keys : Plus(counts[p], key)[k] = counts[p][k] + (IF k = key THEN 1 ELSE 0)
      BY <1>7, <2>1 DEF Plus
    <3>3. QED
      BY <2>1, <2>2, <3>1, <3>2
  <2>3. CASE ~metered
    BY <2>1, <2>3 DEF Call, meterVars
  <2>4. QED
    BY <2>2, <2>3
<1>10. TypeOK'
  <2>1. IsContent(file.disk)' /\ IsContent(file.work)'
    BY <1>4, <1>5, <1>8, FileTyped DEF IsContent
  <2>2. \A m \in DOMAIN tasks' : tasks'[m].call \in Numbers'
    BY <1>4, <1>6 DEF NewTask, TypeOK
  <2>3. kept' \in [Procs -> SUBSET Numbers'] /\ lines' \subseteq Numbers'
    BY <1>4, <1>5 DEF TypeOK
  <2>4. DOMAIN usage' \subseteq Numbers'
    BY <1>4, <1>8 DEF TypeOK
  <2>5. {errors', calls', crashes', day'} \subseteq Nat
    BY <1>4, <1>5 DEF TypeOK
  <2>6. IsFile(file, Conns)' /\ starts' \in [Procs -> Nat]
    BY <1>5 DEF TypeOK
  <2>7. QED
    BY <1>6, <1>8, <1>9, <2>1, <2>2, <2>3, <2>4, <2>5, <2>6 DEF TypeOK
<1>11. /\ NewTask(p, "audit", call).conn[2] = "audit" /\ NewTask(p, "audit", call).pc = "event"
       /\ NewTask(p, "meter", call).conn[2] = "meter" /\ NewTask(p, "meter", call).pc = "daily"
       /\ NewTask(p, "meter", call).call = call
  BY DEF NewTask
<1>12. \A m \in DOMAIN tasks : tasks[m].call # call
  BY <1>4 DEF TypeOK
<1>13. TaskShape'
  <2>1. ASSUME NEW m \in DOMAIN tasks'
        PROVE  IF IsMeter(m)' THEN tasks'[m].call \in DOMAIN usage' /\ tasks'[m].pc # "event"
                              ELSE tasks'[m].pc \notin {"daily", "row"}
    <3>1. CASE m \in DOMAIN tasks
      BY <1>6, <1>8, <3>1 DEF TaskShape, IsMeter
    <3>2. CASE m \notin DOMAIN tasks
      BY <1>6, <1>8, <1>11, <3>2 DEF IsMeter
    <3>3. QED
      BY <3>1, <3>2
  <2>2. ASSUME NEW m \in DOMAIN tasks', NEW n \in DOMAIN tasks',
               IsMeter(m)', IsMeter(n)', tasks'[m].call = tasks'[n].call
        PROVE  m = n
    <3>1. \A l \in DOMAIN tasks' \ DOMAIN tasks :
            IsMeter(l)' => l = Len(tasks) + 2 /\ tasks'[l].call = call
      BY <1>6, <1>11 DEF IsMeter
    <3>2. \A l \in DOMAIN tasks : tasks'[l].call # call /\ (IsMeter(l)' => IsMeter(l))
      BY <1>6, <1>12 DEF IsMeter
    <3>3. QED
      BY <1>6, <2>2, <3>1, <3>2 DEF TaskShape
  <2>3. QED
    BY <2>1, <2>2 DEF TaskShape
<1>14. TasksAreStored'
  <2>1. \A m \in DOMAIN tasks' \ DOMAIN tasks : tasks'[m].pc \in {"event", "daily"}
    BY <1>6, <1>11
  <2>2. QED
    BY <1>5, <1>6, <2>1 DEF TasksAreStored, Holds, IsMeter, Sees
<1>15. RowsGrow'
  BY <1>5 DEF RowsGrow
<1>16. CountedAs(D, W)'
  <2>1. \A k : MeteredOf(k, D)' = MeteredOf(k, D) /\ MeteredOf(k, W)' = MeteredOf(k, W)
    BY <1>8, SameCount
  <2>2. /\ file'.disk.rows \subseteq D /\ file'.work.rows \subseteq W
        /\ \A k \in Keys : /\ file'.disk.daily[k] = MeteredOf(k, D)'
                           /\ file'.work.daily[k] = MeteredOf(k, W)'
    BY <1>2, <1>5, <2>1 DEF CountedAs
  <2>3. ASSUME NEW m \in DOMAIN tasks', IsMeter(m)'
        PROVE  /\ tasks'[m].pc = "daily" => tasks'[m].call \notin W
               /\ tasks'[m].pc = "row" =>
                    tasks'[m].call \in IF file'.owner = tasks'[m].conn THEN W ELSE D
    <3>1. CASE m \in DOMAIN tasks
      BY <1>2, <1>5, <1>6, <2>3, <3>1 DEF CountedAs, IsMeter
    <3>2. CASE m \notin DOMAIN tasks
      <4>1. tasks'[m].pc = "daily" /\ tasks'[m].call = call
        BY <1>6, <1>11, <2>3, <3>2 DEF IsMeter
      <4>2. call \notin W
        BY <1>4 DEF TypeOK
      <4>3. QED
        BY <4>1, <4>2
    <3>3. QED
      BY <3>1, <3>2
  <2>4. QED
    BY <2>2, <2>3 DEF CountedAs
<1>17. ChargesAreNoted'
  <2>1. Cardinality(Numbers' \ lines') <= errors'
    <3>1. IsFiniteSet(Numbers) /\ IsFiniteSet(Numbers \ lines)
      <4>1. calls \in Nat /\ 1 \in Int
        BY DEF TypeOK
      <4>2. IsFiniteSet(Numbers)
        BY <4>1, FS_Interval DEF Numbers
      <4>3. QED
        BY <4>2, FS_Subset
    <3>2. /\ Cardinality(Numbers \ lines) \in Nat
          /\ Cardinality((Numbers \ lines) \cup {call}) <= Cardinality(Numbers \ lines) + 1
      <4> DEFINE S == Numbers \ lines
      <4>1. IsFiniteSet(S)
        BY <3>1
      <4> HIDE DEF S
      <4>2. Cardinality(S) \in Nat
        BY <4>1, FS_CardinalityType
      <4>3. Cardinality(S \cup {call}) = IF call \in S THEN Cardinality(S) ELSE Cardinality(S) + 1
        BY <4>1, FS_AddElement
      <4>4. QED
        BY <4>2, <4>3 DEF S
    <3>3. errors \in Nat /\ Cardinality(Numbers \ lines) <= errors
      BY DEF TypeOK, ChargesAreNoted
    <3>4. CASE lines' = lines \cup {call} /\ errors' = errors
      <4>1. Numbers' \ lines' = Numbers \ lines
        BY <1>4, <3>4
      <4>2. QED
        BY <3>3, <3>4, <4>1
    <3>5. CASE lines' = lines /\ errors' = errors + 1
      <4>1. Numbers' \ lines' = (Numbers \ lines) \cup {call}
        BY <1>4, <3>5 DEF TypeOK
      <4>2. Cardinality(Numbers' \ lines') <= Cardinality(Numbers \ lines) + 1
        BY <3>2, <4>1
      <4>3. Cardinality(Numbers' \ lines') \in Nat
        BY <3>1, <4>1, FS_AddElement, FS_CardinalityType
      <4>4. QED
        BY <3>2, <3>3, <3>5, <4>2, <4>3
    <3>6. QED
      BY <1>5, <3>4, <3>5
  <2>2. ASSUME NEW q \in Procs, NEW k \in Keys
        PROVE  counts'[q][k] <= MeteredOf(k, kept[q] \cap DOMAIN usage)'
    <3> DEFINE R == {c \in kept[q] \cap DOMAIN usage : usage[c] = k}
               N == {c \in kept'[q] \cap DOMAIN usage' : usage'[c] = k}
    <3>1. kept[q] \subseteq Numbers /\ call \notin R
      BY <1>4 DEF TypeOK
    <3>2. N = IF q = p /\ metered /\ k = key THEN R \cup {call} ELSE R
      BY <1>4, <1>5, <1>8, <3>1 DEF TypeOK
    <3>3. IsFiniteSet(R)
      <4>1. IsFiniteSet(DOMAIN usage)
        BY CountsAreNumbers
      <4>2. QED
        BY <4>1, FS_Subset
    <3>4. counts[q][k] <= Cardinality(R) /\ counts[q][k] \in Nat
      BY DEF ChargesAreNoted, MeteredOf, TypeOK
    <3>5. counts'[q][k] = counts[q][k] + (IF q = p /\ metered /\ k = key THEN 1 ELSE 0)
      BY <1>9, <3>4
    <3> HIDE DEF R
    <3>6. Cardinality(R) \in Nat /\ Cardinality(R \cup {call}) = Cardinality(R) + 1
      BY <3>1, <3>3, FS_CardinalityType, FS_AddElement
    <3>7. counts'[q][k] <= Cardinality(N)
      <4> HIDE DEF N
      <4>1. QED
        BY <3>2, <3>4, <3>5, <3>6
    <3>8. QED
      BY <3>7 DEF MeteredOf
  <2>3. \A i \in DOMAIN claims' : claims'[i].fields.id \in Numbers'
    <3>1. claims \in Seq(SignedClaims) /\ \A i \in DOMAIN claims : claims[i].fields.id \in Numbers
      BY DEF ClaimsAreSigned, ChargesAreNoted
    <3>2. CASE tool \in Privileged
      <4>1. PICK new : /\ new = NewClaim(p, call, tool, decision)
                       /\ claims' = Append(claims, new)
        BY <1>3, <3>2 DEF Call, Issue
      <4>2. new.fields.id = call
        BY <4>1 DEF NewClaim
      <4>3. QED
        BY <1>4, <3>1, <4>1, <4>2
    <3>3. CASE tool \notin Privileged
      BY <1>4, <3>1, <3>3 DEF Call, attestVars
    <3>4. QED
      BY <3>2, <3>3
  <2>4. QED
    BY <2>1, <2>2, <2>3 DEF ChargesAreNoted
<1>18. D \in SUBSET W /\ W \in SUBSET DOMAIN usage'
  BY <1>8
<1>19. QED
  BY <1>5, <1>10, <1>13, <1>14, <1>15, <1>16, <1>17, <1>18

LEMMA InitTrail == Init => TrailInv
<1> SUFFICES ASSUME Init PROVE TrailInv
  OBVIOUS
<1> DEFINE empty == [daily |-> NoCounts, rows |-> {}, index |-> {}]
<1>1. /\ file = [disk |-> empty, work |-> empty, owner |-> Nobody] /\ tasks = << >> /\ errors = 0
      /\ kept = [p \in Procs |-> {}] /\ lines = {}
      /\ usage = [c \in {} |-> <<>>] /\ counts = [p \in Procs |-> NoCounts] /\ day = 0
      /\ calls = 0 /\ crashes = 0
  BY DEF Init, NewFile, AuditInit, MeterInit
<1>2. starts \in [Procs -> Nat] /\ claims = << >>
  BY DEF Init, AttestInit
<1>3. DOMAIN usage = {}
  BY <1>1
<1>4. NoCounts \in [Keys -> Nat] /\ \A k \in Keys : NoCounts[k] = 0
  BY DEF NoCounts
<1>5. \A k : MeteredOf(k, {}) = 0
  <2>1. \A k : {c \in {} : usage[c] = k} = {}
    OBVIOUS
  <2>2. QED
    BY <2>1, FS_EmptySet DEF MeteredOf
<1>6. TypeOK /\ day <= MaxDays
  <2>1. IsContent(empty)
    BY <1>4 DEF IsContent
  <2>2. IsFile(file, Conns)
    BY <1>1 DEF IsFile
  <2>3. usage \in [DOMAIN usage -> Keys]
    BY <1>1
  <2>4. QED
    BY <1>1, <1>4, <1>2, <1>3, <2>1, <2>2, <2>3, MeterAssumption DEF TypeOK
<1>7. TaskShape /\ TasksAreStored /\ RowsGrow
  BY <1>1 DEF TaskShape, TasksAreStored, RowsGrow
<1>8. CountedAs({}, {})
  BY <1>1, <1>4, <1>5 DEF CountedAs
<1>9. ChargesAreNoted
  <2>1. Cardinality(Numbers \ lines) = 0 /\ errors = 0
    <3>1. Numbers \ lines = {}
      BY <1>1 DEF Numbers
    <3>2. QED
      BY <1>1, <3>1, FS_EmptySet
  <2>2. \A p \in Procs : kept[p] \cap DOMAIN usage = {}
    BY <1>3
  <2>3. QED
    <3>1. Cardinality(Numbers \ lines) <= errors
      BY <2>1
    <3>2. \A p \in Procs, k \in Keys : counts[p][k] <= MeteredOf(k, kept[p] \cap DOMAIN usage)
      BY <1>1, <1>4, <1>5, <2>2
    <3>3. QED
      BY <1>2, <3>1, <3>2 DEF ChargesAreNoted
<1>10. QED
  BY <1>6, <1>7, <1>8, <1>9 DEF TrailInv

LEMMA MidnightKeeps ==
  ASSUME TrailInv, Midnight
  PROVE  TrailInv'
<1> USE DEF TrailInv
<1>1. /\ UNCHANGED <<file, tasks, errors, kept, lines, usage, counts, starts, claims, calls, crashes>>
      /\ day' \in Nat /\ day' <= MaxDays
  BY MeterAssumption DEF Midnight, NextDay, backgroundVars, auditVars, attestVars, TypeOK
<1>2. TypeOK'
  BY <1>1 DEF TypeOK, IsContent, Numbers
<1>3. TaskShape' /\ TasksAreStored' /\ RowsGrow'
  BY <1>1 DEF TaskShape, TasksAreStored, RowsGrow, IsMeter, Holds, Sees
<1>4. \A D, W : CountedAs(D, W) => CountedAs(D, W)'
  BY <1>1 DEF CountedAs, IsMeter, MeteredOf
<1>5. ChargesAreNoted'
  BY <1>1 DEF ChargesAreNoted, Numbers, MeteredOf
<1>6. QED
  BY <1>1, <1>2, <1>3, <1>4, <1>5

LEMMA StutterKeeps ==
  ASSUME TrailInv, UNCHANGED vars
  PROVE  TrailInv'
<1> USE DEF TrailInv
<1>1. UNCHANGED <<file, tasks, errors, kept, lines, usage, counts, day, starts, claims, calls, crashes>>
  BY DEF vars, backgroundVars, auditVars, meterVars, attestVars
<1>2. TypeOK' /\ day' <= MaxDays
  BY <1>1 DEF TypeOK, IsContent, Numbers
<1>3. TaskShape' /\ TasksAreStored' /\ RowsGrow'
  BY <1>1 DEF TaskShape, TasksAreStored, RowsGrow, IsMeter, Holds, Sees
<1>4. \A D, W : CountedAs(D, W) => CountedAs(D, W)'
  BY <1>1 DEF CountedAs, IsMeter, MeteredOf
<1>5. ChargesAreNoted'
  BY <1>1 DEF ChargesAreNoted, Numbers, MeteredOf
<1>6. QED
  BY <1>1, <1>2, <1>3, <1>4, <1>5

LEMMA StepTrail == TrailInv /\ ClaimsAreSigned /\ [Next]_vars => TrailInv'
<1> SUFFICES ASSUME TrailInv, ClaimsAreSigned, [Next]_vars PROVE TrailInv'
  OBVIOUS
<1>1. ASSUME NEW p \in Procs, NEW t \in Tenants, NEW tool \in Tools,
             NEW decision \in Decisions, NEW metered \in BOOLEAN,
             Call(p, t, tool, decision, metered)
      PROVE  TrailInv'
  BY <1>1, CallKeeps
<1>2. ASSUME NEW n \in DOMAIN tasks, Step(n) PROVE TrailInv'
  <2>1. UNCHANGED <<attestVars, calls, crashes>>
    BY <1>2 DEF Step
  <2>2. CASE InsertEvent(n) /\ UNCHANGED meterVars
    BY <2>1, <2>2, InsertEventKeeps
  <2>3. CASE InsertDaily(n) /\ UNCHANGED auditVars
    BY <2>1, <2>3, InsertDailyKeeps
  <2>4. CASE InsertRow(n) /\ UNCHANGED auditVars
    BY <2>1, <2>4, InsertRowKeeps
  <2>5. CASE Commit(n) /\ UNCHANGED <<auditVars, meterVars>>
    BY <2>1, <2>5, CommitKeeps
  <2>6. CASE Swallow(n) /\ UNCHANGED <<auditVars, meterVars>>
    BY <2>1, <2>6, SwallowKeeps
  <2>7. QED
    BY <1>2, <2>2, <2>3, <2>4, <2>5, <2>6 DEF Step
<1>3. ASSUME NEW p \in Procs, Crash(p) PROVE TrailInv'
  BY <1>3, CrashKeeps
<1>4. CASE Midnight
  BY <1>4, MidnightKeeps
<1>5. CASE UNCHANGED vars
  BY <1>5, StutterKeeps
<1>6. QED
  BY <1>1, <1>2, <1>3, <1>4, <1>5 DEF Next

LEMMA TrailInvariant == Spec => []TrailInv
<1>1. Spec => []ClaimsAreSigned
  BY InitSigned, StepSigned, PTL DEF Spec
<1>2. QED
  BY <1>1, InitTrail, StepTrail, PTL DEF Spec
-----------------------------------------------------------------------------
\* The state has its type at any time, for any number of processes, tenants and
\* calls.
THEOREM TrailsTyped == Spec => []TypeOK
<1>1. TrailInv => TypeOK
  BY DEF TrailInv
<1>2. QED
  BY <1>1, TrailInvariant, PTL

\* What the task of an event was told is true for good (metering.py,
\* audit.py): the event is stored and counted, whatever became of other tasks.
THEOREM DoneStaysDurable == Spec => []DoneIsDurable
<1>1. TrailInv => DoneIsDurable
  <2> SUFFICES ASSUME TrailInv PROVE DoneIsDurable
    OBVIOUS
  <2> USE DEF TrailInv
  <2> DEFINE done == {n \in DOMAIN tasks : tasks[n].pc = "done"}
             metered == {tasks[n].call : n \in {m \in done : tasks[m].conn[2] = "meter"}}
  <2>1. PICK W \in SUBSET DOMAIN usage : \E D \in SUBSET W : CountedAs(D, W)
    OBVIOUS
  <2>2. PICK D \in SUBSET W : CountedAs(D, W)
    BY <2>1
  <2>3. \A n \in done : tasks[n].conn[2] \in {"audit", "meter"}
    BY TaskTyped DEF Conns, Components
  <2>4. \A n \in done : Stored(n)
    BY <2>3 DEF TasksAreStored, Stored, Holds, IsMeter
  <2>5. metered \subseteq file.disk.rows
    BY DEF TasksAreStored, Holds, IsMeter
  <2>6. metered \in SUBSET D /\ D \in SUBSET DOMAIN usage
    BY <2>2, <2>5 DEF CountedAs
  <2>7. \A k \in Keys : MeteredOf(k, metered) <= file.disk.daily[k]
    <3> HIDE DEF metered, done
    <3>1. ASSUME NEW k \in Keys PROVE MeteredOf(k, metered) <= file.disk.daily[k]
      <4>1. MeteredOf(k, metered) <= MeteredOf(k, D)
        BY <2>6, CountsGrow
      <4>2. QED
        BY <2>2, <4>1 DEF CountedAs
    <3>2. QED
      BY <3>1
  <2>8. QED
    BY <2>4, <2>7 DEF DoneIsDurable
<1>2. QED
  BY <1>1, TrailInvariant, PTL

\* Calls that were metered, claimed or stored without a line in the JSONL file are
\* no more than the appends that raised (audit.py:record), and what a process
\* counts against a quota is among the events it keeps.
THEOREM ChargesStayOnTrail == Spec => []ChargesAreOnTrail
<1>1. TrailInv => ChargesAreOnTrail
  <2> SUFFICES ASSUME TrailInv PROVE ChargesAreOnTrail
    OBVIOUS
  <2> USE DEF TrailInv
  <2> DEFINE told == DOMAIN usage \cup file.disk.rows \cup file.disk.index
                       \cup {claims[i].fields.id : i \in DOMAIN claims}
  <2>1. told \subseteq Numbers
    BY DEF TypeOK, IsContent, ChargesAreNoted
  <2>2. IsFiniteSet(Numbers \ lines)
    <3>1. calls \in Nat /\ 1 \in Int
      BY DEF TypeOK
    <3>2. IsFiniteSet(Numbers)
      BY <3>1, FS_Interval DEF Numbers
    <3>3. QED
      BY <3>2, FS_Subset
  <2>3. Cardinality(told \ lines) <= errors
    <3> HIDE DEF told
    <3>1. told \ lines \in SUBSET (Numbers \ lines)
      BY <2>1
    <3>2. IsFiniteSet(told \ lines) /\ Cardinality(told \ lines) <= Cardinality(Numbers \ lines)
      BY <2>2, <3>1, FS_Subset
    <3>3. Cardinality(told \ lines) \in Nat /\ Cardinality(Numbers \ lines) \in Nat
      BY <2>2, <3>2, FS_CardinalityType
    <3>4. Cardinality(Numbers \ lines) <= errors /\ errors \in Nat
      BY DEF ChargesAreNoted, TypeOK
    <3>5. QED
      BY <3>2, <3>3, <3>4
  <2>4. QED
    BY <2>3 DEF ChargesAreNoted, ChargesAreOnTrail
<1>2. QED
  BY <1>1, TrailInvariant, PTL

\* The durable counter of a day lies between the events stored for it and the events
\* recorded (metering.py:_record_async), whatever raises or dies on the way.
THEOREM NeverOvercounted == Spec => []NothingIsOvercounted
<1>1. TrailInv => NothingIsOvercounted
  <2> SUFFICES ASSUME TrailInv, NEW k \in Keys
               PROVE  /\ MeteredOf(k, file.disk.rows) <= file.disk.daily[k]
                      /\ file.disk.daily[k] <= MeteredOf(k, DOMAIN usage)
    BY DEF NothingIsOvercounted
  <2> USE DEF TrailInv
  <2>1. PICK W \in SUBSET DOMAIN usage : \E D \in SUBSET W : CountedAs(D, W)
    OBVIOUS
  <2>2. PICK D \in SUBSET W : CountedAs(D, W)
    BY <2>1
  <2>3. file.disk.rows \in SUBSET D /\ D \in SUBSET DOMAIN usage
    BY <2>2 DEF CountedAs
  <2>4. file.disk.daily[k] = MeteredOf(k, D)
    BY <2>2 DEF CountedAs
  <2>5. MeteredOf(k, file.disk.rows) <= MeteredOf(k, D)
    BY <2>3, CountsGrow
  <2>6. MeteredOf(k, D) <= MeteredOf(k, DOMAIN usage)
    BY <2>3, CountsGrow
  <2>7. QED
    BY <2>4, <2>5, <2>6
<1>2. QED
  BY <1>1, TrailInvariant, PTL
=============================================================================
