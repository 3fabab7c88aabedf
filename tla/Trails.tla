------------------------------- MODULE Trails -------------------------------
(***************************************************************************)
(* What a tool call leaves behind, composed: the gate                      *)
(* (src/src/yodmcp/tools/gate.py) issues a claim for a privileged tool,    *)
(* records an audit event and, if the call is within policy and quota,     *)
(* meters it, all in one step; the tasks created on the way write to the   *)
(* file of all processes while further calls come and processes end.       *)
(***************************************************************************)
EXTENDS AuditTrail, Metering, Attestation

CONSTANTS
  Privileged,   \* the tools a claim is issued for
  Tools,        \* the tools called
  MaxCalls,     \* bound: calls
  MaxCrashes    \* bound: ends of processes

ASSUME TrailsAssumption == /\ Privileged \subseteq Tools
                           /\ {MaxCalls, MaxCrashes} \subseteq Nat

VARIABLES calls, crashes    \* the number of calls and of ends

vars == <<backgroundVars, auditVars, meterVars, attestVars, calls, crashes>>

Init == /\ file = NewFile([daily |-> NoCounts, rows |-> {}, index |-> {}])
        /\ tasks = << >> /\ errors = 0
        /\ AuditInit /\ MeterInit /\ AttestInit
        /\ calls = 0 /\ crashes = 0
-----------------------------------------------------------------------------
\* _gated() of a call that policy and quota allow (`metered') or that one of them
\* refuses; the decision on the claim is that of the policy.
Call(p, t, tool, decision, metered) ==
  LET call == calls + 1 IN
  /\ calls < MaxCalls /\ calls' = call
  /\ metered => decision = "allowed"
  /\ IF tool \in Privileged THEN Issue(p, call, tool, decision) ELSE UNCHANGED attestVars
  /\ Note(p, call)
  /\ IF metered THEN Meter(p, t, call) ELSE UNCHANGED meterVars
  /\ tasks' = tasks \o << NewTask(p, "audit", call) >>
                    \o (IF metered THEN << NewTask(p, "meter", call) >> ELSE << >>)
  /\ UNCHANGED <<file, crashes>>

Step(n) ==
  /\ \/ InsertEvent(n) /\ UNCHANGED meterVars
     \/ (InsertDaily(n) \/ InsertRow(n)) /\ UNCHANGED auditVars
     \/ (Commit(n) \/ Swallow(n)) /\ UNCHANGED <<auditVars, meterVars>>
  /\ UNCHANGED <<attestVars, calls, crashes>>

\* A process ends, is killed or shut down, and starts again.
Crash(p) ==
  /\ crashes < MaxCrashes /\ crashes' = crashes + 1
  /\ Ended(p) /\ AuditEnded(p) /\ MeterEnded(p) /\ Restarted(p)
  /\ UNCHANGED calls

Midnight == NextDay /\ UNCHANGED <<backgroundVars, auditVars, attestVars, calls, crashes>>

Next ==
  \/ \E p \in Procs, t \in Tenants, tool \in Tools, decision \in Decisions, metered \in BOOLEAN :
       Call(p, t, tool, decision, metered)
  \/ \E n \in DOMAIN tasks : Step(n)
  \/ \E p \in Procs : Crash(p)
  \/ Midnight

Spec == Init /\ [][Next]_vars

MaxTasks == 2 * MaxCalls

\* The event loop resumes every task whose statement has an outcome.
FairSpec == Spec /\ \A n \in 1 .. MaxTasks : WF_vars(n \in DOMAIN tasks /\ Step(n))
-----------------------------------------------------------------------------
Numbers == 1 .. calls

IsContent(c) == /\ c = [daily |-> c.daily, rows |-> c.rows, index |-> c.index]
                /\ c.daily \in [Keys -> Nat]
                /\ c.rows \subseteq DOMAIN usage /\ c.index \subseteq Numbers

TypeOK == /\ IsFile(file, Conns) /\ IsContent(file.disk) /\ IsContent(file.work)
          /\ tasks \in Seq(Task) /\ \A n \in DOMAIN tasks : tasks[n].call \in Numbers
          /\ kept \in [Procs -> SUBSET Numbers] /\ lines \subseteq Numbers
          /\ DOMAIN usage \subseteq Numbers /\ usage \in [DOMAIN usage -> Keys]
          /\ counts \in [Procs -> [Keys -> Nat]]
          /\ starts \in [Procs -> Nat]
          /\ {errors, calls, crashes, day} \subseteq Nat

Stored(n) == tasks[n].call \in IF tasks[n].conn[2] = "audit" THEN file.disk.index
                                                             ELSE file.disk.rows

\* What the task of an event was told is true for good: the event is stored, and
\* counted, although tasks of other components and processes fight for the file,
\* raise and die.
DoneIsDurable ==
  LET done == {n \in DOMAIN tasks : tasks[n].pc = "done"}
      metered == {tasks[n].call : n \in {m \in done : tasks[m].conn[2] = "meter"}}
  IN /\ \A n \in done : Stored(n)
     /\ \A k \in Keys : MeteredOf(k, metered) <= file.disk.daily[k]

\* Nothing is charged or claimed that the trail does not tell: the calls that are
\* metered, claimed or stored by now without a line in the JSONL file are no more
\* than the appends that raised, whenever processes end; and what a process
\* counts against a quota since its start is among the events it keeps.
ChargesAreOnTrail ==
  LET told == DOMAIN usage \cup file.disk.rows \cup file.disk.index
                \cup {claims[i].fields.id : i \in DOMAIN claims}
  IN /\ Cardinality(told \ lines) <= errors
     /\ \A p \in Procs, k \in Keys : counts[p][k] <= MeteredOf(k, kept[p] \cap DOMAIN usage)

\* "durable is eventual consistency for cross-process": every recorded event is
\* stored in the end, unless a statement of its task raised or its process ended;
\* and every task ends, although a failed commit may leave the write lock taken.
EventsBecomeDurable ==
  \A n \in 1 .. MaxTasks :
    n \in DOMAIN tasks ~> n \in DOMAIN tasks /\ (Stored(n) \/ tasks[n].pc = "lost")
=============================================================================
