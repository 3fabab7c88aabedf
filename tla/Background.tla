----------------------------- MODULE Background -----------------------------
(***************************************************************************)
(* The fire-and-forget writes of YodMCP: UsageMeter.record() and           *)
(* AuditLogger.record() (src/src/yodmcp/monetization/metering.py,          *)
(* observability/audit.py) create a task for the durable copy of what they *)
(* have noted, and go on.  The task executes its statements on the         *)
(* connection of its component and commits; an exception ends it silently. *)
(* All components of all processes write to one file, and the connections  *)
(* compete for its write lock.                                             *)
(***************************************************************************)
EXTENDS Naturals, Sequences, FiniteSets, Deployment, SqliteFile

CONSTANT
  MaxErrors     \* bound: statements and appends that raise, but for lock timeouts

ASSUME BackgroundAssumption == MaxErrors \in Nat

VARIABLES
  file,     \* daily[<<t, d>>]: usage_daily; rows: the calls in usage_events;
            \* index: the calls in audit_events
  tasks,    \* every task created, and the statement it is at
  errors

backgroundVars == <<file, tasks, errors>>

Components == {"audit", "meter"}
Conns == Procs \X Components

ASSUME ConnsAssumption == Nobody \notin Conns

Statements == {"event", "daily", "row", "commit"}
Task == [conn : Conns, call : Nat \ {0}, pc : Statements \cup {"done", "lost"}]

\* The task with which a component of process p stores what it has of a call.
NewTask(p, component, call) ==
  [conn |-> <<p, component>>, call |-> call,
   pc |-> IF component = "audit" THEN "event" ELSE "daily"]

Waiting(n) == tasks[n].pc \in Statements
Moved(n, pc) == tasks' = [tasks EXCEPT ![n].pc = pc]
Sees(n) == Seen(file, tasks[n].conn)

\* Statement pc of task n turns what it sees into `content'.
Execute(n, pc, content, next) ==
  /\ tasks[n].pc = pc /\ MayWrite(file, tasks[n].conn)
  /\ file' = Written(file, tasks[n].conn, content)
  /\ Moved(n, next)
  /\ UNCHANGED errors

\* Mutant of Commit: the task ends without it.
EndUncommitted(n) ==
  /\ tasks[n].pc = "commit"
  /\ Moved(n, "done")
  /\ UNCHANGED <<file, errors>>

\* commit(), with whatever else the transaction of the connection holds.
Commit(n) ==
  /\ tasks[n].pc = "commit"
  /\ file' = Committed(file, tasks[n].conn)
  /\ Moved(n, "done")
  /\ UNCHANGED errors

Fails == errors < MaxErrors /\ errors' = errors + 1

\* "database is locked" is no fault: the wait for the write lock was in vain.
TimesOut(n) == /\ tasks[n].pc # "commit" /\ ~MayWrite(file, tasks[n].conn)
               /\ UNCHANGED errors

\* Mutant of Swallow: the task starts again with its first statement.
SwallowAndRetry(n) ==
  /\ Waiting(n) /\ (TimesOut(n) \/ Fails)
  /\ Moved(n, IF tasks[n].conn[2] = "audit" THEN "event" ELSE "daily")
  /\ UNCHANGED file

\* Mutant of Swallow: no busy timeout, the wait for the write lock never gives up.
SwallowErrorsOnly(n) ==
  /\ Waiting(n) /\ Fails
  /\ Moved(n, "lost")
  /\ UNCHANGED file

\* "except Exception: return": what the task had written stays in the
\* transaction, for the next task of the connection to commit.
Swallow(n) ==
  /\ Waiting(n) /\ (TimesOut(n) \/ Fails)
  /\ Moved(n, "lost")
  /\ UNCHANGED file

\* A process ends.  A shutdown is no better than a crash: it closes the memory
\* only and waits for no task.
Ended(p) ==
  /\ file' = Dropped(Dropped(file, <<p, "audit">>), <<p, "meter">>)
  /\ tasks' = [n \in DOMAIN tasks |-> IF tasks[n].conn[1] = p /\ Waiting(n)
                                      THEN [tasks[n] EXCEPT !.pc = "lost"] ELSE tasks[n]]
  /\ UNCHANGED errors
=============================================================================
