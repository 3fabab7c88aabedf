----------------------------- MODULE AuditTrail -----------------------------
(***************************************************************************)
(* AuditLogger with the sqlite backend                                     *)
(* (src/src/yodmcp/observability/audit.py): an event is kept in memory,    *)
(* appended to a JSONL file at once, and inserted into audit_events by a   *)
(* task in the background.  The event of a call has the number of the call.*)
(***************************************************************************)
EXTENDS Background

VARIABLES
  kept,     \* kept[p]: the calls with an event in _events of process p
  lines     \* the calls with a line in the JSONL file of the processes

auditVars == <<kept, lines>>

AuditInit == kept = [p \in Procs |-> {}] /\ lines = {}

\* Mutant of Note: _persist() appends the line, not record().
NoteLater(p, call) ==
  /\ kept' = [kept EXCEPT ![p] = @ \cup {call}]
  /\ UNCHANGED <<lines, errors>>

\* record() up to the creation of its task: an append that raises is ignored.
Note(p, call) ==
  /\ kept' = [kept EXCEPT ![p] = @ \cup {call}]
  /\ \/ lines' = lines \cup {call} /\ UNCHANGED errors
     \/ UNCHANGED lines /\ Fails

\* The statement of _persist(): the id of the event is the primary key.
InsertEvent(n) ==
  /\ Execute(n, "event", [Sees(n) EXCEPT !.index = @ \cup {tasks[n].call}], "commit")
  /\ UNCHANGED auditVars

\* The list of a new process is empty; the file stays.
AuditEnded(p) == kept' = [kept EXCEPT ![p] = {}] /\ UNCHANGED lines
=============================================================================
