----------------------------- MODULE TaskStore -----------------------------
(***************************************************************************)
(* TaskManager with the sqlite backend (src/src/yodmcp/tasks/manager.py).  *)
(*                                                                         *)
(* A slot is a coroutine of one process that may be inside a TaskManager   *)
(* call.  Every await of a call is a point where another coroutine runs,   *)
(* so each statement of create() and update() is a step of its own.  The   *)
(* slot that runs run_background() goes on as the runner it spawns.        *)
(*                                                                         *)
(* Abstractions: progress, message, result and error are one field, note;  *)
(* timestamps, ttl_ms and metadata are left out (no transition depends on  *)
(* them).  `ver' counts the writes of a row and is not in the program.     *)
(***************************************************************************)
EXTENDS Naturals, SqliteFile

CONSTANTS
  Tasks,            \* the uuid4 task ids that may be drawn
  Procs,            \* processes sharing YODMCP_SYSTEM_DB, one connection each
  Slots,            \* coroutines calling the TaskManager
  Home,             \* Home[s] is the process of slot s
  ClientStatuses,   \* statuses that callers of update() pass
  MaxCalls,         \* bound: calls started
  MaxFaults         \* bound: statements that raise, and process deaths

Status == {"pending", "running", "input_required", "completed", "failed",
           "cancelled"}
Note == {"none", "started", "done", "failed", "patched"}
Keep == "keep"      \* an argument that is None: the field is left alone

ASSUME HomeAssumption == Home \in [Slots -> Procs]
ASSUME NobodyAssumption == Nobody \notin Procs
ASSUME StatusAssumption == ClientStatuses \subseteq Status
ASSUME BoundAssumption == MaxCalls \in Nat /\ MaxFaults \in Nat

Row == [status : Status, note : Note, ver : Nat]
Patch == [status : Status \cup {Keep}, note : Note \cup {Keep}]

\* A table is a function from the ids that have a row to their rows.
IsTable(tbl) == DOMAIN tbl \subseteq Tasks /\ tbl \in [DOMAIN tbl -> Row]

Jobs == {"create", "update", "run_create", "run_start", "run_work", "run_done",
         "run_failed"}
Idle == [pc |-> "idle"]
Call == [pc : {"insert", "select", "write", "commit", "work"}, job : Jobs,
         task : Tasks, patch : Patch, row : Row]

VARIABLES
  file,     \* the database file and the open transaction
  calls,    \* calls[s]: the call slot s is in
  drawn,    \* ids that uuid4() has returned
  acked,    \* acked[t]: highest version of t whose writer returned normally
  started,  \* calls started so far
  faults    \* errors and crashes so far

vars == <<file, calls, drawn, acked, started, faults>>

NewRow == [status |-> "pending", note |-> "none", ver |-> 1]

PatchOf(status, note) == [status |-> status, note |-> note]

\* The update() calls that run_background() and its runner make.
StartedPatch == PatchOf("running", "started")
DonePatch == PatchOf("completed", "done")
FailedPatch == PatchOf("failed", "failed")

\* update() with cancel() among them: cancel is the patch <<cancelled, Keep>>.
ClientPatches == {PatchOf(st, n) : st \in ClientStatuses \cup {Keep},
                                   n \in {"patched", Keep}}

\* Mutant of Merge: the UPDATE statement leaves message, result and error out.
MergeStatusOnly(row, patch) ==
  [row EXCEPT !.status = IF patch.status = Keep THEN @ ELSE patch.status]

Merge(row, patch) ==
  [row EXCEPT !.status = IF patch.status = Keep THEN @ ELSE patch.status,
              !.note   = IF patch.note = Keep THEN @ ELSE patch.note]

Inserted(tbl, t) == [x \in DOMAIN tbl \cup {t} |-> IF x = t THEN NewRow ELSE tbl[x]]

Sees(s) == Seen(file, Home[s])

Init ==
  /\ calls = [s \in Slots |-> Idle]
  /\ file = NewFile([t \in {} |-> NewRow])
  /\ drawn = {}
  /\ acked = [t \in Tasks |-> 0]
  /\ started = 0
  /\ faults = 0
-----------------------------------------------------------------------------
\* A client calls create() or run_background(): a fresh id is drawn.
BeginCreate(s) ==
  /\ calls[s].pc = "idle" /\ started < MaxCalls
  /\ \E t \in Tasks \ drawn, job \in {"create", "run_create"} :
       /\ calls' = [calls EXCEPT ![s] = [pc |-> "insert", job |-> job, task |-> t,
                                         patch |-> StartedPatch, row |-> NewRow]]
       /\ drawn' = drawn \cup {t}
  /\ started' = started + 1
  /\ UNCHANGED <<file, acked, faults>>

\* A client calls update() or cancel() with an id it has seen.
BeginUpdate(s) ==
  /\ calls[s].pc = "idle" /\ started < MaxCalls
  /\ \E t \in drawn, p \in ClientPatches :
       calls' = [calls EXCEPT ![s] = [pc |-> "select", job |-> "update", task |-> t,
                                      patch |-> p, row |-> NewRow]]
  /\ started' = started + 1
  /\ UNCHANGED <<file, drawn, acked, faults>>

\* Mutant of Insert: create() returns without its commit().
InsertWithoutCommit(s) ==
  /\ calls[s].pc = "insert"
  /\ MayWrite(file, Home[s])
  /\ file' = Written(file, Home[s], Inserted(Sees(s), calls[s].task))
  /\ calls' = [calls EXCEPT ![s] = Idle]
  /\ acked' = [acked EXCEPT ![calls[s].task] = 1]
  /\ UNCHANGED <<drawn, started, faults>>

\* INSERT INTO tasks.
Insert(s) ==
  /\ calls[s].pc = "insert"
  /\ MayWrite(file, Home[s])
  /\ file' = Written(file, Home[s], Inserted(Sees(s), calls[s].task))
  /\ calls' = [calls EXCEPT ![s].pc = "commit"]
  /\ UNCHANGED <<drawn, acked, started, faults>>

\* What the slot does once create() or update() has returned normally.
Returned(call) ==
  CASE call.job = "run_create" -> [call EXCEPT !.pc = "select", !.job = "run_start"]
    [] call.job = "run_start"  -> [call EXCEPT !.pc = "work", !.job = "run_work"]
    [] OTHER                   -> Idle

\* SELECT of update(): no row ends the call with None.
Select(s) ==
  /\ calls[s].pc = "select"
  /\ LET t == calls[s].task IN
       calls' = [calls EXCEPT ![s] = IF t \in DOMAIN Sees(s)
                                     THEN [@ EXCEPT !.pc = "write", !.row = Sees(s)[t]]
                                     ELSE Returned(@)]
  /\ UNCHANGED <<file, drawn, acked, started, faults>>

\* UPDATE of update(): every column of the row read by SELECT, patched.
Write(s) ==
  /\ calls[s].pc = "write"
  /\ MayWrite(file, Home[s])
  /\ LET t   == calls[s].task
         row == [Merge(calls[s].row, calls[s].patch) EXCEPT !.ver = Sees(s)[t].ver + 1]
     IN /\ file' = Written(file, Home[s], [Sees(s) EXCEPT ![t] = row])
        /\ calls' = [calls EXCEPT ![s] = [@ EXCEPT !.pc = "commit", !.row = row]]
  /\ UNCHANGED <<drawn, acked, started, faults>>

\* commit(): commits whatever the connection's transaction holds.
Commit(s) ==
  /\ calls[s].pc = "commit"
  /\ file' = Committed(file, Home[s])
  /\ calls' = [calls EXCEPT ![s] = Returned(@)]
  /\ acked' = [acked EXCEPT ![calls[s].task] =
                 IF @ < calls[s].row.ver THEN calls[s].row.ver ELSE @]
  /\ UNCHANGED <<drawn, started, faults>>

\* coro_factory() returns or raises; the runner goes on to its last update.
Work(s) ==
  /\ calls[s].pc = "work"
  /\ \/ calls' = [calls EXCEPT ![s] = [@ EXCEPT !.pc = "select", !.job = "run_done",
                                                !.patch = DonePatch]]
     \/ calls' = [calls EXCEPT ![s] = [@ EXCEPT !.pc = "select", !.job = "run_failed",
                                                !.patch = FailedPatch]]
  /\ UNCHANGED <<file, drawn, acked, started, faults>>

\* The runner turns an error of its COMPLETED update into a FAILED update; any
\* other error ends the call.
AfterError(call) ==
  IF call.job = "run_done"
  THEN [call EXCEPT !.pc = "select", !.job = "run_failed", !.patch = FailedPatch]
  ELSE Idle

\* Mutant of Raise: no busy timeout, the wait for the write lock never gives up.
RaiseFaultsOnly(s) ==
  /\ calls[s].pc \in {"insert", "select", "write", "commit"}
  /\ faults < MaxFaults
  /\ faults' = faults + 1
  /\ calls' = [calls EXCEPT ![s] = AfterError(@)]
  /\ UNCHANGED <<file, drawn, acked, started>>

\* A statement raises and nobody rolls back.  The wait for the write lock ends
\* with "database is locked"; any other error is a fault.
Raise(s) ==
  /\ calls[s].pc \in {"insert", "select", "write", "commit"}
  /\ \/ /\ calls[s].pc \in {"insert", "write"} /\ ~MayWrite(file, Home[s])
        /\ UNCHANGED faults
     \/ /\ faults < MaxFaults
        /\ faults' = faults + 1
  /\ calls' = [calls EXCEPT ![s] = AfterError(@)]
  /\ UNCHANGED <<file, drawn, acked, started>>

\* A process dies and is started again: its calls and runners are gone.
Crash(p) ==
  /\ faults < MaxFaults
  /\ faults' = faults + 1
  /\ file' = Dropped(file, p)
  /\ calls' = [s \in Slots |-> IF Home[s] = p THEN Idle ELSE calls[s]]
  /\ UNCHANGED <<drawn, acked, started>>

Step(s) == \/ Insert(s) \/ Select(s) \/ Write(s) \/ Commit(s) \/ Work(s)

Next ==
  \/ \E s \in Slots : BeginCreate(s) \/ BeginUpdate(s) \/ Step(s) \/ Raise(s)
  \/ \E p \in Procs : Crash(p)

Spec == Init /\ [][Next]_vars
FairSpec == Spec /\ \A s \in Slots : WF_vars(Step(s) \/ Raise(s))
-----------------------------------------------------------------------------
TypeOK ==
  /\ IsFile(file, Procs) /\ IsTable(file.disk) /\ IsTable(file.work)
  /\ calls \in [Slots -> Call \cup {Idle}]
  /\ drawn \subseteq Tasks
  /\ acked \in [Tasks -> Nat]
  /\ started \in Nat /\ faults \in Nat

\* "A durable async task handle that survives process restart": once create(),
\* update() or cancel() has returned normally, its write of the row, or a later
\* write of it, is committed, whatever other coroutines of the connection commit,
\* whichever statement fails and whichever process dies.
AckedWritesAreDurable ==
  \A t \in Tasks : acked[t] > 0 =>
    /\ t \in DOMAIN file.disk
    /\ file.disk[t].ver >= acked[t]

\* A poller that finds a terminal status set by the runner finds the outcome the
\* runner wrote with it: stale whole-row updates never pair the status of one
\* write with the note of an older one.  (For callers that do not set these
\* statuses themselves.)
OutcomeComesWithStatus ==
  \A p \in Procs : \A t \in DOMAIN Seen(file, p) :
    LET row == Seen(file, p)[t] IN
    row.status \in {"completed", "failed"} \ ClientStatuses =>
      row.note \in {IF row.status = "completed" THEN "done" ELSE "failed", "patched"}

\* tasks_update "patches" a task: the row it writes differs from the row that
\* was there only in the fields it was given.
PatchChangesOnlyItsFields ==
  [][\A s \in Slots : Write(s) =>
       LET t == calls[s].task IN
       Sees(s)'[t] = [Merge(Sees(s)[t], calls[s].patch) EXCEPT !.ver = @ + 1]]_vars

\* No call waits for ever: every call, and every runner whose coroutine ends,
\* returns or raises, although a transaction that a failed commit left open
\* keeps the write lock.
CallsEnd == \A s \in Slots : calls[s].pc # "idle" ~> calls[s].pc = "idle"
=============================================================================
