----------------------------- MODULE Connection -----------------------------
(***************************************************************************)
(* LoopSafeSqlite (src/src/yodmcp/storage/aiosqlite_conn.py): the cached   *)
(* connection of a component and its worker thread, used by the coroutines *)
(* of one event loop after the other.  Coroutines end with their loop; its *)
(* connections do not, and a new lock is made for the next loop.           *)
(*                                                                         *)
(* The library aiosqlite, outside the repository: connect() leaves no      *)
(* worker behind when it fails or is cancelled, and close() and stop() end *)
(* the worker.                                                             *)
(***************************************************************************)
EXTENDS Naturals, Sequences, FiniteSets

CONSTANTS
  Slots,        \* coroutines that use the component
  Free,         \* nobody holds the lock
  MaxConns,     \* bound: connections ever made
  MaxLoops,     \* bound: event loops, one after the other
  MaxErrors     \* bound: connects and schema scripts that raise

ASSUME ConnAssumption == /\ Free \notin Slots
                         /\ {MaxConns, MaxErrors} \subseteq Nat /\ MaxLoops \in Nat \ {0}

VARIABLES
  running,  \* an event loop is running
  loop,     \* the number of it, or of the last one
  db,       \* _db, or 0
  bound,    \* _loop
  lock,     \* _lock: its loop and its holder
  pcs,      \* pcs[s]: what slot s is doing
  held,     \* held[s]: the connection conn() returned to s, which s may still use
  conns,    \* conns[c]: the loop of connection c, whether its worker runs, and
            \* its schema: absent, there, or failed
  errors

vars == <<running, loop, db, bound, lock, pcs, held, conns, errors>>
loopVars == <<running, loop>>

Init == /\ running = TRUE /\ loop = 1
        /\ db = 0 /\ bound = 0
        /\ lock = [loop |-> 0, holder |-> Free]
        /\ pcs = [s \in Slots |-> "idle"] /\ held = [s \in Slots |-> 0]
        /\ conns = << >>
        /\ errors = 0

Goto(s, pc) == pcs' = [pcs EXCEPT ![s] = pc]
Stopped(c) == [conns EXCEPT ![c].alive = FALSE]

\* _get_lock(): the lock of another loop is thrown away.
Available == lock.loop # loop \/ lock.holder = Free
Locked(s) == lock' = [loop |-> loop, holder |-> s]
Unlocked == lock' = [lock EXCEPT !.holder = Free]

\* The cached connection is that of another loop.
Foreign == db # 0 /\ bound # loop
-----------------------------------------------------------------------------
\* A coroutine calls conn() or close() and waits for the lock.
Begin(s) == /\ running /\ pcs[s] = "idle"
            /\ Len(conns) + Cardinality({r \in Slots : pcs[r] # "idle"}) < MaxConns
            /\ \E pc \in {"conn", "close"} : Goto(s, pc)
            /\ UNCHANGED <<loopVars, db, bound, lock, held, conns, errors>>

\* Mutant of Reuse: the connection of another loop is not abandoned.
ReuseAny(s) ==
  /\ pcs[s] = "conn" /\ Available /\ db # 0
  /\ Goto(s, "idle") /\ held' = [held EXCEPT ![s] = db]
  /\ UNCHANGED <<loopVars, db, bound, lock, conns, errors>>

\* conn() finds a connection of this loop and returns at once.
Reuse(s) ==
  /\ pcs[s] = "conn" /\ Available /\ db # 0 /\ ~Foreign
  /\ Goto(s, "idle") /\ held' = [held EXCEPT ![s] = db]
  /\ UNCHANGED <<loopVars, db, bound, lock, conns, errors>>

\* Mutant of Connect: the connection of another loop is forgotten, not stopped.
ConnectBeside(s) ==
  /\ pcs[s] = "conn" /\ Available /\ (db = 0 \/ Foreign)
  /\ Locked(s)
  /\ UNCHANGED conns
  /\ db' = 0 /\ bound' = 0
  /\ Goto(s, "connect")
  /\ UNCHANGED <<loopVars, held, errors>>

\* Mutant of Connect: the lock is not taken.
ConnectUnlocked(s) ==
  /\ pcs[s] = "conn" /\ Available /\ (db = 0 \/ Foreign)
  /\ conns' = IF Foreign THEN Stopped(db) ELSE conns
  /\ db' = 0 /\ bound' = 0
  /\ Goto(s, "connect")
  /\ UNCHANGED <<loopVars, lock, held, errors>>

\* conn() finds none: _abandon() the one of another loop, and connect.
Connect(s) ==
  /\ pcs[s] = "conn" /\ Available /\ (db = 0 \/ Foreign)
  /\ Locked(s)
  /\ conns' = IF Foreign THEN Stopped(db) ELSE conns
  /\ db' = 0 /\ bound' = 0
  /\ Goto(s, "connect")
  /\ UNCHANGED <<loopVars, held, errors>>

\* connect() is done: the connection is cached and the schema script sent.
Connected(s) ==
  /\ pcs[s] = "connect"
  /\ conns' = Append(conns, [loop |-> loop, alive |-> TRUE, schema |-> "absent"])
  /\ db' = Len(conns) + 1 /\ bound' = loop
  /\ held' = [held EXCEPT ![s] = Len(conns) + 1]
  /\ Goto(s, "script")
  /\ UNCHANGED <<loopVars, lock, errors>>

ConnectFails(s) ==
  /\ pcs[s] = "connect" /\ errors < MaxErrors /\ errors' = errors + 1
  /\ Unlocked /\ Goto(s, "idle")
  /\ UNCHANGED <<loopVars, db, bound, held, conns>>

\* The script and its commit are done, and conn() returns.
Script(s) ==
  /\ pcs[s] = "script"
  /\ conns' = [conns EXCEPT ![held[s]].schema = "there"]
  /\ Unlocked /\ Goto(s, "idle")
  /\ UNCHANGED <<loopVars, db, bound, held, errors>>

\* Mutant of ScriptFails: the lock is not released on the way out.
ScriptFailsLocked(s) ==
  /\ pcs[s] = "script" /\ errors < MaxErrors /\ errors' = errors + 1
  /\ conns' = [conns EXCEPT ![held[s]].schema = "failed"]
  /\ held' = [held EXCEPT ![s] = 0]
  /\ Goto(s, "idle")
  /\ UNCHANGED <<loopVars, lock, db, bound>>

\* The script raises, and so does conn(); the connection stays in the cache.
ScriptFails(s) ==
  /\ pcs[s] = "script" /\ errors < MaxErrors /\ errors' = errors + 1
  /\ conns' = [conns EXCEPT ![held[s]].schema = "failed"]
  /\ held' = [held EXCEPT ![s] = 0]
  /\ Unlocked /\ Goto(s, "idle")
  /\ UNCHANGED <<loopVars, db, bound>>

\* The coroutine is done with its connection.
Drop(s) == /\ pcs[s] = "idle" /\ held[s] # 0
           /\ held' = [held EXCEPT ![s] = 0]
           /\ UNCHANGED <<loopVars, db, bound, lock, pcs, conns, errors>>

\* close(): without a connection it returns; that of another loop is stopped.
Close(s) ==
  /\ pcs[s] = "close" /\ Available /\ (db = 0 \/ Foreign)
  /\ db' = 0 /\ bound' = 0
  /\ conns' = IF db = 0 THEN conns ELSE Stopped(db)
  /\ Goto(s, "idle")
  /\ UNCHANGED <<loopVars, lock, held, errors>>

\* That of this loop is awaited, although others may still use it ...
CloseOwn(s) ==
  /\ pcs[s] = "close" /\ Available /\ db # 0 /\ ~Foreign
  /\ Locked(s)
  /\ db' = 0 /\ bound' = 0
  /\ held' = [held EXCEPT ![s] = db]
  /\ Goto(s, "closing")
  /\ UNCHANGED <<loopVars, conns, errors>>

\* ... and stopped, whether closing it worked or raised.
Closed(s) ==
  /\ pcs[s] = "closing"
  /\ conns' = Stopped(held[s])
  /\ held' = [held EXCEPT ![s] = 0]
  /\ Unlocked /\ Goto(s, "idle")
  /\ UNCHANGED <<loopVars, db, bound, errors>>

\* The loop ends: every coroutine is cancelled and leaves its `async with'.
EndLoop ==
  /\ running /\ running' = FALSE
  /\ lock' = [lock EXCEPT !.holder = Free]
  /\ pcs' = [s \in Slots |-> "idle"] /\ held' = [s \in Slots |-> 0]
  /\ conns' = [c \in DOMAIN conns |->
       [conns[c] EXCEPT !.alive = @ /\ ~ \E s \in Slots : pcs[s] = "closing" /\ held[s] = c,
                        !.schema = IF \E s \in Slots : pcs[s] = "script" /\ held[s] = c
                                   THEN "failed" ELSE @]]
  /\ UNCHANGED <<loop, db, bound, errors>>

StartLoop == /\ ~running /\ loop < MaxLoops
             /\ running' = TRUE /\ loop' = loop + 1
             /\ UNCHANGED <<db, bound, lock, pcs, held, conns, errors>>

\* close() where no loop is running: the connection is abandoned.
Abandon == /\ ~running /\ db # 0
           /\ conns' = Stopped(db) /\ db' = 0 /\ bound' = 0
           /\ UNCHANGED <<loopVars, lock, pcs, held, errors>>

Step(s) == \/ Reuse(s) \/ Connect(s) \/ Connected(s) \/ ConnectFails(s)
           \/ Script(s) \/ ScriptFails(s) \/ Close(s) \/ CloseOwn(s) \/ Closed(s)

Next == \/ \E s \in Slots : Begin(s) \/ Step(s) \/ Drop(s)
        \/ EndLoop \/ StartLoop \/ Abandon

Spec == Init /\ [][Next]_vars

\* asyncio resumes what can run and wakes the waiters of a lock first come, first
\* served: who waits for it again and again gets it.
FairSpec == Spec /\ \A s \in Slots : SF_vars(Step(s))
-----------------------------------------------------------------------------
Conn == [loop : 1 .. MaxLoops, alive : BOOLEAN, schema : {"absent", "there", "failed"}]

TypeOK ==
  /\ running \in BOOLEAN /\ loop \in 1 .. MaxLoops
  /\ conns \in Seq(Conn)
  /\ db \in 0 .. Len(conns) /\ held \in [Slots -> 0 .. Len(conns)]
  /\ bound \in 0 .. MaxLoops /\ (bound = 0 <=> db = 0)
  /\ lock \in [loop : 0 .. MaxLoops, holder : Slots \cup {Free}]
  /\ pcs \in [Slots -> {"idle", "conn", "close", "connect", "script", "closing"}]
  /\ errors \in Nat

\* "Reconnect when the running loop changes": no coroutine ever uses a connection
\* that was made in another loop.
UsedInItsLoop == \A s \in Slots : held[s] # 0 => conns[held[s]].loop = loop

\* "so the non-daemon worker thread can exit": whatever the order of calls,
\* closes and loops, at most one worker of a component is running, and none that
\* the cache does not know, unless it is being closed.
OneWorker ==
  LET alive == {c \in DOMAIN conns : conns[c].alive} IN
  /\ Cardinality(alive) <= 1
  /\ alive \subseteq {db} \cup {held[s] : s \in {r \in Slots : pcs[r] = "closing"}}

\* A coroutine that is given a connection finds that its schema script is over: it
\* has made the tables, or raised, or was cut short by the end of its loop.
ScriptIsOver ==
  \A s \in Slots : held[s] # 0 /\ pcs[s] = "idle" => conns[held[s]].schema # "absent"

\* "so close() cannot null self._db mid-schema-init": the connection whose
\* script is being executed is open and cached.
ScriptRunsOnOpen ==
  \A s \in Slots : pcs[s] = "script" => conns[held[s]].alive /\ db = held[s]

\* No coroutine waits for the lock for ever: every conn() and close() ends,
\* although scripts raise, loops end and close() races conn().
CallsEnd == \A s \in Slots : pcs[s] # "idle" ~> pcs[s] = "idle"
-----------------------------------------------------------------------------
\* conn(schema) gives a connection with the tables of the schema, as all its callers
\* assume: not once the script has raised, as nobody runs it on that connection again.
TablesAreThere ==
  \A s \in Slots : held[s] # 0 /\ pcs[s] = "idle" => conns[held[s]].schema = "there"
=============================================================================
