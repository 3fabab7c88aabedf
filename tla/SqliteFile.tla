----------------------------- MODULE SqliteFile -----------------------------
(***************************************************************************)
(* The SQLite file that the durable backends of YodMCP share, as seen by   *)
(* the code: aiosqlite is a library outside the repository.  A component   *)
(* of a process keeps ONE connection (LoopSafeSqlite._db) and never calls  *)
(* rollback(): its first INSERT, UPDATE or DELETE opens a transaction that *)
(* every coroutine using the connection writes into, that any of them may  *)
(* commit, and that an exception leaves open.  A file is a record          *)
(*   disk  : the committed content                                         *)
(*   work  : the content inside the open transaction (= disk when none is) *)
(*   owner : the connection whose transaction is open, or Nobody           *)
(***************************************************************************)
CONSTANT Nobody         \* no connection holds the write lock

NewFile(content) == [disk |-> content, work |-> content, owner |-> Nobody]

\* What a SELECT of connection k reads: its own uncommitted writes if any.
Seen(file, k) == IF file.owner = k THEN file.work ELSE file.disk

\* A write statement needs the write lock; waiting for it ends with the
\* "database is locked" error, never with an unbounded wait.
MayWrite(file, k) == file.owner \in {k, Nobody}

Written(file, k, content) == [file EXCEPT !.work = content, !.owner = k]

\* commit() by k: a no-op when k has no transaction open.
Committed(file, k) == IF file.owner = k THEN NewFile(file.work) ELSE file

\* The death of the process of k rolls its transaction back.
Dropped(file, k) == IF file.owner = k THEN NewFile(file.disk) ELSE file

\* Without an open transaction the working content is the committed one.
IsFile(file, Conns) ==
  /\ file = [disk |-> file.disk, work |-> file.work, owner |-> file.owner]
  /\ file.owner \in Conns \cup {Nobody}
  /\ file.owner = Nobody => file.work = file.disk
=============================================================================
