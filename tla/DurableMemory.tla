--------------------------- MODULE DurableMemory ---------------------------
(***************************************************************************)
(* DurableMultiGraphMemory (src/src/yodmcp/memory/durable.py): the memory  *)
(* graphs in three SQLite tables.  Every statement is awaited and nothing  *)
(* locks a call, so each statement is a step and the calls of a process    *)
(* share one transaction.                                                  *)
(*                                                                         *)
(* Node ids are numbers in the order of the INSERTs.  A node keeps its     *)
(* level, whether its importance is at least 0.8 and whether consolidate() *)
(* made it.  created_at is left out: the latest node of a level may be any *)
(* of them, as clocks differ and step back.  `dead' holds the ids whose    *)
(* rows were deleted and is not in the program.                            *)
(***************************************************************************)
EXTENDS Naturals, FiniteSets, Sequences, SqliteFile

CONSTANTS
  Levels,       \* the MemoryLevel values, what a level argument stands for
  Semantic,     \* the level of the summaries
  Entities,     \* lower-cased entity keys
  EntityCap,    \* LIMIT on the peers of an entity (20 in the code)
  Given,        \* ids that clients pass as causal_parent or in link_to
  Procs,        \* processes sharing YODMCP_MEMORY_DB, one connection each
  Slots,        \* coroutines calling the memory
  Home,         \* Home[s] is the process of slot s
  MaxNodes,     \* bound: nodes ever inserted
  MaxCalls,     \* bound: calls started
  MaxErrors,    \* bound: statements that raise, but for lock timeouts
  MaxCrashes    \* bound: process deaths

ASSUME HomeAssumption == Home \in [Slots -> Procs] /\ Nobody \notin Procs
ASSUME LevelAssumption == Semantic \in Levels
ASSUME BoundAssumption == {EntityCap, MaxNodes, MaxCalls, MaxErrors, MaxCrashes} \subseteq Nat
ASSUME GivenAssumption == Given \subseteq 1 .. MaxNodes

Kinds == {"temporal", "causal", "semantic", "entity"}
Ids == 1 .. MaxNodes
Node == [level : Levels, high : BOOLEAN, summary : BOOLEAN]
Edge == Kinds \X Ids \X Ids

IsTables(t) == /\ t = [nodes |-> t.nodes, edges |-> t.edges, index |-> t.index,
                       dead |-> t.dead]
               /\ DOMAIN t.nodes \subseteq Ids /\ t.nodes \in [DOMAIN t.nodes -> Node]
               /\ t.edges \subseteq Edge /\ t.index \subseteq Entities \X Ids
               /\ t.dead \subseteq Ids

VARIABLES
  file,     \* the database file and the open transaction
  calls,    \* calls[s]: the call slot s is in
  next,     \* the id of the next INSERT
  written,  \* ids that write() has returned
  deleted,  \* ids for which delete() has returned True
  started,  \* calls started
  errors, crashes

vars == <<file, calls, next, written, deleted, started, errors, crashes>>
counters == <<started, errors, crashes>>

NoTables == [nodes |-> [n \in {} |-> 0], edges |-> {}, index |-> {}, dead |-> {}]

\* A call: its statement, its node, what is still to be inserted (edges, then
\* entities, then summaries of rows) and the arguments that write() uses later.
Statements == {"insert", "previous", "edge", "entity", "peers", "rows", "promote",
               "find", "cut_edges", "cut_index", "cut_node", "commit"}
Call == [pc : Statements, job : {"write", "consolidate", "delete"}, node : Ids \cup {0},
         new : Node, parent : Seq(Ids), links : Seq(Ids), todo : Seq(Edge),
         ents : SUBSET Entities, rows : SUBSET Ids]
Idle == [pc |-> "idle"]

NewCall(pc, job, n, node, parent, links, ents) ==
  [pc |-> pc, job |-> job, node |-> n, new |-> node, parent |-> parent, links |-> links,
   todo |-> << >>, ents |-> ents, rows |-> {}]

NodeOf(level, high, summary) == [level |-> level, high |-> high, summary |-> summary]

Sees(s) == Seen(file, Home[s])

\* A write statement of slot s that leaves the tables as t.
Execute(s, t) == /\ MayWrite(file, Home[s])
                 /\ file' = Written(file, Home[s], t)

\* The statement that follows once the edges at hand are inserted.
Onward(c) == [c EXCEPT !.pc = IF c.todo # << >> THEN "edge"
                              ELSE IF c.ents # {} THEN "entity"
                              ELSE IF c.rows # {} THEN "promote"
                              ELSE "commit"]

Proceed(s, c) == calls' = [calls EXCEPT ![s] = c]

Init ==
  /\ file = NewFile(NoTables)
  /\ calls = [s \in Slots |-> Idle]
  /\ next = 1
  /\ written = {} /\ deleted = {}
  /\ started = 0 /\ errors = 0 /\ crashes = 0
-----------------------------------------------------------------------------
AtMostOne == {<< >>} \cup {<<g>> : g \in Given}

Begin(s) == /\ calls[s].pc = "idle" /\ started < MaxCalls
            /\ started' = started + 1
            /\ UNCHANGED <<file, next, written, deleted, errors, crashes>>

BeginWrite(s) ==
  /\ Begin(s)
  /\ \E level \in Levels, high \in BOOLEAN, parent, links \in AtMostOne,
        ents \in SUBSET Entities :
       Proceed(s, NewCall("insert", "write", 0, NodeOf(level, high, FALSE),
                          parent, links, ents))

BeginConsolidate(s) ==
  /\ Begin(s)
  /\ \E level \in Levels : Proceed(s, NewCall("rows", "consolidate", 0,
                                    NodeOf(level, TRUE, TRUE), << >>, << >>, {}))

\* A client deletes a node whose id it has read or was given.
BeginDelete(s) ==
  /\ Begin(s)
  /\ \E n \in 1 .. (next - 1) : Proceed(s, NewCall("find", "delete", n,
                                  NodeOf(Semantic, TRUE, FALSE), << >>, << >>, {}))

\* INSERT INTO nodes.
Insert(s) ==
  /\ calls[s].pc = "insert" /\ next \in Ids
  /\ Execute(s, [Sees(s) EXCEPT !.nodes =
       [n \in DOMAIN @ \cup {next} |-> IF n = next THEN calls[s].new ELSE @[n]]])
  /\ Proceed(s, [calls[s] EXCEPT !.pc = "previous", !.node = next])
  /\ next' = next + 1
  /\ UNCHANGED <<written, deleted, counters>>

\* The edges of one kind between n and each of others, both ways.
Pairs(kind, n, others) ==
  [i \in 1 .. 2 * Len(others) |-> IF i % 2 = 1 THEN <<kind, n, others[(i + 1) \div 2]>>
                                  ELSE <<kind, others[i \div 2], n>>]

\* Mutant of Candidates: the level is not compared.
CandidatesOfAll(s) == DOMAIN Sees(s).nodes \ {calls[s].node}

\* The nodes that may be the latest one of the level.
Candidates(s) == {n \in DOMAIN Sees(s).nodes \ {calls[s].node} :
                    Sees(s).nodes[n].level = calls[s].new.level}

\* SELECT the latest other node of the level; its temporal edges come first,
\* then those to the causal parent and to link_to, which nothing looks up.
Previous(s) ==
  /\ calls[s].pc = "previous"
  /\ LET c == calls[s]
         others == Candidates(s)
         last == IF others = {} THEN {<< >>} ELSE {<<n>> : n \in others}
     IN \E p \in last :
          Proceed(s, Onward([c EXCEPT !.todo = Pairs("temporal", c.node, p)
                                               \o Pairs("causal", c.node, c.parent)
                                               \o Pairs("semantic", c.node, c.links)]))
  /\ UNCHANGED <<file, next, written, deleted, counters>>

\* INSERT OR IGNORE INTO edges.
InsertEdge(s) ==
  /\ calls[s].pc = "edge"
  /\ Execute(s, [Sees(s) EXCEPT !.edges = @ \cup {Head(calls[s].todo)}])
  /\ Proceed(s, Onward([calls[s] EXCEPT !.todo = Tail(@)]))
  /\ UNCHANGED <<next, written, deleted, counters>>

\* The entities come in the order of the client's list: any fixed order.
NextEntity(c) == CHOOSE e \in c.ents : TRUE

\* INSERT OR IGNORE INTO entities.
InsertEntity(s) ==
  /\ calls[s].pc = "entity"
  /\ Execute(s, [Sees(s) EXCEPT !.index = @ \cup {<<NextEntity(calls[s]), calls[s].node>>}])
  /\ Proceed(s, [calls[s] EXCEPT !.pc = "peers"])
  /\ UNCHANGED <<next, written, deleted, counters>>

\* The ways to list at most EntityCap members of a set.
Listings(set) ==
  LET size == IF Cardinality(set) < EntityCap THEN Cardinality(set) ELSE EntityCap IN
  {q \in [1 .. size -> set] : \A i, j \in 1 .. size : q[i] = q[j] => i = j}

\* Mutant of OthersOf: every node is a peer.
OthersOfAny(s, e) == DOMAIN Sees(s).nodes \ {calls[s].node}

OthersOf(s, e) == {n \in Ids \ {calls[s].node} : <<e, n>> \in Sees(s).index}

\* SELECT the other nodes of the entity.
Peers(s) ==
  /\ calls[s].pc = "peers"
  /\ LET c == calls[s]
         e == NextEntity(c)
     IN \E q \in Listings(OthersOf(s, e)) :
          Proceed(s, Onward([c EXCEPT !.ents = @ \ {e}, !.todo = Pairs("entity", c.node, q)]))
  /\ UNCHANGED <<file, next, written, deleted, counters>>

\* SELECT the important nodes of the level that consolidate() was asked for.
Rows(s) ==
  /\ calls[s].pc = "rows"
  /\ Proceed(s, Onward([calls[s] EXCEPT !.rows =
       {n \in DOMAIN Sees(s).nodes : /\ Sees(s).nodes[n].high
                                     /\ Sees(s).nodes[n].level = calls[s].new.level}]))
  /\ UNCHANGED <<file, next, written, deleted, counters>>

\* INSERT the summary of the first row that is left; two one-way edges lead to it.
Promote(s) ==
  /\ calls[s].pc = "promote" /\ next \in Ids
  /\ LET r == CHOOSE r \in calls[s].rows : \A q \in calls[s].rows : r <= q IN
       /\ Execute(s, [Sees(s) EXCEPT !.nodes =
            [n \in DOMAIN @ \cup {next} |->
               IF n = next THEN NodeOf(Semantic, TRUE, TRUE) ELSE @[n]]])
       /\ Proceed(s, Onward([calls[s] EXCEPT
            !.node = next, !.rows = @ \ {r},
            !.todo = <<<<"semantic", next, r>>, <<"causal", next, r>>>>]))
  /\ next' = next + 1
  /\ UNCHANGED <<written, deleted, counters>>

\* SELECT of delete(): an unknown id ends the call with False, uncommitted.
Find(s) ==
  /\ calls[s].pc = "find"
  /\ Proceed(s, IF calls[s].node \in DOMAIN Sees(s).nodes
                THEN [calls[s] EXCEPT !.pc = "cut_edges"] ELSE Idle)
  /\ UNCHANGED <<file, next, written, deleted, counters>>

\* Mutant of CutEdges: only the edges that start at the node are deleted.
CutEdgesFrom(s) ==
  /\ calls[s].pc = "cut_edges"
  /\ Execute(s, [Sees(s) EXCEPT !.edges = {e \in @ : calls[s].node # e[2]}])
  /\ Proceed(s, [calls[s] EXCEPT !.pc = "cut_index"])
  /\ UNCHANGED <<next, written, deleted, counters>>

\* DELETE FROM edges WHERE src=? OR dst=?
CutEdges(s) ==
  /\ calls[s].pc = "cut_edges"
  /\ Execute(s, [Sees(s) EXCEPT !.edges = {e \in @ : calls[s].node \notin {e[2], e[3]}}])
  /\ Proceed(s, [calls[s] EXCEPT !.pc = "cut_index"])
  /\ UNCHANGED <<next, written, deleted, counters>>

\* DELETE FROM entities WHERE node_id=?
CutIndex(s) ==
  /\ calls[s].pc = "cut_index"
  /\ Execute(s, [Sees(s) EXCEPT !.index = {x \in @ : x[2] # calls[s].node}])
  /\ Proceed(s, [calls[s] EXCEPT !.pc = "cut_node"])
  /\ UNCHANGED <<next, written, deleted, counters>>

\* DELETE FROM nodes WHERE id=?
CutNode(s) ==
  /\ calls[s].pc = "cut_node"
  /\ LET n == calls[s].node IN
       Execute(s, [Sees(s) EXCEPT !.nodes = [m \in DOMAIN @ \ {n} |-> @[m]],
                                  !.dead = @ \cup {n}])
  /\ Proceed(s, [calls[s] EXCEPT !.pc = "commit"])
  /\ UNCHANGED <<next, written, deleted, counters>>

\* Mutant of Commit: the call returns without its commit.
ReturnUncommitted(s) ==
  /\ calls[s].pc = "commit"
  /\ Proceed(s, Idle)
  /\ written' = IF calls[s].job = "write" THEN written \cup {calls[s].node} ELSE written
  /\ deleted' = IF calls[s].job = "delete" THEN deleted \cup {calls[s].node} ELSE deleted
  /\ UNCHANGED <<file, next, counters>>

\* commit() and return: it commits whatever the transaction holds.
Commit(s) ==
  /\ calls[s].pc = "commit"
  /\ file' = Committed(file, Home[s])
  /\ Proceed(s, Idle)
  /\ written' = IF calls[s].job = "write" THEN written \cup {calls[s].node} ELSE written
  /\ deleted' = IF calls[s].job = "delete" THEN deleted \cup {calls[s].node} ELSE deleted
  /\ UNCHANGED <<next, counters>>

WriteStatements == Statements \ {"previous", "peers", "rows", "find", "commit"}

\* Mutant of Raise: the call rolls the connection's transaction back.
RaiseAndRollBack(s) ==
  /\ calls[s].pc \in Statements
  /\ \/ /\ calls[s].pc \in WriteStatements /\ ~MayWrite(file, Home[s])
        /\ UNCHANGED errors
     \/ errors < MaxErrors /\ errors' = errors + 1
  /\ Proceed(s, Idle)
  /\ file' = Dropped(file, Home[s])
  /\ UNCHANGED <<next, written, deleted, started, crashes>>

\* A statement raises and the call ends; nobody rolls back.  A statement that
\* waits for the write lock in vain is no fault.
Raise(s) ==
  /\ calls[s].pc \in Statements
  /\ \/ /\ calls[s].pc \in WriteStatements /\ ~MayWrite(file, Home[s])
        /\ UNCHANGED errors
     \/ errors < MaxErrors /\ errors' = errors + 1
  /\ Proceed(s, Idle)
  /\ UNCHANGED <<file, next, written, deleted, started, crashes>>

\* Mutant of Crash: the file keeps what the dead process had not committed.
CrashUndoesNothing(p) ==
  /\ crashes < MaxCrashes /\ crashes' = crashes + 1
  /\ file' = IF file.owner = p THEN NewFile(file.work) ELSE file
  /\ calls' = [s \in Slots |-> IF Home[s] = p THEN Idle ELSE calls[s]]
  /\ UNCHANGED <<next, written, deleted, started, errors>>

\* A process dies and starts again.
Crash(p) ==
  /\ crashes < MaxCrashes /\ crashes' = crashes + 1
  /\ file' = Dropped(file, p)
  /\ calls' = [s \in Slots |-> IF Home[s] = p THEN Idle ELSE calls[s]]
  /\ UNCHANGED <<next, written, deleted, started, errors>>

Write(s) == BeginWrite(s) \/ Insert(s) \/ Previous(s) \/ InsertEntity(s) \/ Peers(s)
Consolidate(s) == BeginConsolidate(s) \/ Rows(s) \/ Promote(s)
Delete(s) == BeginDelete(s) \/ Find(s) \/ CutEdges(s) \/ CutIndex(s) \/ CutNode(s)

Next ==
  \/ \E s \in Slots : \/ Write(s) \/ Consolidate(s) \/ Delete(s)
                      \/ InsertEdge(s) \/ Commit(s) \/ Raise(s)
  \/ \E p \in Procs : Crash(p)

Spec == Init /\ [][Next]_vars
-----------------------------------------------------------------------------
TypeOK ==
  /\ IsFile(file, Procs) /\ IsTables(file.disk) /\ IsTables(file.work)
  /\ calls \in [Slots -> Call \cup {Idle}]
  /\ next \in 1 .. MaxNodes + 1
  /\ written \subseteq Ids /\ deleted \subseteq Ids
  /\ {started, errors, crashes} \subseteq Nat

Disk == file.disk
Stored == DOMAIN Disk.nodes

\* A node that memory_write has returned is stored until it is deleted, and a
\* node that memory_delete has reported deleted never comes back: whatever other
\* calls of the connection commit, whichever statement raises, whoever dies.
AnswersAreDurable ==
  /\ written \subseteq Stored \cup Disk.dead
  /\ deleted \cap Stored = {}

\* An id in a temporal, entity or consolidation edge, or in the index, is that of
\* a node that is, or once was, stored: a shared transaction never commits a
\* reference to a node whose own INSERT is lost.
NoPhantoms ==
  /\ \A e \in Disk.edges : \A n \in {e[2], e[3]} \ Given : n \in Stored \cup Disk.dead
  /\ \A x \in Disk.index : x[2] \in Stored \cup Disk.dead

\* When the calls of each process come one after the other, a transaction is a
\* call.  Then, after any crash and whatever other processes do, temporal and
\* entity edges and index rows never dangle: only a causal_parent or link_to
\* that was not there, and a source deleted under consolidate(), leave edges to
\* a missing node.
OnlyGivenAndSourcesDangle ==
  /\ \A e \in Disk.edges : e[1] \in {"temporal", "entity"} => {e[2], e[3]} \subseteq Stored
  /\ \A e \in Disk.edges : {e[2], e[3]} \cap Stored # {}
  /\ \A x \in Disk.index : x[2] \in Stored

\* In the same setting: neighbours see each other, but for the two edges from a
\* summary to its source.
NeighboursAreMutual ==
  \A e \in Disk.edges : \/ <<e[1], e[3], e[2]>> \in Disk.edges
                        \/ e[1] \in {"semantic", "causal"} /\ Disk.nodes[e[2]].summary

\* In the same setting: nodes joined in the entity graph share an entity.
EntityEdgesAreIndexed ==
  \A e \in Disk.edges : e[1] = "entity" =>
    \E x \in Entities : {<<x, e[2]>>, <<x, e[3]>>} \subseteq Disk.index

\* In the same setting: a temporal edge joins nodes of one level, and no node has
\* two such neighbours that are older than itself.
TemporalGraphIsAForest ==
  \A e \in Disk.edges : e[1] = "temporal" =>
    /\ Disk.nodes[e[2]].level = Disk.nodes[e[3]].level
    /\ \A f \in Disk.edges : f[1] = "temporal" /\ f[2] = e[2] /\ e[3] < e[2] /\ f[3] < f[2]
                             => e[3] = f[3]

\* memory_delete: "Permanently delete one memory node and its incident
\* edges/entity index rows."
DeleteLeavesNoTrace ==
  \A n \in deleted : /\ \A e \in Disk.edges : n \notin {e[2], e[3]}
                     /\ \A x \in Disk.index : x[2] # n
=============================================================================
