----------------------------- MODULE MemoryRead -----------------------------
(***************************************************************************)
(* memory_read in front of the in-process memory, with memory_write and    *)
(* memory_delete (src/src/yodmcp/tools/register.py): a read is answered    *)
(* from the cache when the cache has its key, and nothing removes a result *)
(* from the cache but eviction.  The memory awaits nothing that can        *)
(* suspend it, so a call of a tool is one step.                            *)
(*                                                                         *)
(* A filter has the arguments level, agent_id and item_id; query, limit,   *)
(* graph and session_id behave like one or the other of them (the first    *)
(* three are in the key, session_id is not) and ranking is left out.       *)
(***************************************************************************)
EXTENDS Cache, FiniteSets

CONSTANTS
  Nodes,      \* node ids that may be drawn
  LevelOf,    \* LevelOf[n], OwnerOf[n]: level and agent_id of a node
  OwnerOf,
  Unset,        \* an argument or an owner that is None
  Filters     \* the arguments readers use

ASSUME FilterAssumption ==
  /\ Filters \subseteq [level : Payloads, agent : {OwnerOf[n] : n \in Nodes} \cup {Unset},
                        item : Nodes \cup {Unset}]
  /\ DOMAIN LevelOf = Nodes /\ DOMAIN OwnerOf = Nodes

VARIABLES
  mem,      \* the nodes stored
  dead,     \* the nodes deleted
  reply     \* the last answer of memory_read

NoReply == [items |-> {}]

ReadInit == /\ mem = {} /\ dead = {}
            /\ reply = NoReply

\* Mutant of ReadKey: the level is left out of the key.
ReadKeyOfAll(f) == KeyOf("memory_read", Unset)

\* cache_key: of the three arguments it has the level only.
ReadKey(f) == KeyOf("memory_read", f.level)

\* memory.read() on the nodes in set.
Matching(f, set) == {n \in set : /\ f.item \in {Unset, n}
                                 /\ f.level \in {Unset, LevelOf[n]}
                                 /\ f.agent = Unset \/ OwnerOf[n] \in {Unset, f.agent}}

MemoryWrite(n) == /\ n \notin mem \cup dead
                  /\ mem' = mem \cup {n}
                  /\ reply' = NoReply
                  /\ UNCHANGED <<cacheVars, dead>>

MemoryDelete(n) == /\ n \in mem
                   /\ mem' = mem \ {n} /\ dead' = dead \cup {n}
                   /\ reply' = NoReply
                   /\ UNCHANGED cacheVars

\* "cached" is FALSE in every answer: the stored result's own field wins.
Reply(f, items) == reply' = [filter |-> f, items |-> items, mem |-> mem]

\* A result, which is cached, is a filter and the nodes it was applied to.
Result(f, set) == [filter |-> f, nodes |-> set]
ItemsOf(result) == Matching(result.filter, result.nodes)

ReadCached(f) ==
  /\ GetExact(ReadKey(f))
  /\ Reply(f, ItemsOf(objs[exact[ReadKey(f)]].value))
  /\ UNCHANGED <<mem, dead>>

ReadStored(f) ==
  /\ ReadKey(f) \notin DOMAIN exact
  /\ Put(ReadKey(f), Result(f, mem))
  /\ Reply(f, Matching(f, mem))
  /\ UNCHANGED <<mem, dead>>

ReadNext == \/ \E n \in Nodes : MemoryWrite(n) \/ MemoryDelete(n)
            \/ \E f \in Filters : ReadCached(f) \/ ReadStored(f)
-----------------------------------------------------------------------------
ReadTypeOK ==
  /\ mem \subseteq Nodes /\ dead \subseteq Nodes /\ mem \cap dead = {}
  /\ reply \in {NoReply} \cup [filter : Filters, items : SUBSET Nodes,
                               mem : SUBSET Nodes]

\* The cached results of memory_read.
Reads == {n \in Listed : objs[n].key.ns = "memory_read"}

\* For readers who filter by the arguments in the key only, an answer is what
\* memory.read() would have answered them now, or when an entry that is still
\* cached was put: puts and evictions of other keys never serve one reader the
\* answer of another.
AnswersWereTrue ==
  reply # NoReply =>
    \E set \in {reply.mem} \cup {objs[n].value.nodes : n \in Reads} :
      reply.items = Matching(reply.filter, set)
-----------------------------------------------------------------------------
\* memory_delete is "Permanently delete ... Use when a fact must be forgotten": a
\* read does not return a node that was deleted before it.
DeletedIsForgotten == reply # NoReply => reply.items \subseteq reply.mem

\* agent_id: "If set, only nodes owned by this agent or unscoped nodes."
AgentSeesItsNodes ==
  reply # NoReply /\ reply.filter.agent # Unset =>
    \A n \in reply.items : OwnerOf[n] \in {Unset, reply.filter.agent}

\* item_id: "Fetch a single node by id instead of searching."
ItemIsTheOneAskedFor ==
  reply # NoReply /\ reply.filter.item # Unset => reply.items \subseteq {reply.filter.item}
=============================================================================
