----------------------------- MODULE CacheTools -----------------------------
(***************************************************************************)
(* The tools that use the cache, on the one CacheLayer that                *)
(* build_substrate() (src/src/yodmcp/core/substrate.py) gives to all of    *)
(* them: results of memory_read and plan templates are told apart by       *)
(* their namespace only, and evict each other.                             *)
(***************************************************************************)
EXTENDS PlanCache, MemoryRead

toolVars == <<cacheVars, answer, mem, dead, reply>>

ToolsInit == CacheInit /\ PlanInit /\ ReadInit

\* Only the answer of the last call is kept.
ToolsNext == \/ PlanNext /\ reply' = NoReply /\ UNCHANGED <<mem, dead>>
             \/ ReadNext /\ answer' = NoAnswer

ToolsSpec == ToolsInit /\ [][ToolsNext]_toolVars
-----------------------------------------------------------------------------
ToolsTypeOK ==
  /\ CacheTypeOK(PlanValues \cup [filter : Filters, nodes : SUBSET Nodes])
  /\ PlanTypeOK /\ ReadTypeOK
=============================================================================
