---------------------------- MODULE MCCacheTools ----------------------------
\* Two similar task descriptions, a level to read and no level; readers that
\* filter by level only, or by agent, or by item.
EXTENDS CacheTools

OneTwoAlike == [pq \in Payloads \X Payloads |->
                  IF pq[1] = pq[2] THEN 3
                  ELSE IF {pq[1], pq[2]} = {"one", "two"} THEN 2 ELSE 1]

LevelsOfNodes == [n \in Nodes |-> IF n = "n1" THEN "episodic" ELSE "semantic"]
OwnersOfNodes == [n \in Nodes |-> IF n = "n1" THEN "alice" ELSE "bob"]

ByLevel == [level : {Unset, "semantic"}, agent : {Unset}, item : {Unset}]
ByAgent == [level : {Unset}, agent : {"alice", "bob"}, item : {Unset}]
ByItem  == [level : {Unset}, agent : {Unset}, item : Nodes]
=============================================================================
