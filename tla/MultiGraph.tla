----------------------------- MODULE MultiGraph -----------------------------
(***************************************************************************)
(* MultiGraphMemory, the in-process memory backend                         *)
(* (src/src/yodmcp/memory/multigraph.py).  Each operation runs under one   *)
(* asyncio lock and awaits nothing inside it: an operation is one step.    *)
(*                                                                         *)
(* Node ids are uuids in the program; here they are numbers in the order   *)
(* of insertion, which is the order of the _nodes dict.  A node keeps its  *)
(* level, whether its importance is at least 0.8, its created_at and the   *)
(* source_ids of its metadata ({} if it has none; writers are assumed not  *)
(* to pass that key).  Content, embeddings and owners are left out.        *)
(***************************************************************************)
EXTENDS Naturals, FiniteSets

CONSTANTS
  Levels,       \* the MemoryLevel values
  Episodic,     \* what an unknown level string stands for
  Semantic,     \* the level of the summaries that consolidate() writes
  Entities,     \* lower-cased entity keys
  Times,        \* readings of time.time(): it may repeat or step back
  EntityCap,    \* peers of an entity that a write looks at (20 in the code)
  MaxNodes      \* bound: nodes ever written

ASSUME LevelsAssumption == {Episodic, Semantic} \subseteq Levels
ASSUME TimesAssumption == Times \subseteq Nat
ASSUME BoundAssumption == MaxNodes \in Nat /\ EntityCap \in Nat

Kinds == {"semantic", "temporal", "causal", "entity"}
Ids == 1 .. MaxNodes
Node == [level : Levels, high : BOOLEAN, at : Times, sources : SUBSET Ids]

VARIABLES
  nodes,    \* _nodes: a function from the live ids
  edges,    \* edges[k]: the pairs <<a, b>> with b in _edges[k][a]
  index,    \* _entity_index; an absent key is an empty set
  next      \* the id of the next node

vars == <<nodes, edges, index, next>>

Live == DOMAIN nodes

Init == /\ nodes = [n \in {} |-> {}]
        /\ edges = [k \in Kinds |-> {}]
        /\ index = [e \in Entities |-> {}]
        /\ next = 1

\* MemoryLevel(level), or EPISODIC when the string is not a level.
AsLevel(arg) == IF arg \in Levels THEN arg ELSE Episodic

\* Mutant of IsPrevious: the filter on the level is missing.
IsPreviousOfAll(p, level) ==
  /\ p \in Live
  /\ \A q \in Live : \/ nodes[q].at < nodes[p].at
                     \/ nodes[q].at = nodes[p].at /\ p <= q

\* The node a write to the level is linked to in time: the latest created_at,
\* the first inserted of those that share it (the sort is stable).
IsPrevious(p, level) ==
  /\ p \in Live /\ nodes[p].level = level
  /\ \A q \in Live : nodes[q].level = level =>
       \/ nodes[q].at < nodes[p].at
       \/ nodes[q].at = nodes[p].at /\ p <= q

\* Mutant of Both: the edge is added on one side only.
OneWay(n, others) == {n} \X others

Both(n, others) == ({n} \X others) \cup (others \X {n})

\* The first EntityCap members, in no particular order, of the set of ids
\* filed under an entity, the new node included.
Peeked(ids) ==
  {s \in SUBSET ids : Cardinality(s) = IF Cardinality(ids) < EntityCap
                                       THEN Cardinality(ids) ELSE EntityCap}

\* write(): the node, then its temporal, causal, semantic and entity edges.
Write(arg, high, at, parent, links, ents) ==
  LET n == next
      level == AsLevel(arg)
      filed == [e \in Entities |-> index[e] \cup IF e \in ents THEN {n} ELSE {}]
  IN
  /\ next <= MaxNodes
  /\ nodes' = [m \in Live \cup {n} |->
                 IF m = n
                 THEN [level |-> level, high |-> high, at |-> at, sources |-> {}]
                 ELSE nodes[m]]
  /\ index' = filed
  /\ \E peers \in [ents -> SUBSET Ids] :
       /\ \A e \in ents : peers[e] \in Peeked(filed[e])
       /\ edges' = [edges EXCEPT
            !["temporal"] = @ \cup Both(n, {p \in Live : IsPrevious(p, level)}),
            !["causal"]   = @ \cup Both(n, {parent} \cap Live),
            !["semantic"] = @ \cup Both(n, links \cap Live),
            !["entity"]   = @ \cup Both(n, (UNION {peers[e] : e \in ents}) \ {n})]
  /\ next' = next + 1

\* Mutant of SourcesOf: source_ids is written after the metadata of the source.
DirectSource(n) == {n}

\* {"source_ids": [n], **metadata}: a source_ids of the source wins.
SourcesOf(n) == IF nodes[n].sources = {} THEN {n} ELSE nodes[n].sources

\* consolidate(): one SEMANTIC summary per important node of the level, in the
\* order of the nodes; the summaries of this call are not promoted again.
Consolidate(arg) ==
  LET chosen == {n \in Live : nodes[n].level = AsLevel(arg) /\ nodes[n].high}
      new    == next .. (next + Cardinality(chosen) - 1)
  IN
  /\ new \subseteq Ids
  /\ \E of \in [new -> chosen], at \in [new -> Times] :
       /\ \A a, b \in new : a < b => of[a] < of[b]
       /\ nodes' = [n \in Live \cup new |->
            IF n \in new
            THEN [level |-> Semantic, high |-> TRUE, at |-> at[n],
                  sources |-> SourcesOf(of[n])]
            ELSE nodes[n]]
       /\ edges' = [edges EXCEPT
            !["semantic"] = @ \cup UNION {Both(s, {of[s]}) : s \in new},
            !["causal"]   = @ \cup {<<s, of[s]>> : s \in new}]
  /\ next' = next + Cardinality(chosen)
  /\ UNCHANGED index

\* Mutant of Delete: the peers' sides of the edges stay.
DeleteOwnSide(n) ==
  /\ n \in Live
  /\ nodes' = [m \in Live \ {n} |-> nodes[m]]
  /\ edges' = [k \in Kinds |-> {e \in edges[k] : e[1] # n}]
  /\ index' = [e \in Entities |-> index[e] \ {n}]
  /\ UNCHANGED next

\* Mutant of Delete: the index rows of the node's entities go as a whole.
DeleteWholeRows(n) ==
  /\ n \in Live
  /\ nodes' = [m \in Live \ {n} |-> nodes[m]]
  /\ edges' = [k \in Kinds |-> {e \in edges[k] : e[1] # n /\ e[2] # n}]
  /\ index' = [e \in Entities |-> IF n \in index[e] THEN {} ELSE index[e]]
  /\ UNCHANGED next

\* Mutant of Delete: the adjacency sets of the peers go as a whole.
DeletePeersEdges(n) ==
  /\ n \in Live
  /\ nodes' = [m \in Live \ {n} |-> nodes[m]]
  /\ edges' = [k \in Kinds |-> {e \in edges[k] : /\ e[1] # n /\ e[2] # n
                                               /\ <<e[1], n>> \notin edges[k]}]
  /\ index' = [e \in Entities |-> index[e] \ {n}]
  /\ UNCHANGED next

\* delete(): nothing happens for an unknown id.
Delete(n) ==
  /\ n \in Live
  /\ nodes' = [m \in Live \ {n} |-> nodes[m]]
  /\ edges' = [k \in Kinds |-> {e \in edges[k] : e[1] # n /\ e[2] # n}]
  /\ index' = [e \in Entities |-> index[e] \ {n}]
  /\ UNCHANGED next

Next ==
  \/ \E arg \in Levels \cup {"unknown"}, high \in BOOLEAN, at \in Times,
        parent \in Ids \cup {0}, links \in SUBSET Ids, ents \in SUBSET Entities :
       Write(arg, high, at, parent, links, ents)
  \/ \E arg \in Levels \cup {"unknown"} : Consolidate(arg)
  \/ \E n \in Ids : Delete(n)

Spec == Init /\ [][Next]_vars
-----------------------------------------------------------------------------
TypeOK ==
  /\ Live \subseteq 1 .. (next - 1) /\ nodes \in [Live -> Node]
  /\ edges \in [Kinds -> SUBSET (Ids \X Ids)]
  /\ index \in [Entities -> SUBSET Ids]
  /\ next \in 1 .. MaxNodes + 1

\* memory_delete removes a node "and its incident edges/entity index rows": no
\* edge of any graph and no index row refers to a node that is gone, and no
\* node is its own neighbour.
NothingDangles ==
  /\ \A k \in Kinds : \A e \in edges[k] : {e[1], e[2]} \subseteq Live /\ e[1] # e[2]
  /\ \A e \in Entities : index[e] \subseteq Live

\* Neighbours see each other, so a delete reached from either side finds the
\* edge.  The one exception is the causal edge of a summary to its source.
NeighboursAreMutual ==
  \A k \in Kinds : \A e \in edges[k] :
    \/ <<e[2], e[1]>> \in edges[k]
    \/ k = "causal" /\ nodes[e[1]].sources # {}

\* Two nodes are joined in the entity graph only while some entity has both.
EntityEdgesAreIndexed ==
  \A e \in edges["entity"] : \E x \in Entities : {e[1], e[2]} \subseteq index[x]

\* The temporal graph strings each level together backwards: it joins nodes of
\* one level, and a node has at most one neighbour older than itself.
TemporalGraphIsAForest ==
  \A e \in edges["temporal"] :
    /\ nodes[e[1]].level = nodes[e[2]].level
    /\ \A f \in edges["temporal"] :
         e[1] = f[1] /\ e[2] < e[1] /\ f[2] < f[1] => e[2] = f[2]

\* However often summaries are themselves consolidated, source_ids names a node
\* that a client wrote, never a summary.
SourcesAreOriginals ==
  \A n \in Live : \A o \in nodes[n].sources :
    o < n /\ (o \in Live => nodes[o].sources = {})

\* Only the removal of an endpoint removes an edge, and an id once removed is
\* never in use again.
OnlyDeleteCutsEdges ==
  [][/\ \A k \in Kinds : \A e \in edges[k] :
          e \in edges'[k] \/ ~({e[1], e[2]} \subseteq DOMAIN nodes')
     /\ \A n \in 1 .. (next - 1) : n \in DOMAIN nodes' => n \in Live]_vars
=============================================================================
