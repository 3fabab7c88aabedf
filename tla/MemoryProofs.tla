---------------------------- MODULE MemoryProofs ----------------------------
(***************************************************************************)
(* The in-process memory graph keeps its integrity for any number of       *)
(* nodes, levels, entities and clock readings.  The cache in front of it,  *)
(* which memory_read shares with the plan cache and which is a system of   *)
(* its own, holds and answers what was stored: proofs of ExactIsLatest,    *)
(* DeletedStaysDeleted, ExactDescriptionWins and AnswersWereTrue for any   *)
(* payloads, similarities, sizes, puts and hits.                           *)
(***************************************************************************)
EXTENDS MultiGraph, CacheTools, FiniteSetTheorems, WellFoundedInduction, TLAPS

IndInv == /\ TypeOK
          /\ NothingDangles
          /\ NeighboursAreMutual
          /\ EntityEdgesAreIndexed
          /\ TemporalGraphIsAForest
          /\ SourcesAreOriginals

\* Initially everything is empty.
LEMMA InitIndInv == Init => IndInv
<1> SUFFICES ASSUME Init PROVE IndInv
  OBVIOUS
<1>1. /\ Live = {} /\ next = 1 /\ "entity" \in Kinds /\ "temporal" \in Kinds
      /\ \A k \in Kinds : edges[k] = {}
      /\ \A e \in Entities : index[e] = {}
  BY DEF Init, Live, Kinds
<1>2. TypeOK
  BY <1>1, BoundAssumption DEF Init, TypeOK, Live
<1>3. QED
  BY <1>1, <1>2 DEF IndInv, NothingDangles, NeighboursAreMutual,
     EntityEdgesAreIndexed, TemporalGraphIsAForest, SourcesAreOriginals

\* At most one node is the previous node of a level.
LEMMA PreviousIsUnique ==
  ASSUME TypeOK, NEW level, NEW p, NEW q, IsPrevious(p, level), IsPrevious(q, level)
  PROVE  p = q
<1>1. /\ p \in Live /\ q \in Live /\ p \in Nat /\ q \in Nat
      /\ nodes[p].at \in Nat /\ nodes[q].at \in Nat
  BY TimesAssumption, BoundAssumption DEF IsPrevious, TypeOK, Node, Live
<1>2. QED
  BY <1>1 DEF IsPrevious

\* write() preserves the integrity of the graph.
LEMMA WriteKeeps ==
  ASSUME IndInv, NEW arg, NEW high \in BOOLEAN, NEW at \in Times,
         NEW parent, NEW links, NEW ents \in SUBSET Entities,
         Write(arg, high, at, parent, links, ents)
  PROVE  IndInv'
<1> DEFINE n == next
           level == AsLevel(arg)
           prev == {p \in Live : IsPrevious(p, level)}
           filed == [e \in Entities |-> index[e] \cup IF e \in ents THEN {n} ELSE {}]
           node == [level |-> level, high |-> high, at |-> at, sources |-> {}]
<1>1. PICK peers \in [ents -> SUBSET Ids] :
        /\ \A e \in ents : peers[e] \in Peeked(filed[e])
        /\ edges' = [edges EXCEPT
             !["temporal"] = @ \cup Both(n, prev),
             !["causal"]   = @ \cup Both(n, {parent} \cap Live),
             !["semantic"] = @ \cup Both(n, links \cap Live),
             !["entity"]   = @ \cup Both(n, (UNION {peers[e] : e \in ents}) \ {n})]
  BY DEF Write
<1> DEFINE cousins == (UNION {peers[e] : e \in ents}) \ {n}
<1>2. /\ n \in Ids /\ n \notin Live /\ n \in Nat
      /\ \A m \in Live : m \in Ids /\ m \in Nat /\ m < n
      /\ level \in Levels /\ node \in Node
  BY LevelsAssumption, BoundAssumption DEF Write, IndInv, TypeOK, AsLevel, Ids, Node
<1>3. /\ Live' = Live \cup {n} /\ nodes'[n] = node
      /\ \A m \in Live : nodes'[m] = nodes[m]
      /\ nodes' = [m \in Live \cup {n} |-> IF m = n THEN node ELSE nodes[m]]
  BY <1>2 DEF Write, Live
<1>4. index' = filed /\ next' = n + 1
  BY DEF Write
<1>5. /\ edges'["temporal"] = edges["temporal"] \cup Both(n, prev)
      /\ edges'["causal"] = edges["causal"] \cup Both(n, {parent} \cap Live)
      /\ edges'["semantic"] = edges["semantic"] \cup Both(n, links \cap Live)
      /\ edges'["entity"] = edges["entity"] \cup Both(n, cousins)
  BY <1>1 DEF IndInv, TypeOK, Kinds
<1>6. ASSUME NEW c \in cousins
      PROVE  c \in Live /\ \E x \in Entities : {n, c} \subseteq filed[x]
  <2>1. PICK x \in ents : c \in peers[x] /\ c # n
    OBVIOUS
  <2>2. peers[x] \subseteq filed[x]
    BY <1>1 DEF Peeked
  <2>3. index[x] \subseteq Live
    BY DEF IndInv, NothingDangles
  <2>4. QED
    BY <2>1, <2>2, <2>3
<1>7. \A p \in prev : p \in Live /\ nodes[p].level = level /\ \A q \in prev : p = q
  BY PreviousIsUnique DEF IsPrevious, IndInv
<1> HIDE DEF filed, cousins, prev, level
<1>8. ASSUME NEW k \in Kinds
      PROVE  \E new \in SUBSET Live : edges'[k] = edges[k] \cup Both(n, new)
  <2>1. cousins \subseteq Live /\ prev \subseteq Live
    BY <1>6, <1>7
  <2>2. QED
    BY <1>5, <2>1 DEF Kinds
<1>9. ASSUME NEW k \in Kinds, NEW e \in edges'[k], e \notin edges[k]
      PROVE  /\ e = <<e[1], e[2]>>
             /\ (e[1] = n /\ e[2] \in Live) \/ (e[2] = n /\ e[1] \in Live)
             /\ <<e[2], e[1]>> \in edges'[k]
  <2>1. PICK new \in SUBSET Live : edges'[k] = edges[k] \cup Both(n, new)
    BY <1>8
  <2>2. e \in Both(n, new)
    BY <1>9, <2>1
  <2>3. QED
    BY <2>1, <2>2 DEF Both
<1>10. \A k \in Kinds : edges[k] \subseteq edges'[k]
  BY <1>8
<1>11. TypeOK'
  <2>1. Live' \subseteq 1 .. (next' - 1) /\ next' \in 1 .. MaxNodes + 1
    BY <1>2, <1>3, <1>4, BoundAssumption DEF IndInv, TypeOK, Ids
  <2>2. nodes' \in [Live' -> Node]
    BY <1>2, <1>3 DEF IndInv, TypeOK
  <2>3. edges' \in [Kinds -> SUBSET (Ids \X Ids)]
    <3>1. edges' \in [Kinds -> SUBSET (Ids \X Ids)]
            <=> \A k \in Kinds : edges'[k] \in SUBSET (Ids \X Ids)
      BY <1>1 DEF IndInv, TypeOK
    <3>2. ASSUME NEW k \in Kinds, NEW e \in edges'[k] PROVE e \in Ids \X Ids
      <4>1. CASE e \in edges[k]
        BY <4>1 DEF IndInv, TypeOK
      <4>2. CASE e \notin edges[k]
        <5>1. e = <<e[1], e[2]>> /\ e[1] \in Ids /\ e[2] \in Ids
          BY <1>2, <1>9, <4>2
        <5>2. QED
          BY <5>1
      <4>3. QED
        BY <4>1, <4>2
    <3>3. QED
      BY <3>1, <3>2
  <2>4. index' \in [Entities -> SUBSET Ids]
    BY <1>2, <1>4 DEF IndInv, TypeOK, filed
  <2>5. QED
    BY <2>1, <2>2, <2>3, <2>4 DEF TypeOK
<1>12. NothingDangles'
  <2>1. ASSUME NEW k \in Kinds, NEW e \in edges'[k]
        PROVE  {e[1], e[2]} \subseteq Live' /\ e[1] # e[2]
    <3>1. CASE e \in edges[k]
      BY <1>3, <3>1 DEF IndInv, NothingDangles
    <3>2. CASE e \notin edges[k]
      BY <1>2, <1>3, <1>9, <3>2
    <3>3. QED
      BY <3>1, <3>2
  <2>2. ASSUME NEW x \in Entities PROVE index'[x] \subseteq Live'
    BY <1>3, <1>4 DEF IndInv, NothingDangles, filed
  <2>3. QED
    BY <2>1, <2>2 DEF NothingDangles
<1>13. NeighboursAreMutual'
  <2>1. ASSUME NEW k \in Kinds, NEW e \in edges'[k]
        PROVE  \/ <<e[2], e[1]>> \in edges'[k]
               \/ k = "causal" /\ nodes'[e[1]].sources # {}
    <3>1. CASE e \notin edges[k]
      BY <1>9, <3>1
    <3>2. CASE e \in edges[k]
      <4>1. e[1] \in Live
        BY <3>2 DEF IndInv, NothingDangles
      <4>2. QED
        BY <1>3, <1>10, <3>2, <4>1 DEF IndInv, NeighboursAreMutual
    <3>3. QED
      BY <3>1, <3>2
  <2>2. QED
    BY <2>1 DEF NeighboursAreMutual
<1>14. EntityEdgesAreIndexed'
  <2>1. ASSUME NEW e \in edges'["entity"]
        PROVE  \E x \in Entities : {e[1], e[2]} \subseteq index'[x]
    <3>1. CASE e \in edges["entity"]
      BY <1>4, <3>1 DEF IndInv, EntityEdgesAreIndexed, filed
    <3>2. CASE e \in Both(n, cousins)
      <4>1. PICK c \in cousins : e = <<n, c>> \/ e = <<c, n>>
        BY <3>2 DEF Both
      <4>2. PICK x \in Entities : {n, c} \subseteq filed[x]
        BY <1>6
      <4>3. QED
        BY <1>4, <4>1, <4>2
    <3>3. QED
      BY <1>5, <3>1, <3>2
  <2>2. QED
    BY <2>1 DEF EntityEdgesAreIndexed
<1>15. TemporalGraphIsAForest'
  <2>1. ASSUME NEW e \in edges'["temporal"]
        PROVE  \/ e \in edges["temporal"] /\ e[1] \in Live /\ e[2] \in Live
               \/ e[1] = n /\ e[2] \in prev /\ e[2] \in Live
               \/ e[2] = n /\ e[1] \in prev /\ e[1] \in Live
    <3>1. CASE e \in edges["temporal"]
      BY <3>1 DEF IndInv, NothingDangles, Kinds
    <3>2. CASE e \in Both(n, prev)
      <4>1. PICK p \in prev : e = <<n, p>> \/ e = <<p, n>>
        BY <3>2 DEF Both
      <4>2. QED
        BY <1>7, <4>1
    <3>3. QED
      BY <1>5, <3>1, <3>2
  <2>2. ASSUME NEW e \in edges'["temporal"]
        PROVE  nodes'[e[1]].level = nodes'[e[2]].level
    BY <1>2, <1>3, <1>7, <2>1 DEF IndInv, TemporalGraphIsAForest
  <2>3. ASSUME NEW e \in edges'["temporal"], NEW f \in edges'["temporal"],
               e[1] = f[1], e[2] < e[1], f[2] < f[1]
        PROVE  e[2] = f[2]
    BY <1>2, <1>7, <2>1, <2>3 DEF IndInv, TemporalGraphIsAForest
  <2>4. QED
    BY <2>2, <2>3 DEF TemporalGraphIsAForest
<1>16. SourcesAreOriginals'
  BY <1>2, <1>3 DEF IndInv, SourcesAreOriginals, TypeOK, Node
<1>17. QED
  BY <1>11, <1>12, <1>13, <1>14, <1>15, <1>16 DEF IndInv

\* delete() preserves the integrity of the graph.
LEMMA DeleteKeeps ==
  ASSUME IndInv, NEW n \in Ids, Delete(n)
  PROVE  IndInv'
<1>1. /\ Live' = Live \ {n}
      /\ \A m \in Live' : m \in Live /\ nodes'[m] = nodes[m]
      /\ nodes' = [m \in Live \ {n} |-> nodes[m]]
      /\ next' = next
  BY DEF Delete, Live
<1>2. \A k \in Kinds : edges'[k] = {e \in edges[k] : e[1] # n /\ e[2] # n}
  BY DEF Delete
<1>3. \A x \in Entities : index'[x] = index[x] \ {n}
  BY DEF Delete
<1>4. TypeOK'
  BY <1>1 DEF Delete, IndInv, TypeOK
<1>5. \A k \in Kinds : \A e \in edges'[k] :
        e \in edges[k] /\ e[1] \in Live' /\ e[2] \in Live' /\ e[1] # e[2]
  BY <1>1, <1>2 DEF IndInv, NothingDangles
<1>6. NothingDangles'
  BY <1>1, <1>3, <1>5 DEF IndInv, NothingDangles
<1>7. NeighboursAreMutual'
  <2>1. ASSUME NEW k \in Kinds, NEW e \in edges'[k], <<e[2], e[1]>> \in edges[k]
        PROVE  <<e[2], e[1]>> \in edges'[k]
    BY <1>2, <2>1
  <2>2. QED
    BY <1>1, <1>5, <2>1 DEF IndInv, NeighboursAreMutual
<1>8. EntityEdgesAreIndexed'
  BY <1>2, <1>3 DEF IndInv, EntityEdgesAreIndexed, Kinds
<1>9. TemporalGraphIsAForest'
  BY <1>1, <1>5 DEF IndInv, TemporalGraphIsAForest, Kinds
<1>10. SourcesAreOriginals'
  BY <1>1 DEF IndInv, SourcesAreOriginals
<1>11. QED
  BY <1>4, <1>6, <1>7, <1>8, <1>9, <1>10 DEF IndInv

\* consolidate() preserves the integrity of the graph.
LEMMA ConsolidateKeeps ==
  ASSUME IndInv, NEW arg, Consolidate(arg)
  PROVE  IndInv'
<1> DEFINE chosen == {n \in Live : nodes[n].level = AsLevel(arg) /\ nodes[n].high}
           size == Cardinality(chosen)
           new == next .. (next + size - 1)
<1>1. PICK of \in [new -> chosen], at \in [new -> Times] :
        /\ nodes' = [n \in Live \cup new |->
             IF n \in new
             THEN [level |-> Semantic, high |-> TRUE, at |-> at[n],
                   sources |-> SourcesOf(of[n])]
             ELSE nodes[n]]
        /\ edges' = [edges EXCEPT
             !["semantic"] = @ \cup UNION {Both(s, {of[s]}) : s \in new},
             !["causal"]   = @ \cup {<<s, of[s]>> : s \in new}]
  BY DEF Consolidate
<1>2. size \in Nat /\ new \subseteq Ids /\ next' = next + size /\ index' = index
  <2>1. IsFiniteSet(1 .. (next - 1)) /\ chosen \subseteq 1 .. (next - 1)
    <3>1. next - 1 \in Int /\ 1 \in Int
      BY BoundAssumption DEF IndInv, TypeOK
    <3>2. IsFiniteSet(1 .. (next - 1))
      BY <3>1, FS_Interval
    <3>3. QED
      BY <3>2 DEF IndInv, TypeOK
  <2>2. IsFiniteSet(chosen)
    BY <2>1, FS_Subset
  <2>3. QED
    BY <2>2, FS_CardinalityType DEF Consolidate
<1> HIDE DEF size
<1>3. /\ next \in Nat /\ next >= 1
      /\ \A m \in Live : m \in Ids /\ m \in Nat /\ m < next
      /\ \A s \in new : s \in Nat /\ s \in Ids /\ s >= next /\ s \notin Live
      /\ \A s \in new : of[s] \in Live /\ of[s] < next /\ of[s] < s
  <2>1. next \in Nat /\ next >= 1
    BY BoundAssumption DEF IndInv, TypeOK
  <2>2. \A m \in Live : m \in Ids /\ m \in Nat /\ m < next
    BY <2>1, BoundAssumption DEF IndInv, TypeOK, Ids
  <2>3. ASSUME NEW s \in new
        PROVE  s \in Nat /\ s \in Ids /\ s >= next /\ s \notin Live
    <3>1. s \in Ids
      BY <1>2
    <3>2. s \in Nat /\ s >= next
      BY <1>2, <2>1, <3>1, BoundAssumption DEF Ids
    <3>3. QED
      BY <2>1, <2>2, <3>1, <3>2
  <2>4. \A s \in new : of[s] \in chosen
    BY <1>1
  <2>5. QED
    BY <2>1, <2>2, <2>3, <2>4
<1>4. /\ Live' = Live \cup new
      /\ \A m \in Live : nodes'[m] = nodes[m]
      /\ \A s \in new : nodes'[s] = [level |-> Semantic, high |-> TRUE, at |-> at[s],
                                     sources |-> SourcesOf(of[s])]
      /\ \A s \in new : nodes'[s].sources = SourcesOf(of[s])
  <2>1. /\ Live' = Live \cup new
        /\ \A m \in Live : nodes'[m] = nodes[m]
        /\ \A s \in new : nodes'[s] = [level |-> Semantic, high |-> TRUE, at |-> at[s],
                                       sources |-> SourcesOf(of[s])]
    BY <1>1, <1>3 DEF Live
  <2>2. ASSUME NEW s \in new PROVE nodes'[s].sources = SourcesOf(of[s])
    <3>1. nodes'[s] = [level |-> Semantic, high |-> TRUE, at |-> at[s],
                       sources |-> SourcesOf(of[s])]
      BY <2>1
    <3>2. QED
      BY <3>1
  <2>3. QED
    BY <2>1, <2>2
<1>5. \A s \in new : SourcesOf(of[s]) \in SUBSET Ids /\ SourcesOf(of[s]) # {}
  BY <1>3 DEF IndInv, TypeOK, Node, SourcesOf
<1>6. /\ edges'["semantic"] = edges["semantic"] \cup UNION {Both(s, {of[s]}) : s \in new}
      /\ edges'["causal"] = edges["causal"] \cup {<<s, of[s]>> : s \in new}
      /\ edges'["temporal"] = edges["temporal"] /\ edges'["entity"] = edges["entity"]
  BY <1>1 DEF IndInv, TypeOK, Kinds
<1> HIDE DEF new
<1>7. ASSUME NEW k \in Kinds, NEW e \in edges'[k], e \notin edges[k]
      PROVE  \E s \in new : \/ e = <<s, of[s]>>
                            \/ k = "semantic" /\ e = <<of[s], s>>
  BY <1>6, <1>7 DEF Kinds, Both
<1>8. \A k \in Kinds : edges[k] \subseteq edges'[k]
  BY <1>6 DEF Kinds
<1>9. TypeOK'
  <2>1. Live' \subseteq 1 .. (next' - 1) /\ next' \in 1 .. MaxNodes + 1
    BY <1>2, <1>3, <1>4, BoundAssumption DEF IndInv, TypeOK, Ids, new
  <2>2. nodes' \in [Live' -> Node]
    <3>1. \A s \in new : nodes'[s] \in Node
      BY <1>1, <1>4, <1>5, LevelsAssumption DEF Node
    <3>2. \A m \in Live : nodes'[m] \in Node
      BY <1>4 DEF IndInv, TypeOK
    <3>3. nodes' = [m \in Live' |-> nodes'[m]]
      BY <1>1, <1>4
    <3>4. QED
      BY <1>4, <3>1, <3>2, <3>3
  <2>3. edges' \in [Kinds -> SUBSET (Ids \X Ids)]
    <3>1. edges' \in [Kinds -> SUBSET (Ids \X Ids)]
            <=> \A k \in Kinds : edges'[k] \in SUBSET (Ids \X Ids)
      BY <1>1 DEF IndInv, TypeOK
    <3>2. ASSUME NEW k \in Kinds, NEW e \in edges'[k] PROVE e \in Ids \X Ids
      <4>1. CASE e \in edges[k]
        BY <4>1 DEF IndInv, TypeOK
      <4>2. CASE e \notin edges[k]
        BY <1>3, <1>7, <4>2
      <4>3. QED
        BY <4>1, <4>2
    <3>3. QED
      BY <3>1, <3>2
  <2>4. QED
    BY <1>2, <2>1, <2>2, <2>3 DEF IndInv, TypeOK
<1>10. NothingDangles'
  <2>1. ASSUME NEW k \in Kinds, NEW e \in edges'[k]
        PROVE  {e[1], e[2]} \subseteq Live' /\ e[1] # e[2]
    BY <1>3, <1>4, <1>7 DEF IndInv, NothingDangles
  <2>2. QED
    BY <1>2, <1>4, <2>1 DEF IndInv, NothingDangles
<1>11. NeighboursAreMutual'
  <2>1. ASSUME NEW k \in Kinds, NEW e \in edges'[k]
        PROVE  \/ <<e[2], e[1]>> \in edges'[k]
               \/ k = "causal" /\ nodes'[e[1]].sources # {}
    <3>1. CASE e \in edges[k]
      <4>1. e[1] \in Live
        BY <3>1 DEF IndInv, NothingDangles
      <4>2. QED
        BY <1>4, <1>8, <3>1, <4>1 DEF IndInv, NeighboursAreMutual
    <3>2. CASE e \notin edges[k] /\ k = "semantic"
      BY <1>6, <1>7, <3>2 DEF Both
    <3>3. CASE e \notin edges[k] /\ k # "semantic"
      <4>1. k = "causal"
        BY <1>6, <3>3 DEF Kinds
      <4>2. PICK r \in new : e = <<r, of[r]>>
        BY <1>7, <3>3
      <4>3. nodes'[e[1]].sources # {}
        BY <1>4, <1>5, <4>2
      <4>4. QED
        BY <4>1, <4>3
    <3>4. QED
      BY <3>1, <3>2, <3>3
  <2>2. QED
    BY <2>1 DEF NeighboursAreMutual
<1>12. EntityEdgesAreIndexed'
  BY <1>2, <1>6 DEF IndInv, EntityEdgesAreIndexed
<1>13. TemporalGraphIsAForest'
  <2>1. \A e \in edges["temporal"] : e[1] \in Live /\ e[2] \in Live
    BY DEF IndInv, NothingDangles, Kinds
  <2>2. QED
    BY <1>4, <1>6, <2>1 DEF IndInv, TemporalGraphIsAForest
<1>14. SourcesAreOriginals'
  <2>1. ASSUME NEW m \in Live, NEW o \in nodes'[m].sources
        PROVE  o < m /\ (o \in Live' => nodes'[o].sources = {})
    BY <1>3, <1>4 DEF IndInv, SourcesAreOriginals
  <2>2. ASSUME NEW s \in new, NEW o \in nodes'[s].sources
        PROVE  o < s /\ (o \in Live' => nodes'[o].sources = {})
    <3>1. o \in SourcesOf(of[s]) /\ of[s] \in Live /\ of[s] < s /\ of[s] < next /\ s >= next
      BY <1>3, <1>4, <2>2
    <3>2. o <= of[s] /\ (o \in Live => nodes[o].sources = {}) /\ o \in Nat /\ s \in Nat
      BY <1>3, <1>5, <3>1, BoundAssumption DEF IndInv, SourcesAreOriginals, SourcesOf, Ids
    <3>3. o < s /\ o < next
      BY <1>3, <3>1, <3>2
    <3>4. o \notin new
      BY <1>3, <3>3
    <3>5. QED
      BY <1>4, <3>2, <3>3, <3>4
  <2>3. QED
    BY <1>4, <2>1, <2>2 DEF SourcesAreOriginals
<1>15. QED
  BY <1>9, <1>10, <1>11, <1>12, <1>13, <1>14 DEF IndInv

\* Every step of the memory preserves the integrity of the graph.
LEMMA StepIndInv == IndInv /\ [Next]_vars => IndInv'
<1> SUFFICES ASSUME IndInv, [Next]_vars PROVE IndInv'
  OBVIOUS
<1>1. ASSUME NEW arg \in Levels \cup {"unknown"}, NEW high \in BOOLEAN, NEW at \in Times,
             NEW parent \in Ids \cup {0}, NEW links \in SUBSET Ids,
             NEW ents \in SUBSET Entities, Write(arg, high, at, parent, links, ents)
      PROVE  IndInv'
  BY <1>1, WriteKeeps
<1>2. ASSUME NEW arg \in Levels \cup {"unknown"}, Consolidate(arg) PROVE IndInv'
  BY <1>2, ConsolidateKeeps
<1>3. ASSUME NEW n \in Ids, Delete(n) PROVE IndInv'
  BY <1>3, DeleteKeeps
<1>4. CASE UNCHANGED vars
  BY <1>4 DEF vars, IndInv, TypeOK, NothingDangles, NeighboursAreMutual,
     EntityEdgesAreIndexed, TemporalGraphIsAForest, SourcesAreOriginals, Live
<1>5. QED
  BY <1>1, <1>2, <1>3, <1>4 DEF Next

\* The inductive invariant holds throughout.
LEMMA AlwaysIndInv == Spec => []IndInv
  BY InitIndInv, StepIndInv, PTL DEF Spec

\* The state of the memory always has its type.
THEOREM TypeCorrect == Spec => []TypeOK
  BY AlwaysIndInv, PTL DEF IndInv

\* No edge and no entity row ever refers to a deleted node.
THEOREM NoDanglingReference == Spec => []NothingDangles
  BY AlwaysIndInv, PTL DEF IndInv

\* Edges are seen from both ends, a summary's causal edge excepted.
THEOREM MutualNeighbours == Spec => []NeighboursAreMutual
  BY AlwaysIndInv, PTL DEF IndInv

\* Entity edges are always justified by a common entity.
THEOREM JustifiedEntityEdges == Spec => []EntityEdgesAreIndexed
  BY AlwaysIndInv, PTL DEF IndInv

\* The temporal graph never joins two levels or two histories of a node.
THEOREM TemporalForest == Spec => []TemporalGraphIsAForest
  BY AlwaysIndInv, PTL DEF IndInv

\* Consolidation of any depth keeps the provenance of a summary.
THEOREM Provenance == Spec => []SourcesAreOriginals
  BY AlwaysIndInv, PTL DEF IndInv
-----------------------------------------------------------------------------
\* What a step does to edges and ids: see OnlyDeleteCutsEdges.
EdgesStay ==
  /\ \A k \in Kinds : \A e \in edges[k] :
       e \in edges'[k] \/ ~({e[1], e[2]} \subseteq DOMAIN nodes')
  /\ \A n \in 1 .. (next - 1) : n \in DOMAIN nodes' => n \in Live

LEMMA StepEdgesStay == IndInv /\ [Next]_vars => [EdgesStay]_vars
<1> SUFFICES ASSUME IndInv, Next PROVE EdgesStay
  OBVIOUS
<1>1. edges \in [Kinds -> SUBSET (Ids \X Ids)] /\ next \in Nat
  BY BoundAssumption DEF IndInv, TypeOK
<1>2. ASSUME NEW arg, NEW high, NEW at, NEW parent, NEW links, NEW ents,
             Write(arg, high, at, parent, links, ents)
      PROVE  EdgesStay
  <2>1. \A k \in Kinds : edges[k] \subseteq edges'[k]
    <3>1. PICK temporal, causal, semantic, entity :
            edges' = [edges EXCEPT !["temporal"] = @ \cup temporal,
                                   !["causal"]   = @ \cup causal,
                                   !["semantic"] = @ \cup semantic,
                                   !["entity"]   = @ \cup entity]
      BY <1>2 DEF Write
    <3>2. QED
      BY <1>1, <3>1 DEF Kinds
  <2>2. DOMAIN nodes' = Live \cup {next}
    BY <1>2 DEF Write
  <2>3. QED
    BY <1>1, <2>1, <2>2 DEF EdgesStay
<1>3. ASSUME NEW arg, Consolidate(arg) PROVE EdgesStay
  <2> DEFINE chosen == {n \in Live : nodes[n].level = AsLevel(arg) /\ nodes[n].high}
             new == next .. (next + Cardinality(chosen) - 1)
  <2>1. PICK of \in [new -> chosen], at \in [new -> Times] :
          /\ DOMAIN nodes' = Live \cup new
          /\ edges' = [edges EXCEPT
               !["semantic"] = @ \cup UNION {Both(s, {of[s]}) : s \in new},
               !["causal"]   = @ \cup {<<s, of[s]>> : s \in new}]
    BY <1>3 DEF Consolidate
  <2>2. \A k \in Kinds : edges[k] \subseteq edges'[k]
    BY <1>1, <2>1 DEF Kinds
  <2>3. \A n \in new : n >= next /\ n \in Int
    BY <1>1
  <2> HIDE DEF new
  <2>4. QED
    BY <1>1, <2>1, <2>2, <2>3 DEF EdgesStay
<1>4. ASSUME NEW n \in Ids, Delete(n) PROVE EdgesStay
  <2>1. DOMAIN nodes' = Live \ {n}
    BY <1>4 DEF Delete
  <2>2. \A k \in Kinds : edges'[k] = {e \in edges[k] : e[1] # n /\ e[2] # n}
    BY <1>4 DEF Delete
  <2>3. QED
    BY <2>1, <2>2 DEF EdgesStay
<1>5. QED
  BY <1>2, <1>3, <1>4 DEF Next

\* A step takes away an edge only by removing one of its ends, and no step brings a
\* removed id back into use.
THEOREM EdgesAreKept == Spec => OnlyDeleteCutsEdges
<1>1. [EdgesStay]_vars => [/\ \A k \in Kinds : \A e \in edges[k] :
                                e \in edges'[k] \/ ~({e[1], e[2]} \subseteq DOMAIN nodes')
                           /\ \A n \in 1 .. (next - 1) : n \in DOMAIN nodes' => n \in Live]_vars
  BY DEF EdgesStay
<1>2. QED
  BY AlwaysIndInv, StepEdgesStay, <1>1, PTL DEF Spec, OnlyDeleteCutsEdges
-----------------------------------------------------------------------------
(***************************************************************************)
(* The cache.                                                              *)
(***************************************************************************)
\* Pairs that order a set: of two members, one comes before the other.
Orders(before, set) ==
  /\ \A m \in set : <<m, m>> \notin before
  /\ \A m, n \in set : m # n => <<m, n>> \in before \/ <<n, m>> \in before
  /\ \A l, m, n \in set : <<l, m>> \in before /\ <<m, n>> \in before => <<l, n>> \in before

\* A list of size places has each member of a set once.
Lists(q, size, set) ==
  /\ q \in [1 .. size -> set]
  /\ \A i, j \in 1 .. size : q[i] = q[j] => i = j
  /\ \A n \in set : \E i \in 1 .. size : q[i] = n

LEMMA RankedListsAll ==
  ASSUME NEW set, IsFiniteSet(set), NEW before, Orders(before, set)
  PROVE  Lists(Ranked(set, before), Cardinality(set), set)
<1> DEFINE size == Cardinality(set)
           less(n) == {m \in set : <<m, n>> \in before}
           rank == [n \in set |-> Cardinality(less(n)) + 1]
           q == Ranked(set, before)
<1> HIDE DEF size, less, rank, q
<1>1. size \in Nat
  BY FS_CardinalityType DEF size
<1>2. ASSUME NEW n \in set
      PROVE  Cardinality(less(n)) \in 0 .. (size - 1) /\ IsFiniteSet(less(n))
  <2>1. less(n) \in SUBSET set /\ n \notin less(n) /\ less(n) # set
    BY DEF less, Orders
  <2>2. /\ IsFiniteSet(less(n)) /\ Cardinality(less(n)) <= size /\ Cardinality(less(n)) # size
    BY <2>1, FS_Subset DEF size
  <2>3. Cardinality(less(n)) \in Nat
    BY <2>2, FS_CardinalityType
  <2>4. QED
    BY <1>1, <2>2, <2>3
<1>3. rank \in [set -> 1 .. size]
  <2>1. \A n \in set : Cardinality(less(n)) + 1 \in 1 .. size
    BY <1>1, <1>2
  <2>2. QED
    BY <2>1 DEF rank
<1>4. ASSUME NEW m \in set, NEW n \in set, <<m, n>> \in before
      PROVE  rank[m] # rank[n]
  <2>1. less(m) \in SUBSET less(n) /\ m \in less(n) /\ m \notin less(m)
    BY <1>4 DEF less, Orders
  <2>2. Cardinality(less(m)) # Cardinality(less(n))
    BY <1>2, <2>1, FS_Subset
  <2>3. Cardinality(less(m)) \in Int /\ Cardinality(less(n)) \in Int
    BY <1>2
  <2>4. QED
    BY <2>2, <2>3 DEF rank
<1>5. \A m, n \in set : rank[m] = rank[n] => m = n
  BY <1>4 DEF Orders
<1>6. rank \in Surjection(set, 1 .. size)
  <2>1. rank \in Injection(set, 1 .. size)
    BY <1>3, <1>5 DEF Injection, IsInjective
  <2>2. IsFiniteSet(1 .. size) /\ Cardinality(1 .. size) = size
    BY <1>1, FS_Interval
  <2>3. QED
    BY <2>1, <2>2, FS_Injection DEF size
<1>7. \A i \in 1 .. size : \E n \in set : rank[n] = i
  BY <1>6 DEF Surjection
<1>8. ASSUME NEW i \in 1 .. size
      PROVE  q[i] \in set /\ rank[q[i]] = i
  <2>1. PICK n \in set : rank[n] = i
    BY <1>7
  <2>2. Cardinality(less(n)) \in Int /\ Cardinality(less(n)) = i - 1
    BY <1>1, <1>2, <2>1 DEF rank
  <2>3. q[i] = CHOOSE m \in set : Cardinality(less(m)) = i - 1
    BY DEF q, Ranked, less, size
  <2>4. q[i] \in set /\ Cardinality(less(q[i])) = i - 1
    BY <2>2, <2>3
  <2>5. QED
    BY <1>1, <2>4 DEF rank
<1>9. q \in [1 .. size -> set]
  BY <1>8 DEF q, Ranked, size
<1>10. \A n \in set : \E i \in 1 .. size : q[i] = n
  BY <1>3, <1>5, <1>8
<1>11. QED
  BY <1>8, <1>9, <1>10 DEF q, size, Lists
-----------------------------------------------------------------------------
Objects(Values) == [key : Key, value : Values, hits : Nat]
InList(list) == {list[i] : i \in DOMAIN list}
IsOnce(list) == \A i, j \in DOMAIN list : list[i] = list[j] => i = j

\* Hits, then age, order the entries.
LEMMA HitsOrder ==
  ASSUME NEW Values, NEW all \in Seq(Objects(Values)), NEW set \in SUBSET DOMAIN all
  PROVE  Orders(FewerHits(all), set)
<1>1. \A m \in set : m \in Nat /\ m \in DOMAIN all /\ all[m].hits \in Nat
  <2>1. DOMAIN all = 1 .. Len(all) /\ Len(all) \in Nat /\ \A m \in DOMAIN all : all[m] \in Objects(Values)
    OBVIOUS
  <2>2. \A r \in Objects(Values) : r.hits \in Nat
    BY DEF Objects
  <2>3. QED
    BY <2>1, <2>2
<1>2. \A m, n \in set : <<m, n>> \in FewerHits(all) <=>
        all[m].hits < all[n].hits \/ (all[m].hits = all[n].hits /\ m < n)
  BY <1>1 DEF FewerHits
<1>3. QED
  BY <1>1, <1>2 DEF Orders

\* A list of members that are all different is as long as its set.
LEMMA OnceIsCounted ==
  ASSUME NEW S, NEW list \in Seq(S), IsOnce(list)
  PROVE  /\ IsFiniteSet(InList(list)) /\ Cardinality(InList(list)) = Len(list)
         /\ InList(list) \subseteq S
<1>1. Len(list) \in Nat /\ DOMAIN list = 1 .. Len(list) /\ list \in [1 .. Len(list) -> S]
  OBVIOUS
<1>2. list \in [1 .. Len(list) -> InList(list)]
  BY <1>1 DEF InList
<1>3. list \in Surjection(1 .. Len(list), InList(list))
  BY <1>1, <1>2 DEF Surjection, InList
<1>4. list \in Injection(1 .. Len(list), InList(list))
  BY <1>1, <1>2 DEF Injection, IsInjective, IsOnce
<1>5. IsFiniteSet(1 .. Len(list)) /\ Cardinality(1 .. Len(list)) = Len(list)
  BY <1>1, FS_Interval
<1>6. QED
  BY <1>1, <1>3, <1>4, <1>5, FS_Surjection DEF InList

\* The list is the same entries, each once, after it was sorted.
LEMMA ArrangedListsAll ==
  ASSUME NEW Values, NEW all \in Seq(Objects(Values)),
         NEW list \in Seq(DOMAIN all), IsOnce(list)
  PROVE  LET q == Arranged(all, list) IN
         /\ q \in [1 .. Len(list) -> DOMAIN all]
         /\ \A i, j \in 1 .. Len(list) : q[i] = q[j] => i = j
         /\ InList(list) = {q[i] : i \in 1 .. Len(list)}
<1>1. CASE Len(list) <= MaxEntries
  BY <1>1 DEF Arranged, InList, IsOnce
<1>2. CASE ~ (Len(list) <= MaxEntries)
  <2>1. PICK set : set = InList(list)
    OBVIOUS
  <2>2. IsFiniteSet(set) /\ Cardinality(set) = Len(list) /\ set \subseteq DOMAIN all
    BY <2>1, OnceIsCounted
  <2>3. Orders(FewerHits(all), set)
    BY <2>2, HitsOrder
  <2>4. PICK q : q = Ranked(set, FewerHits(all))
    OBVIOUS
  <2>5. /\ q \in [1 .. Len(list) -> set]
        /\ \A i, j \in 1 .. Len(list) : q[i] = q[j] => i = j
        /\ \A n \in set : \E i \in 1 .. Len(list) : q[i] = n
    <3>1. Lists(q, Len(list), set)
      BY <2>2, <2>3, <2>4, RankedListsAll
    <3>2. QED
      BY <3>1 DEF Lists
  <2>6. /\ set \subseteq {q[i] : i \in 1 .. Len(list)} /\ {q[i] : i \in 1 .. Len(list)} \subseteq set
        /\ q \in [1 .. Len(list) -> DOMAIN all]
    BY <2>2, <2>5
  <2>7. q = Arranged(all, list)
    BY <1>2, <2>1, <2>4 DEF Arranged, InList
  <2>8. QED
    BY <2>1, <2>5, <2>6, <2>7
<1>3. QED
  BY <1>1, <1>2
-----------------------------------------------------------------------------
\* What the two tools cache.
Results == [filter : Filters, nodes : SUBSET Nodes]
Values == PlanValues \cup Results

\* A key leads to an entry that was put under it.
KeysLeadHome == \A k \in DOMAIN exact : objs[exact[k]].key = k

\* What memory_read caches is the answer of a read with that key.
ResultsFitTheirKeys ==
  \A n \in DOMAIN objs : objs[n].key.ns = "memory_read" =>
    objs[n].value \in Results /\ ReadKey(objs[n].value.filter) = objs[n].key

CacheInv == /\ CacheTypeOK(Values)
            /\ ExactIsLatest
            /\ DeletedStaysDeleted
            /\ KeysLeadHome
            /\ ResultsFitTheirKeys

\* The conjuncts of CacheInv that the lemmas use, one by one.
LEMMA CacheFacts ==
  ASSUME CacheInv
  PROVE  /\ objs \in Seq(Objects(Values))
         /\ DOMAIN objs = 1 .. Len(objs) /\ Len(objs) \in Nat
         /\ \A n \in DOMAIN objs : objs[n] \in Objects(Values)
         /\ entries \in Seq(DOMAIN objs) /\ DOMAIN entries = 1 .. Len(entries)
         /\ Len(entries) \in Nat
         /\ Listed \subseteq DOMAIN objs /\ Listed = InList(entries) /\ IsOnce(entries)
         /\ DOMAIN exact \subseteq Key /\ exact \in [DOMAIN exact -> DOMAIN objs]
         /\ last \in [Key -> DOMAIN objs \cup {0}]
<1>1. /\ objs \in Seq(Objects(Values)) /\ entries \in Seq(DOMAIN objs)
      /\ DOMAIN exact \subseteq Key /\ exact \in [DOMAIN exact -> DOMAIN objs]
      /\ last \in [Key -> DOMAIN objs \cup {0}]
  BY DEF CacheInv, CacheTypeOK, Objects
<1>2. IsOnce(entries)
  BY DEF CacheInv, DeletedStaysDeleted, IsOnce
<1>3. Listed \subseteq DOMAIN objs /\ Listed = InList(entries)
  BY <1>1 DEF Listed, InList
<1>4. QED
  BY <1>1, <1>2, <1>3

LEMMA HitKeeps ==
  ASSUME CacheInv, NEW n \in DOMAIN objs, Hit(n)
  PROVE  /\ CacheInv' /\ UNCHANGED <<entries, exact, last, Listed>>
         /\ DOMAIN objs' = DOMAIN objs
         /\ \A m \in DOMAIN objs : objs'[m].key = objs[m].key /\ objs'[m].value = objs[m].value
<1>1. objs' = [objs EXCEPT ![n].hits = @ + 1] /\ UNCHANGED <<entries, exact, last>>
  BY DEF Hit
<1>2. \A m \in DOMAIN objs : objs[m] \in Objects(Values)
  BY CacheFacts
<1>3. /\ DOMAIN objs' = DOMAIN objs
      /\ \A m \in DOMAIN objs : /\ objs'[m].key = objs[m].key /\ objs'[m].value = objs[m].value
                                /\ objs'[m] \in Objects(Values)
  BY <1>1, <1>2 DEF Objects
<1>4. objs' \in Seq(Objects(Values))
  <2>1. objs \in [1 .. Len(objs) -> Objects(Values)] /\ Len(objs) \in Nat
    BY CacheFacts
  <2>2. objs' \in [1 .. Len(objs) -> Objects(Values)]
    BY <1>1, <1>3, <2>1
  <2>3. QED
    BY <2>1, <2>2
<1>5. UNCHANGED Listed
  BY <1>1 DEF Listed
<1>6. CacheTypeOK(Values)'
  BY <1>1, <1>3, <1>4 DEF CacheTypeOK, CacheInv, Objects
<1>7. ExactIsLatest'
  BY <1>1, <1>5 DEF ExactIsLatest, CacheInv
<1>8. DeletedStaysDeleted'
  BY <1>1, <1>3, <1>5, CacheFacts DEF DeletedStaysDeleted, CacheInv
<1>9. KeysLeadHome'
  BY <1>1, <1>3, CacheFacts DEF KeysLeadHome, CacheInv
<1>10. ResultsFitTheirKeys'
  BY <1>3 DEF ResultsFitTheirKeys, CacheInv, ReadKey, KeyOf
<1>11. QED
  BY <1>1, <1>3, <1>5, <1>6, <1>7, <1>8, <1>9, <1>10 DEF CacheInv

\* The entries of other keys stay, in their order, each once.
LEMMA DeletePlanKeeps ==
  ASSUME CacheInv, NEW k \in Key, DeletePlan(k)
  PROVE  CacheInv'
<1> DEFINE kept == {i \in DOMAIN entries : objs[entries[i]].key # k}
           before == {ij \in kept \X kept : ij[1] < ij[2]}
<1>1. kept \subseteq 1 .. Len(entries) /\ Len(entries) \in Nat
  BY CacheFacts
<1>2. IsFiniteSet(kept) /\ Cardinality(kept) \in Nat
  <2>1. IsFiniteSet(1 .. Len(entries)) /\ kept \in SUBSET (1 .. Len(entries))
    BY <1>1, FS_Interval
  <2> HIDE DEF kept
  <2>2. IsFiniteSet(kept)
    BY <2>1, FS_Subset
  <2>3. QED
    BY <2>2, FS_CardinalityType
<1>3. Orders(before, kept)
  BY <1>1 DEF Orders
<1>4. PICK order : order = Ranked(kept, before)
  OBVIOUS
<1>5. entries' = [i \in DOMAIN order |-> entries[order[i]]]
  BY <1>4 DEF DeletePlan, Without
<1>6. PICK size : size = Cardinality(kept)
  OBVIOUS
<1> HIDE DEF before
<1>7. /\ order \in [1 .. size -> kept]
      /\ \A i, j \in 1 .. size : order[i] = order[j] => i = j
      /\ \A n \in kept : \E i \in 1 .. size : order[i] = n
  <2> HIDE DEF kept
  <2>1. Lists(order, size, kept)
    BY <1>2, <1>3, <1>4, <1>6, RankedListsAll
  <2>2. QED
    BY <2>1 DEF Lists
<1>8. /\ exact' = [j \in DOMAIN exact \ {k} |-> exact[j]]
      /\ last' = [last EXCEPT ![k] = 0] /\ UNCHANGED objs
  BY DEF DeletePlan
<1>9. entries' \in Seq(DOMAIN objs)
  <2>1. size \in Nat /\ DOMAIN order = 1 .. size
    BY <1>2, <1>6, <1>7
  <2>2. \A i \in 1 .. size : entries[order[i]] \in DOMAIN objs
    BY <1>7, CacheFacts
  <2>3. entries' \in [1 .. size -> DOMAIN objs]
    BY <1>5, <2>1, <2>2
  <2>4. QED
    BY <2>1, <2>3
<1>10. IsOnce(entries')
  BY <1>5, <1>7, CacheFacts DEF IsOnce
<1>11. \A n \in DOMAIN objs : n \in Listed' <=> n \in Listed /\ objs[n].key # k
  BY <1>5, <1>7 DEF Listed
<1>12. Listed' \subseteq DOMAIN objs
  BY <1>9 DEF Listed
<1>13. CacheTypeOK(Values)'
  BY <1>8, <1>9, CacheFacts DEF CacheTypeOK, CacheInv, Objects
<1>14. ExactIsLatest' /\ KeysLeadHome'
  BY <1>8, <1>11, CacheFacts DEF ExactIsLatest, KeysLeadHome, CacheInv
<1>15. DeletedStaysDeleted'
  BY <1>8, <1>10, <1>11, <1>12, CacheFacts DEF DeletedStaysDeleted, CacheInv, IsOnce, Objects
<1>16. ResultsFitTheirKeys'
  BY <1>8 DEF ResultsFitTheirKeys, CacheInv, ReadKey, KeyOf
<1>17. QED
  BY <1>13, <1>14, <1>15, <1>16 DEF CacheInv

\* A put drops an entry from the list only together with its key.
LEMMA PutKeeps ==
  ASSUME CacheInv, NEW k \in Key, NEW value \in Values, Put(k, value),
         k.ns = "memory_read" => value \in Results /\ ReadKey(value.filter) = k
  PROVE  CacheInv'
<1>1. PICK n : n = Len(objs) + 1
  OBVIOUS
<1>2. PICK all : all = Append(objs, [key |-> k, value |-> value, hits |-> 0])
  OBVIOUS
<1>3. PICK list : list = Append(entries, n)
  OBVIOUS
<1>4. PICK q : q = Arranged(all, list)
  OBVIOUS
<1>5. PICK gone : gone = Dropped(all, list)
  OBVIOUS
<1>6. PICK e : e = Evicted(list)
  OBVIOUS
<1>7. /\ objs' = all
      /\ entries' = SubSeq(q, e + 1, Len(list))
      /\ exact' = [j \in (DOMAIN exact \cup {k}) \ gone |-> IF j = k THEN n ELSE exact[j]]
      /\ last' = [last EXCEPT ![k] = n]
  BY <1>1, <1>2, <1>3, <1>4, <1>5, <1>6 DEF Put
<1>8. /\ all \in Seq(Objects(Values)) /\ DOMAIN all = DOMAIN objs \cup {n} /\ n \notin DOMAIN objs
      /\ all[n].key = k /\ all[n].value = value /\ \A m \in DOMAIN objs : all[m] = objs[m]
      /\ n \in Nat \ {0}
  <2>1. [key |-> k, value |-> value, hits |-> 0] \in Objects(Values)
    BY DEF Objects
  <2>2. QED
    BY <1>1, <1>2, <2>1, CacheFacts
<1>9. /\ list \in Seq(DOMAIN all) /\ IsOnce(list) /\ Len(list) \in Nat
      /\ InList(list) = Listed \cup {n}
  <2>1. /\ entries \in Seq(DOMAIN objs) /\ Len(entries) \in Nat /\ Listed = InList(entries)
        /\ IsOnce(entries) /\ DOMAIN entries = 1 .. Len(entries)
    BY CacheFacts
  <2>2. entries \in Seq(DOMAIN all) /\ n \in DOMAIN all
    BY <1>8, <2>1
  <2>3. /\ list \in Seq(DOMAIN all) /\ Len(list) = Len(entries) + 1
        /\ DOMAIN list = 1 .. (Len(entries) + 1) /\ list[Len(entries) + 1] = n
        /\ \A i \in 1 .. Len(entries) : list[i] = entries[i]
    BY <1>3, <2>1, <2>2
  <2>4. \A i \in 1 .. Len(entries) : entries[i] \in DOMAIN objs
    BY <2>1
  <2>5. IsOnce(list)
    BY <1>8, <2>1, <2>3, <2>4 DEF IsOnce
  <2>6. InList(list) = InList(entries) \cup {n}
    BY <2>1, <2>3 DEF InList
  <2>7. QED
    BY <2>1, <2>3, <2>5, <2>6
<1>10. e \in 0 .. Len(list)
  BY <1>6, <1>9 DEF Evicted
<1>11. /\ q \in [1 .. Len(list) -> DOMAIN all]
       /\ \A i, j \in 1 .. Len(list) : q[i] = q[j] => i = j
       /\ InList(list) = {q[i] : i \in 1 .. Len(list)}
  <2>1. all \in Seq(Objects(Values)) /\ list \in Seq(DOMAIN all) /\ IsOnce(list)
    BY <1>8, <1>9
  <2>2. QED
    BY <1>4, <2>1, ArrangedListsAll
<1>12. gone = {all[q[i]].key : i \in 1 .. e}
  BY <1>4, <1>5, <1>6 DEF Dropped
<1>13. entries' = [i \in 1 .. (Len(list) - e) |-> q[i + e]]
  BY <1>7, <1>9, <1>10, <1>11
<1>14. entries' \in Seq(DOMAIN all)
  <2>1. Len(list) - e \in Nat
    BY <1>9, <1>10
  <2>2. entries' \in [1 .. (Len(list) - e) -> DOMAIN all]
    BY <1>9, <1>10, <1>11, <1>13
  <2>3. QED
    BY <2>1, <2>2
<1>15. IsOnce(entries')
  BY <1>9, <1>10, <1>11, <1>13 DEF IsOnce
<1>16. Listed' = {q[i] : i \in (e + 1) .. Len(list)}
  <2>1. DOMAIN entries' = 1 .. (Len(list) - e)
    BY <1>13
  <2>2. \A i \in (e + 1) .. Len(list) : /\ i - e \in 1 .. (Len(list) - e)
                                        /\ entries'[i - e] = q[i]
    BY <1>9, <1>10, <1>13
  <2>3. \A i \in 1 .. (Len(list) - e) : /\ i + e \in (e + 1) .. Len(list)
                                        /\ entries'[i] = q[i + e]
    BY <1>9, <1>10, <1>13
  <2>4. QED
    BY <2>1, <2>2, <2>3 DEF Listed
<1>17. Listed' \subseteq Listed \cup {n}
  BY <1>9, <1>10, <1>11, <1>16
<1>18. \A m \in Listed \cup {n} : all[m].key \in gone \/ m \in Listed'
  <2>1. TAKE m \in Listed \cup {n}
  <2>2. PICK i \in 1 .. Len(list) : q[i] = m
    BY <1>9, <1>11
  <2>3. i \in 1 .. e \/ i \in (e + 1) .. Len(list)
    BY <1>9, <1>10
  <2>4. QED
    BY <2>2, <2>3, <1>12, <1>16
<1>19. CacheTypeOK(Values)'
  BY <1>7, <1>8, <1>14, CacheFacts DEF CacheTypeOK, Objects
<1>20. KeysLeadHome'
  BY <1>7, <1>8, CacheFacts DEF KeysLeadHome, CacheInv
<1>21. ExactIsLatest'
  <2>1. SUFFICES ASSUME NEW j \in DOMAIN exact'
                 PROVE  exact'[j] = last'[j] /\ exact'[j] \in Listed'
    BY DEF ExactIsLatest
  <2>2. j \in Key /\ j \notin gone /\ last'[j] = IF j = k THEN n ELSE last[j]
    BY <1>7, CacheFacts
  <2>3. CASE j = k
    BY <1>7, <1>8, <1>18, <2>2, <2>3
  <2>4. CASE j # k
    <3>1. /\ j \in DOMAIN exact /\ exact'[j] = exact[j] /\ exact[j] = last[j]
          /\ exact[j] \in Listed /\ objs[exact[j]].key = j
      BY <1>7, <2>4 DEF CacheInv, ExactIsLatest, KeysLeadHome
    <3>2. all[exact[j]].key = j
      BY <1>8, <3>1, CacheFacts
    <3>3. QED
      BY <1>18, <2>2, <2>4, <3>1, <3>2
  <2>5. QED
    BY <2>3, <2>4
<1>22. DeletedStaysDeleted'
  <2>1. \A m \in Listed' : last'[all[m].key] # 0
    BY <1>7, <1>8, <1>17, CacheFacts DEF CacheInv, DeletedStaysDeleted, Objects
  <2>2. QED
    BY <1>7, <1>15, <2>1 DEF DeletedStaysDeleted, IsOnce
<1>23. ResultsFitTheirKeys'
  BY <1>7, <1>8 DEF ResultsFitTheirKeys, CacheInv, ReadKey, KeyOf
<1>24. QED
  BY <1>19, <1>20, <1>21, <1>22, <1>23 DEF CacheInv
-----------------------------------------------------------------------------
ToolsInv == CacheInv /\ PlanTypeOK /\ ReadTypeOK

LEMMA InitTools == ToolsInit => ToolsInv
<1> SUFFICES ASSUME ToolsInit PROVE ToolsInv
  OBVIOUS
<1> USE DEF ToolsInit
<1>1. /\ objs = << >> /\ entries = << >> /\ exact = [k \in {} |-> 0]
      /\ last = [k \in Key |-> 0]
  BY DEF CacheInit
<1>2. DOMAIN objs = {} /\ DOMAIN entries = {} /\ Listed = {} /\ DOMAIN exact = {}
  BY <1>1 DEF Listed
<1>3. CacheInv
  BY <1>1, <1>2 DEF CacheInv, CacheTypeOK, ExactIsLatest, DeletedStaysDeleted, KeysLeadHome,
                    ResultsFitTheirKeys
<1>4. PlanTypeOK
  BY DEF PlanInit, PlanTypeOK
<1>5. ReadTypeOK
  BY DEF ReadInit, ReadTypeOK
<1>6. QED
  BY <1>3, <1>4, <1>5 DEF ToolsInv

LEMMA KeysTyped ==
  /\ \A task \in Tasks : PlanKey(task) \in Key /\ PlanKey(task).ns = "plan"
  /\ \A f \in Filters : ReadKey(f) \in Key /\ ReadKey(f).ns = "memory_read"
  /\ \A f \in Filters, set \in SUBSET Nodes :
       Result(f, set) \in Results /\ Result(f, set).filter = f /\ Result(f, set).nodes = set
  BY TasksAssumption, FilterAssumption
  DEF PlanKey, ReadKey, KeyOf, Key, Namespaces, Result, Results

\* Calls of the plan cache tools.
LEMMA PlanKeeps ==
  ASSUME ToolsInv, PlanNext
  PROVE  CacheInv' /\ PlanTypeOK'
<1>1. CacheInv
  BY DEF ToolsInv
<1>2. PICK task \in Tasks : \/ \E plan \in PlanValues : PlanCachePut(task, plan)
                            \/ PlanCacheGet(task) \/ PlanCacheDelete(task)
  BY DEF PlanNext
<1>3. PICK k \in Key : k = PlanKey(task) /\ k.ns = "plan"
  BY KeysTyped
<1>4. ASSUME NEW plan \in PlanValues, PlanCachePut(task, plan)
      PROVE  CacheInv' /\ PlanTypeOK'
  <2>1. Put(k, plan) /\ plan \in Values /\ k.ns # "memory_read"
    BY <1>3, <1>4 DEF PlanCachePut, Values
  <2>2. CacheInv'
    BY <1>1, <2>1, PutKeeps
  <2>3. Len(objs') = Len(objs) + 1 /\ Len(objs) \in Nat
    BY <1>1, <2>1, CacheFacts DEF Put
  <2>4. PlanTypeOK'
    BY <1>4, <2>3 DEF PlanCachePut, PlanTypeOK
  <2>5. QED
    BY <2>2, <2>4
<1>5. CASE GetSemantic("plan", task) /\ PlanCacheGet(task)
  <2>1. PICK n \in Listed : IsNearest(n, "plan", task) /\ Hit(n)
    BY <1>5 DEF GetSemantic
  <2>2. n \in DOMAIN objs
    BY <1>1, CacheFacts
  <2>3. CacheInv' /\ DOMAIN objs' = DOMAIN objs
    BY <1>1, <2>1, <2>2, HitKeeps
  <2>4. \/ answer'.number \in Listed \/ answer'.number = 0
    BY <1>5, <2>1 DEF PlanCacheGet
  <2>5. answer'.number \in 0 .. Len(objs')
    BY <1>1, <2>3, <2>4, CacheFacts
  <2>6. answer' \in [tool : {"get"}, task : Tasks, number : 0 .. Len(objs')]
    BY <1>5, <2>5 DEF PlanCacheGet
  <2>7. QED
    BY <2>3, <2>6 DEF PlanTypeOK
<1>6. CASE ~ (\E n \in Listed : IsNearest(n, "plan", task)) /\ PlanCacheGet(task)
  <2>1. UNCHANGED cacheVars /\ answer' = [tool |-> "get", task |-> task, number |-> 0]
    BY <1>6 DEF PlanCacheGet, GetSemantic
  <2>2. CacheInv'
    BY <1>1, <2>1 DEF CacheInv, cacheVars, CacheTypeOK, ExactIsLatest, DeletedStaysDeleted, Listed,
                      KeysLeadHome, ResultsFitTheirKeys, ReadKey, KeyOf
  <2>3. PlanTypeOK'
    BY <1>1, <2>1, CacheFacts DEF PlanTypeOK, cacheVars
  <2>4. QED
    BY <2>2, <2>3
<1>7. CASE PlanCacheDelete(task)
  <2>1. DeletePlan(k)
    BY <1>3, <1>7 DEF PlanCacheDelete
  <2>2. CacheInv'
    BY <1>1, <2>1, DeletePlanKeeps
  <2>3. PlanTypeOK'
    BY <1>7 DEF PlanCacheDelete, PlanTypeOK
  <2>4. QED
    BY <2>2, <2>3
<1>8. QED
  BY <1>2, <1>4, <1>5, <1>6, <1>7 DEF PlanCacheGet

\* What a cached read finds.
LEMMA CachedIsRead ==
  ASSUME CacheInv, NEW f \in Filters, ReadKey(f) \in DOMAIN exact
  PROVE  LET n == exact[ReadKey(f)] IN
         /\ n \in DOMAIN objs /\ n \in Reads
         /\ objs[n].value \in Results /\ ReadKey(objs[n].value.filter) = ReadKey(f)
<1>1. ReadKey(f) \in Key /\ ReadKey(f).ns = "memory_read"
  BY KeysTyped
<1>2. /\ exact[ReadKey(f)] \in DOMAIN objs /\ exact[ReadKey(f)] \in Listed
      /\ objs[exact[ReadKey(f)]].key = ReadKey(f)
  BY CacheFacts DEF CacheInv, ExactIsLatest, KeysLeadHome
<1>3. QED
  BY <1>1, <1>2 DEF CacheInv, ResultsFitTheirKeys, Reads

LEMMA MatchingTyped ==
  ASSUME NEW f, NEW set \in SUBSET Nodes
  PROVE  Matching(f, set) \in SUBSET Nodes
  BY DEF Matching

\* Calls of the memory tools.
LEMMA ReadKeeps ==
  ASSUME ToolsInv, ReadNext
  PROVE  CacheInv' /\ ReadTypeOK'
<1>1. CacheInv /\ mem \in SUBSET Nodes /\ dead \in SUBSET Nodes /\ mem \cap dead = {}
  BY DEF ToolsInv, ReadTypeOK
<1>2. ASSUME NEW n \in Nodes, MemoryWrite(n) \/ MemoryDelete(n)
      PROVE  CacheInv' /\ ReadTypeOK'
  <2>1. UNCHANGED cacheVars /\ reply' = NoReply
    BY <1>2 DEF MemoryWrite, MemoryDelete
  <2>2. CacheInv'
    BY <1>1, <2>1 DEF CacheInv, cacheVars, CacheTypeOK, ExactIsLatest, DeletedStaysDeleted, Listed,
                      KeysLeadHome, ResultsFitTheirKeys, ReadKey, KeyOf
  <2>3. ReadTypeOK'
    BY <1>1, <1>2, <2>1 DEF ReadTypeOK, MemoryWrite, MemoryDelete
  <2>4. QED
    BY <2>2, <2>3
<1>3. ASSUME NEW f \in Filters, ReadCached(f)
      PROVE  CacheInv' /\ ReadTypeOK'
  <2>1. PICK n : n = exact[ReadKey(f)]
    OBVIOUS
  <2>2. ReadKey(f) \in DOMAIN exact /\ Hit(n)
    BY <1>3, <2>1 DEF ReadCached, GetExact
  <2>3. n \in DOMAIN objs /\ objs[n].value \in Results
    BY <1>1, <2>1, <2>2, CachedIsRead
  <2>4. CacheInv'
    BY <1>1, <2>2, <2>3, HitKeeps
  <2>5. ItemsOf(objs[n].value) \in SUBSET Nodes
    BY <2>3, MatchingTyped DEF Results, ItemsOf
  <2>6. ReadTypeOK'
    BY <1>1, <1>3, <2>1, <2>5 DEF ReadTypeOK, ReadCached, Reply
  <2>7. QED
    BY <2>4, <2>6
<1>4. ASSUME NEW f \in Filters, ReadStored(f)
      PROVE  CacheInv' /\ ReadTypeOK'
  <2>1. PICK k \in Key : k = ReadKey(f)
    BY KeysTyped
  <2>2. PICK value \in Values : value = Result(f, mem) /\ value \in Results /\ ReadKey(value.filter) = k
    BY <1>1, <2>1, KeysTyped DEF Values
  <2>3. Put(k, value)
    BY <1>4, <2>1, <2>2 DEF ReadStored
  <2>4. CacheInv'
    BY <1>1, <2>2, <2>3, PutKeeps
  <2>5. ReadTypeOK'
    BY <1>1, <1>4, MatchingTyped DEF ReadTypeOK, ReadStored, Reply
  <2>6. QED
    BY <2>4, <2>5
<1>5. QED
  BY <1>2, <1>3, <1>4 DEF ReadNext

LEMMA StepTools == ToolsInv /\ [ToolsNext]_toolVars => ToolsInv'
<1> SUFFICES ASSUME ToolsInv, [ToolsNext]_toolVars
             PROVE  ToolsInv'
  OBVIOUS
<1>1. CASE PlanNext /\ reply' = NoReply /\ UNCHANGED <<mem, dead>>
  <2>1. ReadTypeOK'
    BY <1>1 DEF ToolsInv, ReadTypeOK
  <2>2. QED
    BY <1>1, <2>1, PlanKeeps DEF ToolsInv
<1>2. CASE ReadNext /\ answer' = NoAnswer
  <2>1. PlanTypeOK'
    BY <1>2 DEF PlanTypeOK
  <2>2. QED
    BY <1>2, <2>1, ReadKeeps DEF ToolsInv
<1>3. CASE UNCHANGED toolVars
  <2>1. UNCHANGED <<objs, entries, exact, last, answer, mem, dead, reply>>
    BY <1>3 DEF toolVars, cacheVars
  <2>2. CacheInv'
    BY <2>1 DEF ToolsInv, CacheInv, CacheTypeOK, ExactIsLatest, DeletedStaysDeleted, Listed,
                KeysLeadHome, ResultsFitTheirKeys, ReadKey, KeyOf
  <2>3. PlanTypeOK' /\ ReadTypeOK'
    BY <2>1 DEF ToolsInv, PlanTypeOK, ReadTypeOK
  <2>4. QED
    BY <2>2, <2>3 DEF ToolsInv
<1>4. QED
  BY <1>1, <1>2, <1>3 DEF ToolsNext

LEMMA AlwaysTools == ToolsSpec => []ToolsInv
  BY InitTools, StepTools, PTL DEF ToolsSpec

\* The cache, its list and dictionary, and the answers are of their types.
THEOREM ToolsTyped == ToolsSpec => []ToolsTypeOK
<1>1. ToolsInv => ToolsTypeOK
  BY DEF ToolsInv, CacheInv, ToolsTypeOK, Values, Results
<1>2. QED
  BY AlwaysTools, <1>1, PTL

\* _exact leads to what was put last under the key, whatever was evicted.
THEOREM ExactStaysLatest == ToolsSpec => []ExactIsLatest
<1>1. ToolsInv => ExactIsLatest
  BY DEF ToolsInv, CacheInv
<1>2. QED
  BY AlwaysTools, <1>1, PTL

\* delete_plan() leaves no version of a plan behind.
THEOREM DeletedIsGone == ToolsSpec => []DeletedStaysDeleted
<1>1. ToolsInv => DeletedStaysDeleted
  BY DEF ToolsInv, CacheInv
<1>2. QED
  BY AlwaysTools, <1>1, PTL
-----------------------------------------------------------------------------
\* The scores of get_semantic().
ScoreOf(n, ns, payload) == IF objs[n].key.ns = ns THEN Score[<<payload, objs[n].key.payload>>] ELSE 0

\* A set of places of the list has a first one.
LEMMA FirstPlace ==
  ASSUME NEW T, T \subseteq Nat, T # {}
  PROVE  \E i \in T : \A j \in T : i <= j
<1> DEFINE Before == {x \in Nat \X Nat : x[1] < x[2]}
<1>1. IsWellFoundedOn(Before, Nat)
  BY NatLessThanWellFounded, Zenon DEF OpToRel
<1>2. PICK i \in T : \A j \in T : <<j, i>> \notin Before
  BY <1>1, WFMin
<1>3. \A j \in T : ~ (j < i)
  BY <1>2
<1>4. QED
  BY <1>3

\* An entry of the description itself has the best score there is.
LEMMA OwnScoreIsBest ==
  ASSUME CacheInv, NEW task \in Payloads, NEW n \in Listed, NEW m \in Listed,
         objs[n].key = PlanKey(task)
  PROVE  /\ ScoreOf(n, "plan", task) = Score[<<task, task>>]
         /\ ScoreOf(m, "plan", task) \in Nat /\ Score[<<task, task>>] \in Nat
         /\ ScoreOf(m, "plan", task) <= Score[<<task, task>>]
<1>1. objs[m].key \in Key /\ objs[m].key.payload \in Payloads
  BY CacheFacts DEF Objects, Key
<1>2. /\ Score[<<task, objs[m].key.payload>>] \in Nat /\ Score[<<task, task>>] \in Nat
      /\ Score[<<task, objs[m].key.payload>>] <= Score[<<task, task>>]
  BY <1>1, ScoreAssumption
<1>3. QED
  BY <1>2 DEF ScoreOf, PlanKey, KeyOf

\* While one is listed, a lookup finds an entry.
LEMMA SomeIsNearest ==
  ASSUME CacheInv, NEW task \in Payloads, NEW n \in Listed,
         objs[n].key = PlanKey(task), Score[<<task, task>>] >= Threshold
  PROVE  \E m \in Listed : IsNearest(m, "plan", task)
<1> DEFINE best == {i \in DOMAIN entries : ScoreOf(entries[i], "plan", task) = Score[<<task, task>>]}
<1>1. DOMAIN entries \subseteq Nat /\ \A i \in DOMAIN entries : entries[i] \in Listed
  BY CacheFacts DEF Listed
<1>2. best # {}
  BY OwnScoreIsBest DEF Listed
<1>3. PICK i \in best : \A j \in best : i <= j
  BY <1>1, <1>2, FirstPlace
<1>4. \A j \in DOMAIN entries :
        \/ ScoreOf(entries[j], "plan", task) < Score[<<task, task>>]
        \/ ScoreOf(entries[j], "plan", task) = Score[<<task, task>>] /\ i <= j
  <2>1. TAKE j \in DOMAIN entries
  <2>2. /\ ScoreOf(entries[j], "plan", task) <= Score[<<task, task>>]
        /\ ScoreOf(entries[j], "plan", task) \in Nat /\ Score[<<task, task>>] \in Nat
    BY <1>1, OwnScoreIsBest
  <2>3. QED
    BY <1>3, <2>2
<1>5. IsNearest(entries[i], "plan", task)
  BY <1>3, <1>4 DEF IsNearest, ScoreOf
<1>6. QED
  BY <1>1, <1>3, <1>5

\* The nearest entry is at least as similar as one of the description itself.
LEMMA NearestIsBest ==
  ASSUME CacheInv, NEW task \in Payloads, NEW n \in Listed, NEW m \in Listed,
         objs[n].key = PlanKey(task), IsNearest(m, "plan", task)
  PROVE  m # 0 /\ Score[<<task, objs[m].key.payload>>] = Score[<<task, task>>]
<1>1. PICK i \in DOMAIN entries :
        /\ m = entries[i] /\ ScoreOf(m, "plan", task) >= Threshold
        /\ \A j \in DOMAIN entries :
             \/ ScoreOf(entries[j], "plan", task) < ScoreOf(m, "plan", task)
             \/ ScoreOf(entries[j], "plan", task) = ScoreOf(m, "plan", task) /\ i <= j
  BY DEF IsNearest, ScoreOf
<1>2. ScoreOf(n, "plan", task) <= ScoreOf(m, "plan", task)
  <2>1. PICK j \in DOMAIN entries : n = entries[j]
    BY DEF Listed
  <2>2. ScoreOf(n, "plan", task) \in Nat /\ ScoreOf(m, "plan", task) \in Nat
    BY OwnScoreIsBest
  <2>3. QED
    BY <1>1, <2>1, <2>2
<1>3. /\ ScoreOf(m, "plan", task) = Score[<<task, task>>]
      /\ ScoreOf(m, "plan", task) \in Nat
  BY <1>2, OwnScoreIsBest
<1>4. objs[m].key.ns = "plan"
  BY <1>1, <1>3, ScoreAssumption DEF ScoreOf
<1>5. QED
  BY <1>3, <1>4, CacheFacts DEF ScoreOf

\* What a call answers.
LEMMA StepAnswersWins ==
  ToolsInv /\ ExactDescriptionWins /\ [ToolsNext]_toolVars => ExactDescriptionWins'
<1> SUFFICES ASSUME ToolsInv, ExactDescriptionWins, [ToolsNext]_toolVars
             PROVE  ExactDescriptionWins'
  OBVIOUS
<1>1. CacheInv
  BY DEF ToolsInv
<1>2. CASE answer' = NoAnswer \/ answer'.tool # "get"
  BY <1>2 DEF NoAnswer, ExactDescriptionWins
<1>3. ASSUME NEW task \in Tasks, PlanCacheGet(task)
      PROVE  ExactDescriptionWins'
  <2>1. task \in Payloads /\ answer'.task = task
    BY <1>3, TasksAssumption DEF PlanCacheGet
  <2>2. SUFFICES ASSUME Score[<<task, task>>] >= Threshold,
                        NEW n \in Listed', objs'[n].key = PlanKey(task)
                 PROVE  /\ answer'.number # 0
                        /\ Score[<<task, objs'[answer'.number].key.payload>>] = Score[<<task, task>>]
    BY <2>1 DEF ExactDescriptionWins, PlanKey, KeyOf
  <2>3. CASE GetSemantic("plan", task)
    <3>1. PICK l \in Listed : IsNearest(l, "plan", task) /\ Hit(l)
      BY <2>3 DEF GetSemantic
    <3>2. l \in DOMAIN objs /\ Listed \subseteq DOMAIN objs
      BY <1>1, CacheFacts
    <3>3. /\ UNCHANGED Listed
          /\ \A m \in DOMAIN objs : objs'[m].key = objs[m].key
      BY <1>1, <3>1, <3>2, HitKeeps
    <3>4. n \in Listed /\ objs[n].key = PlanKey(task)
      BY <2>2, <3>2, <3>3
    <3>5. PICK m \in Listed : m = answer'.number /\ IsNearest(m, "plan", task)
      <4>1. answer'.number = CHOOSE m \in Listed : IsNearest(m, "plan", task)
        BY <1>3, <3>1 DEF PlanCacheGet
      <4>2. QED
        BY <3>1, <4>1
    <3>6. m # 0 /\ Score[<<task, objs[m].key.payload>>] = Score[<<task, task>>]
      BY <1>1, <2>1, <3>4, <3>5, NearestIsBest
    <3>7. QED
      BY <3>2, <3>3, <3>5, <3>6
  <2>4. CASE ~ (\E m \in Listed : IsNearest(m, "plan", task))
    <3>1. UNCHANGED <<Listed, objs>>
      BY <1>3, <2>4 DEF PlanCacheGet, GetSemantic, cacheVars, Listed
    <3>2. n \in Listed /\ objs[n].key = PlanKey(task)
      BY <2>2, <3>1
    <3>3. QED
      BY <1>1, <2>1, <2>2, <2>4, <3>2, SomeIsNearest
  <2>5. QED
    BY <1>3, <2>3, <2>4 DEF PlanCacheGet
<1>4. CASE UNCHANGED toolVars
  <2>1. UNCHANGED <<objs, entries, answer>>
    BY <1>4 DEF toolVars, cacheVars
  <2>2. QED
    BY <2>1 DEF ExactDescriptionWins, Listed, PlanKey, KeyOf
<1>5. CASE PlanNext
  <2>1. PICK task \in Tasks : \/ \E plan \in PlanValues : PlanCachePut(task, plan)
                              \/ PlanCacheGet(task) \/ PlanCacheDelete(task)
    BY <1>5 DEF PlanNext
  <2>2. QED
    BY <1>2, <1>3, <2>1 DEF PlanCachePut, PlanCacheDelete
<1>6. QED
  BY <1>2, <1>4, <1>5 DEF ToolsNext

\* A plan put for this very description is found while it is in the list, by itself
\* or by one that is no less similar.
THEOREM ExactDescriptionAlwaysWins == ToolsSpec => []ExactDescriptionWins
<1>1. ToolsInit => ExactDescriptionWins
  BY DEF ToolsInit, PlanInit, NoAnswer, ExactDescriptionWins
<1>2. QED
  BY AlwaysTools, <1>1, StepAnswersWins, PTL DEF ToolsSpec
-----------------------------------------------------------------------------
\* The setting of AnswersWereTrue: readers who filter by what is in the key.
KeysTellAll == \A f, g \in Filters : f.level = g.level => f = g

LEMMA StepAnswersTrue ==
  ASSUME KeysTellAll, ToolsInv, AnswersWereTrue, [ToolsNext]_toolVars
  PROVE  AnswersWereTrue'
<1>1. CacheInv /\ mem \subseteq Nodes
  BY DEF ToolsInv, ReadTypeOK
<1>2. CASE reply' = NoReply
  BY <1>2 DEF AnswersWereTrue, NoReply
<1>3. ASSUME NEW f \in Filters, ReadStored(f)
      PROVE  AnswersWereTrue'
  <2>1. reply' = [filter |-> f, items |-> Matching(f, mem), mem |-> mem]
    BY <1>3 DEF ReadStored, Reply
  <2>2. reply'.items = Matching(reply'.filter, reply'.mem)
    BY <2>1
  <2>3. QED
    BY <2>2 DEF AnswersWereTrue, Matching
<1>4. ASSUME NEW f \in Filters, ReadCached(f)
      PROVE  AnswersWereTrue'
  <2>1. PICK n : n = exact[ReadKey(f)]
    OBVIOUS
  <2>2. ReadKey(f) \in DOMAIN exact /\ Hit(n)
    BY <1>4, <2>1 DEF ReadCached, GetExact
  <2>3. /\ n \in DOMAIN objs /\ n \in Reads
        /\ objs[n].value \in Results /\ ReadKey(objs[n].value.filter) = ReadKey(f)
    BY <1>1, <2>1, <2>2, CachedIsRead
  <2>4. objs[n].value.filter = f
    <3>1. objs[n].value.filter \in Filters /\ objs[n].value.filter.level = f.level
      BY <2>3 DEF Results, ReadKey, KeyOf
    <3>2. QED
      BY <3>1 DEF KeysTellAll
  <2>5. /\ UNCHANGED Listed /\ objs'[n].key = objs[n].key /\ objs'[n].value = objs[n].value
    BY <1>1, <2>2, <2>3, HitKeeps
  <2>6. n \in Reads'
    BY <2>3, <2>5 DEF Reads
  <2>7. reply' = [filter |-> f, items |-> Matching(f, objs[n].value.nodes), mem |-> mem]
    BY <1>4, <2>1, <2>4 DEF ReadCached, Reply, ItemsOf
  <2>8. reply'.items = Matching(reply'.filter, objs'[n].value.nodes)
    BY <2>5, <2>7
  <2>9. QED
    BY <2>6, <2>8 DEF AnswersWereTrue, Matching
<1>5. CASE UNCHANGED toolVars
  <2>1. UNCHANGED <<objs, entries, reply>>
    BY <1>5 DEF toolVars, cacheVars
  <2>2. UNCHANGED Reads
    BY <2>1 DEF Reads, Listed
  <2>3. QED
    BY <2>1, <2>2 DEF AnswersWereTrue, Matching
<1>6. CASE ReadNext
  BY <1>2, <1>3, <1>4, <1>6 DEF ReadNext, MemoryWrite, MemoryDelete
<1>7. QED
  BY <1>2, <1>5, <1>6 DEF ToolsNext

\* memory_read answers what memory.read() would have answered, now or when the
\* result that is cached was put, for readers whose filters are in the key.
THEOREM AnswersStayWhatReadsGave ==
  ASSUME KeysTellAll
  PROVE  ToolsSpec => []AnswersWereTrue
<1>1. ToolsInit => AnswersWereTrue
  BY DEF ToolsInit, ReadInit, NoReply, AnswersWereTrue
<1>2. ToolsInv /\ AnswersWereTrue /\ [ToolsNext]_toolVars => AnswersWereTrue'
  BY StepAnswersTrue
<1>3. QED
  BY AlwaysTools, <1>1, <1>2, PTL DEF ToolsSpec
=============================================================================
