------------------------------- MODULE Cache -------------------------------
(***************************************************************************)
(* CacheLayer (src/src/yodmcp/cache/layer.py), which the plan_cache tools  *)
(* and memory_read share.  The code is synchronous: an operation is one    *)
(* step.                                                                   *)
(*                                                                         *)
(* Entries are numbered in the order in which they were put; created_at    *)
(* follows that order.  A key is a namespace and a payload; the cosine of  *)
(* two payloads is the constant Score.                                     *)
(***************************************************************************)
EXTENDS Naturals, Sequences, FiniteSets

CONSTANTS
  Payloads,     \* what is cached under: task descriptions, read arguments
  Score,        \* Score[<<p, q>>]: similarity of payloads
  Threshold,    \* similarity_threshold
  MaxEntries,   \* max_entries: 2048 in the program
  MaxPuts,      \* bound: entries ever put
  MaxHits       \* bound: hits of an entry

ASSUME ScoreAssumption ==
  /\ Score \in [Payloads \X Payloads -> Nat] /\ Threshold \in Nat \ {0}
  /\ \A p, q \in Payloads : Score[<<p, q>>] <= Score[<<p, p>>]
ASSUME SizeAssumption == MaxEntries \in Nat /\ MaxEntries >= 3 /\ MaxPuts \in Nat
                         /\ MaxHits \in Nat

Namespaces == {"plan", "memory_read"}
Key == [ns : Namespaces, payload : Payloads]

VARIABLES
  objs,     \* the entries ever put: key, value and hits
  entries,  \* _entries: the numbers of the entries in the list
  exact,    \* _exact: from keys to numbers
  last      \* last[k]: the last entry put under k since k was deleted, or 0;
            \* not in the program

cacheVars == <<objs, entries, exact, last>>

KeyOf(ns, payload) == [ns |-> ns, payload |-> payload]
Listed == {entries[i] : i \in DOMAIN entries}

CacheInit == /\ objs = << >> /\ entries = << >>
             /\ exact = [k \in {} |-> 0]
             /\ last = [k \in Key |-> 0]
-----------------------------------------------------------------------------
Hit(n) == /\ objs[n].hits < MaxHits
          /\ objs' = [objs EXCEPT ![n].hits = @ + 1]
          /\ UNCHANGED <<entries, exact, last>>

\* get_exact(): the entry it finds is hit.
GetExact(k) == k \in DOMAIN exact /\ Hit(exact[k])

\* Mutant of IsNearest: the first entry that is similar enough.
IsFirstSimilar(n, ns, payload) ==
  LET near(m) == objs[m].key.ns = ns /\ Score[<<payload, objs[m].key.payload>>] >= Threshold
  IN \E i \in DOMAIN entries : /\ n = entries[i] /\ near(n)
                              /\ \A j \in 1 .. (i - 1) : ~near(entries[j])

\* The first of the most similar entries of the namespace, if similar enough.
IsNearest(n, ns, payload) ==
  LET score(m) == IF objs[m].key.ns = ns THEN Score[<<payload, objs[m].key.payload>>] ELSE 0
  IN \E i \in DOMAIN entries :
       /\ n = entries[i] /\ score(n) >= Threshold
       /\ \A j \in DOMAIN entries : score(entries[j]) < score(n) \/
                                    (score(entries[j]) = score(n) /\ i <= j)

\* get_semantic(): the entry it finds is hit.
GetSemantic(ns, payload) == \E n \in Listed : IsNearest(n, ns, payload) /\ Hit(n)

\* The members of set, each after those that come before it.
Ranked(set, before) ==
  [i \in 1 .. Cardinality(set) |->
     CHOOSE n \in set : Cardinality({m \in set : <<m, n>> \in before}) = i - 1]

\* How many entries go once a put has made list of them: a quarter, if too many.
Evicted(list) == IF Len(list) <= MaxEntries THEN 0 ELSE Len(list) \div 4

\* The order by hits and then by age; the list is sorted only when entries are
\* evicted.
FewerHits(all) == {mn \in (DOMAIN all) \X (DOMAIN all) :
                     \/ all[mn[1]].hits < all[mn[2]].hits
                     \/ all[mn[1]].hits = all[mn[2]].hits /\ mn[1] < mn[2]}
Arranged(all, list) ==
  IF Len(list) <= MaxEntries THEN list
  ELSE Ranked({list[i] : i \in DOMAIN list}, FewerHits(all))

\* The keys of the evicted entries leave _exact, whichever version they lead to.
Dropped(all, list) ==
  {all[Arranged(all, list)[i]].key : i \in 1 .. Evicted(list)}

\* put(): eviction may take the new entry itself.
Put(k, value) ==
  LET n    == Len(objs) + 1
      all  == Append(objs, [key |-> k, value |-> value, hits |-> 0])
      list == Append(entries, n)
      gone == Dropped(all, list)
  IN
  /\ n <= MaxPuts
  /\ objs' = all
  /\ entries' = SubSeq(Arranged(all, list), Evicted(list) + 1, Len(list))
  /\ exact' = [j \in (DOMAIN exact \cup {k}) \ gone |-> IF j = k THEN n ELSE exact[j]]
  /\ last' = [last EXCEPT ![k] = n]

\* Mutant of Without: only the entry that _exact knows is removed.
WithoutExact(k) ==
  SelectSeq(entries, LAMBDA n : k \notin DOMAIN exact \/ n # exact[k])

\* The list without the entries of a key, all versions of it.
Without(k) ==
  LET kept  == {i \in DOMAIN entries : objs[entries[i]].key # k}
      order == Ranked(kept, {ij \in kept \X kept : ij[1] < ij[2]})
  IN [i \in DOMAIN order |-> entries[order[i]]]

\* Mutant of DeletePlan: _exact keeps the entry.
DeleteListed(k) == /\ entries' = Without(k)
                   /\ last' = [last EXCEPT ![k] = 0]
                   /\ UNCHANGED <<objs, exact>>

\* delete_plan(): True if _exact has the key; the list is filtered in any case.
DeletePlan(k) == /\ exact' = [j \in DOMAIN exact \ {k} |-> exact[j]]
                 /\ entries' = Without(k)
                 /\ last' = [last EXCEPT ![k] = 0]
                 /\ UNCHANGED objs
-----------------------------------------------------------------------------
\* Entries are never removed from objs, and hits are the only thing that changes.
CacheTypeOK(Values) ==
  /\ objs \in Seq([key : Key, value : Values, hits : Nat])
  /\ entries \in Seq(DOMAIN objs)
  /\ DOMAIN exact \subseteq Key /\ exact \in [DOMAIN exact -> DOMAIN objs]
  /\ last \in [Key -> DOMAIN objs \cup {0}]

\* Across puts, evictions and deletes, an exact lookup finds the value last put
\* under its key or nothing, and what it finds is in the list too.
ExactIsLatest ==
  \A k \in DOMAIN exact : exact[k] = last[k] /\ exact[k] \in Listed

\* A similar plan that is found was put after the last deletion of its
\* description, whichever versions of it there were: plan_cache_delete drops a
\* stale template for good.  An entry is in the list once.
DeletedStaysDeleted ==
  /\ \A n \in Listed : last[objs[n].key] # 0
  /\ \A i, j \in DOMAIN entries : entries[i] = entries[j] => i = j
=============================================================================
