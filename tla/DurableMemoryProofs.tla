------------------------ MODULE DurableMemoryProofs ------------------------
(***************************************************************************)
(* What shared transactions do not lose: proofs of AnswersAreDurable and   *)
(* NoPhantoms for any number of processes, coroutines, nodes, entities,    *)
(* calls, errors and crashes; and what else holds when the calls of each   *)
(* process come one after the other.                                       *)
(***************************************************************************)
EXTENDS DurableMemory, FiniteSetTheorems, WellFoundedInduction, TLAPS

\* The ids whose INSERT the tables hold, be the row still there or not.
Known(t) == DOMAIN t.nodes \cup t.dead

\* In the tables, at rest or in the open transaction: ids below m are used, each
\* once, and whatever is referred to is known or was given by a client.
Sound(t, m) ==
  /\ \A n \in Known(t) : n < m
  /\ DOMAIN t.nodes \cap t.dead = {}
  /\ \A e \in t.edges : {e[2], e[3]} \subseteq Known(t) \cup Given
  /\ \A x \in t.index : x[2] \in Known(t)

\* A transaction forgets nothing.
Grows(t, u) == Known(t) \subseteq Known(u) /\ t.dead \subseteq u.dead

\* What a call carries from statement to statement.
Carries(c) ==
  /\ c.job = "consolidate" => c.ents = {}
  /\ c.job # "consolidate" => c.rows = {}
  /\ c.parent \in Seq(Given) /\ c.links \in Seq(Given)

\* Which statements a call of each kind makes.
Shape(c) ==
  /\ c.pc \in {"insert", "previous", "entity", "peers"} => c.job = "write"
  /\ c.pc \in {"rows", "promote"} => c.job = "consolidate"
  /\ c.pc \in {"find", "cut_edges", "cut_index", "cut_node"} => c.job = "delete"
  /\ c.pc = "edge" => c.job # "delete" /\ c.todo # << >>
  /\ c.pc \in {"entity", "peers"} => c.ents # {}
  /\ c.pc = "promote" => c.rows # {}
  /\ Carries(c)

\* The ends of the edges that a call will insert.
Ends(c) == UNION {{c.todo[i][2], c.todo[i][3]} : i \in DOMAIN c.todo}

\* A call knows only what its connection sees: its node once it is inserted or
\* found, the rows that it promotes, the ends of the edges that it will insert.
Informed(c, t) ==
  /\ c.job = "write" /\ c.pc # "insert" => c.node \in Known(t)
  /\ c.job = "delete" /\ c.pc # "find" => c.node \in Known(t)
  /\ c.job = "delete" /\ c.pc = "commit" => c.node \in t.dead
  /\ c.rows \subseteq Known(t)
  /\ Ends(c) \subseteq Known(t) \cup Given

CallsAreInformed ==
  \A s \in Slots : calls[s].pc # "idle" => Shape(calls[s]) /\ Informed(calls[s], Sees(s))

IndInv == /\ TypeOK
          /\ Sound(file.disk, next) /\ Sound(file.work, next) /\ Grows(file.disk, file.work)
          /\ CallsAreInformed
          /\ written \subseteq Known(Disk) /\ deleted \subseteq Disk.dead
-----------------------------------------------------------------------------
\* What a connection sees is sound tables.
LEMMA SeesTables ==
  ASSUME IndInv, NEW s \in Slots
  PROVE  /\ Home[s] \in Procs /\ Home[s] # Nobody
         /\ IsTables(Sees(s)) /\ Sound(Sees(s), next)
         /\ Sees(s) \in {file.work, file.disk}
         /\ next \in Nat /\ next \in 1 .. MaxNodes + 1
BY HomeAssumption, BoundAssumption DEF IndInv, TypeOK, Sees, Seen

\* Replacing one table leaves the others alone.
LEMMA Replaced ==
  ASSUME NEW t, IsTables(t), NEW x
  PROVE  /\ [t EXCEPT !.nodes = x]
              = [nodes |-> x, edges |-> t.edges, index |-> t.index, dead |-> t.dead]
         /\ [t EXCEPT !.edges = x]
              = [nodes |-> t.nodes, edges |-> x, index |-> t.index, dead |-> t.dead]
         /\ [t EXCEPT !.index = x]
              = [nodes |-> t.nodes, edges |-> t.edges, index |-> x, dead |-> t.dead]
<1>1. PICK n, e, i, d : t = [nodes |-> n, edges |-> e, index |-> i, dead |-> d]
  BY DEF IsTables
<1>2. t.nodes = n /\ t.edges = e /\ t.index = i /\ t.dead = d
  BY <1>1
<1>3. [t EXCEPT !.nodes = x] = [nodes |-> x, edges |-> e, index |-> i, dead |-> d]
  BY <1>1
<1>4. [t EXCEPT !.edges = x] = [nodes |-> n, edges |-> x, index |-> i, dead |-> d]
  BY <1>1
<1>5. [t EXCEPT !.index = x] = [nodes |-> n, edges |-> e, index |-> x, dead |-> d]
  BY <1>1
<1>6. QED
  BY <1>2, <1>3, <1>4, <1>5

\* Nor does replacing two, as the deletion of a node does.
LEMMA ReplacedTwo ==
  ASSUME NEW t, IsTables(t), NEW x, NEW y, NEW u, u = [t EXCEPT !.nodes = x, !.dead = y]
  PROVE  u = [nodes |-> x, edges |-> t.edges, index |-> t.index, dead |-> y]
<1>1. PICK v : v = [t EXCEPT !.nodes = x]
  OBVIOUS
<1>2. v = [nodes |-> x, edges |-> t.edges, index |-> t.index, dead |-> t.dead]
  BY <1>1, Replaced
<1>3. u = [v EXCEPT !.dead = y]
  <2>1. PICK n, e, i, d : t = [nodes |-> n, edges |-> e, index |-> i, dead |-> d]
    BY DEF IsTables
  <2>2. QED
    BY <1>1, <2>1
<1>4. QED
  BY <1>2, <1>3

\* The known ids are numbers.
LEMMA KnownAreIds ==
  ASSUME NEW t, IsTables(t)
  PROVE  Known(t) \subseteq Ids /\ Known(t) \subseteq Nat
BY BoundAssumption DEF IsTables, Known, Ids

\* A call that is still informed when its connection sees more.
LEMMA StaysInformed ==
  ASSUME NEW c, NEW t, NEW u, Informed(c, t), Grows(t, u)
  PROVE  Informed(c, u)
BY DEF Informed, Grows

\* A slot that is not idle is in a well-formed call.
LEMMA SlotInCall ==
  ASSUME IndInv, NEW s \in Slots, calls[s].pc # "idle"
  PROVE  /\ calls[s] \in Call
         /\ Shape(calls[s]) /\ Informed(calls[s], Sees(s))
<1>1. calls[s] \in Call
  BY DEF IndInv, TypeOK, Idle
<1>2. QED
  BY <1>1 DEF IndInv, CallsAreInformed

\* A SELECT, the beginning or the end of a call: only the slot changes.
LEMMA ReadKeeps ==
  ASSUME IndInv, NEW s \in Slots, NEW c \in Call \cup {Idle},
         calls' = [calls EXCEPT ![s] = c],
         c.pc # "idle" => Shape(c) /\ Informed(c, Sees(s)),
         UNCHANGED <<file, next, written, deleted>>,
         {started', errors', crashes'} \subseteq Nat
  PROVE  IndInv'
<1>1. TypeOK'
  BY DEF IndInv, TypeOK
<1>2. /\ calls'[s] = c /\ \A r \in Slots \ {s} : calls'[r] = calls[r]
      /\ \A r \in Slots : Sees(r)' = Sees(r)
  BY DEF IndInv, TypeOK, Sees
<1>3. CallsAreInformed'
  BY <1>2 DEF IndInv, CallsAreInformed
<1>4. QED
  BY <1>1, <1>3 DEF IndInv, Disk

\* A write statement: the slot changes and its connection's transaction grows to u.
LEMMA WriteKeeps ==
  ASSUME IndInv, NEW s \in Slots, NEW c \in Call, NEW u, Execute(s, u),
         IsTables(u), Grows(Sees(s), u), Sound(u, next'),
         next' \in 1 .. MaxNodes + 1, next <= next',
         calls' = [calls EXCEPT ![s] = c], Shape(c), Informed(c, u),
         UNCHANGED <<written, deleted, counters>>
  PROVE  IndInv'
<1>1. /\ Home[s] \in Procs /\ Sees(s) = file.work
      /\ file' = [disk |-> file.disk, work |-> u, owner |-> Home[s]]
      /\ file.owner \in {Home[s], Nobody} /\ (file.owner = Nobody => file.work = file.disk)
  BY SeesTables DEF IndInv, TypeOK, IsFile, Execute, MayWrite, Written, Sees, Seen
<1>2. TypeOK'
  <2>1. file'.disk = file.disk /\ file'.work = u /\ file'.owner = Home[s]
    BY <1>1
  <2>2. IsFile(file, Procs)'
    BY <1>1, <2>1, HomeAssumption DEF IsFile
  <2>3. (IsTables(file.disk) /\ IsTables(file.work))'
    BY <2>1 DEF IndInv, TypeOK
  <2>4. calls' \in [Slots -> Call \cup {Idle}]
    BY DEF IndInv, TypeOK
  <2>5. QED
    BY <2>2, <2>3, <2>4 DEF IndInv, TypeOK, counters
<1>3. Grows(file'.disk, file'.work)
  BY <1>1 DEF IndInv, Grows
<1>4. Sound(file'.disk, next') /\ Sound(file'.work, next')
  <2>1. \A n \in Known(file.disk) : n \in Nat /\ n < next
    BY KnownAreIds DEF IndInv, Sound, TypeOK
  <2>2. next \in Nat /\ next' \in Nat
    BY SeesTables
  <2>3. \A n \in Known(file.disk) : n < next'
    BY <2>1, <2>2
  <2>4. QED
    BY <1>1, <2>3 DEF IndInv, Sound
<1>5. \A r \in Slots : Grows(Sees(r), Sees(r)')
  <2>1. ASSUME NEW r \in Slots, Home[r] = Home[s] PROVE Grows(Sees(r), Sees(r)')
    BY <1>1, <2>1 DEF Sees, Seen
  <2>2. ASSUME NEW r \in Slots, Home[r] # Home[s] PROVE Grows(Sees(r), Sees(r)')
    BY <1>1, <2>2, SeesTables DEF Sees, Seen, Grows
  <2>3. QED
    BY <2>1, <2>2
<1>6. CallsAreInformed'
  <2>1. calls'[s] = c /\ \A r \in Slots \ {s} : calls'[r] = calls[r]
    BY DEF IndInv, TypeOK
  <2>2. Sees(s)' = u
    BY <1>1 DEF Sees, Seen
  <2>3. ASSUME NEW r \in Slots \ {s}, calls'[r].pc # "idle"
        PROVE  Shape(calls'[r]) /\ Informed(calls'[r], Sees(r)')
    BY <1>5, <2>1, <2>3, StaysInformed DEF IndInv, CallsAreInformed
  <2>4. QED
    BY <2>1, <2>2, <2>3 DEF CallsAreInformed
<1>7. QED
  BY <1>1, <1>2, <1>3, <1>4, <1>6 DEF IndInv, Disk

\* Going on to the next insertion leaves everything but the statement alone.
LEMMA OnwardKeeps ==
  ASSUME NEW c \in Call, NEW t, c.job # "delete", Carries(c),
         c.job = "write" => c.node \in Known(t),
         c.rows \subseteq Known(t), Ends(c) \subseteq Known(t) \cup Given
  PROVE  /\ Onward(c) \in Call /\ Shape(Onward(c)) /\ Informed(Onward(c), t)
<1>1. PICK pc : /\ pc = IF c.todo # << >> THEN "edge"
                        ELSE IF c.ents # {} THEN "entity"
                        ELSE IF c.rows # {} THEN "promote"
                        ELSE "commit"
                /\ Onward(c) = [c EXCEPT !.pc = pc]
  BY DEF Onward
<1>2. pc \in {"edge", "entity", "promote", "commit"}
  BY <1>1
<1>3. /\ Onward(c) \in Call /\ Onward(c).pc = pc /\ Onward(c).job = c.job
      /\ Onward(c).node = c.node /\ Onward(c).ents = c.ents /\ Onward(c).rows = c.rows
      /\ Onward(c).todo = c.todo /\ Onward(c).parent = c.parent
      /\ Onward(c).links = c.links
  BY <1>1, <1>2 DEF Call, Statements
<1>4. c.job \in {"write", "consolidate"}
  BY DEF Call
<1>5. Shape(Onward(c))
  BY <1>1, <1>2, <1>3, <1>4 DEF Shape, Carries
<1>6. Informed(Onward(c), t)
  BY <1>3, <1>4 DEF Informed, Ends
<1>7. QED
  BY <1>3, <1>5, <1>6

\* The edges of a kind between a node and others, as a sequence of edges.
LEMMA PairsTyped ==
  ASSUME NEW kind \in Kinds, NEW n \in Ids, NEW others \in Seq(Ids), NEW S,
         n \in S, \A i \in DOMAIN others : others[i] \in S
  PROVE  /\ Pairs(kind, n, others) \in Seq(Edge)
         /\ \A i \in DOMAIN Pairs(kind, n, others) :
              /\ Pairs(kind, n, others)[i][2] \in S
              /\ Pairs(kind, n, others)[i][3] \in S
<1> DEFINE P == Pairs(kind, n, others)
           k == Len(others)
<1>1. k \in Nat /\ 2 * k \in Nat /\ DOMAIN others = 1 .. k
  OBVIOUS
<1>2. ASSUME NEW i \in 1 .. 2 * k
      PROVE  /\ P[i] \in Edge /\ P[i][2] \in S /\ P[i][3] \in S
  <2>1. CASE i % 2 = 1
    <3>1. (i + 1) \div 2 \in 1 .. k
      BY <1>1, <2>1
    <3>2. P[i] = <<kind, n, others[(i + 1) \div 2]>>
      BY <2>1 DEF Pairs
    <3>3. QED
      BY <1>1, <3>1, <3>2 DEF Edge
  <2>2. CASE i % 2 # 1
    <3>1. i \div 2 \in 1 .. k
      BY <1>1, <2>2
    <3>2. P[i] = <<kind, others[i \div 2], n>>
      BY <2>2 DEF Pairs
    <3>3. QED
      BY <1>1, <3>1, <3>2 DEF Edge
  <2>3. QED
    BY <2>1, <2>2
<1>3. DOMAIN P = 1 .. 2 * k
  BY DEF Pairs
<1>4. P \in [1 .. 2 * k -> Edge]
  BY <1>2 DEF Pairs
<1>5. QED
  BY <1>1, <1>2, <1>3, <1>4

LEMMA InitIndInv == Init => IndInv
<1> SUFFICES ASSUME Init PROVE IndInv
  OBVIOUS
<1>1. /\ IsTables(NoTables) /\ Known(NoTables) = {} /\ NoTables.dead = {}
      /\ NoTables.edges = {} /\ NoTables.index = {} /\ DOMAIN NoTables.nodes = {}
  BY DEF NoTables, IsTables, Known
<1>2. IsFile(file, Procs) /\ file.disk = NoTables /\ file.work = NoTables
  BY DEF Init, NewFile, IsFile
<1>3. TypeOK
  BY <1>1, <1>2, BoundAssumption DEF Init, TypeOK, Idle
<1>4. QED
  BY <1>1, <1>2, <1>3 DEF Init, IndInv, Sound, Grows, CallsAreInformed, Idle, Disk

-----------------------------------------------------------------------------
\* The ends of all edges of a sequence are in S.
EndsIn(q, S) == \A i \in DOMAIN q : q[i][2] \in S /\ q[i][3] \in S

LEMMA ConcatEnds ==
  ASSUME NEW p \in Seq(Edge), NEW q \in Seq(Edge), NEW S, EndsIn(p, S), EndsIn(q, S)
  PROVE  p \o q \in Seq(Edge) /\ EndsIn(p \o q, S)
BY DEF EndsIn

LEMMA TailEnds ==
  ASSUME NEW q \in Seq(Edge), NEW S, EndsIn(q, S), q # << >>
  PROVE  /\ Tail(q) \in Seq(Edge) /\ EndsIn(Tail(q), S)
         /\ Head(q) \in Edge /\ Head(q)[2] \in S /\ Head(q)[3] \in S
<1>1. Len(q) \in Nat /\ Len(q) > 0
  OBVIOUS
<1>2. Head(q) = q[1] /\ 1 \in DOMAIN q
  BY <1>1
<1>3. \A i \in DOMAIN Tail(q) : Tail(q)[i] = q[i + 1] /\ i + 1 \in DOMAIN q
  BY <1>1
<1>4. QED
  BY <1>2, <1>3 DEF EndsIn

\* EndsIn is what Informed says of the edges to be inserted.
LEMMA EndsAreEnds ==
  ASSUME NEW c, NEW S
  PROVE  EndsIn(c.todo, S) <=> Ends(c) \subseteq S
BY DEF EndsIn, Ends

\* A non-empty set of ids has a least one.
LEMMA LeastId ==
  ASSUME NEW S, S \subseteq Nat, S # {}
  PROVE  \E r \in S : \A q \in S : r <= q
<1> DEFINE Before == {x \in Nat \X Nat : x[1] < x[2]}
<1>1. IsWellFoundedOn(Before, Nat)
  BY NatLessThanWellFounded, Zenon DEF OpToRel
<1>2. \E r \in S : \A q \in S : <<q, r>> \notin Before
  BY <1>1, WFMin
<1>3. PICK r \in S : \A q \in S : <<q, r>> \notin Before
  BY <1>2
<1>4. ASSUME NEW q \in S PROVE r <= q
  <2>1. r \in Nat /\ q \in Nat /\ <<q, r>> \notin Before
    BY <1>3
  <2>2. ~ (q < r)
    BY <2>1
  <2>3. QED
    BY <2>1, <2>2
<1>5. QED
  BY <1>4
-----------------------------------------------------------------------------

\* A client's list of at most one id.
LEMMA ListsOfGiven ==
  ASSUME NEW q \in AtMostOne
  PROVE  q \in Seq(Given) /\ q \in Seq(Ids)
<1>1. CASE q = << >>
  BY <1>1
<1>2. ASSUME NEW g \in Given, q = <<g>> PROVE q \in Seq(Given) /\ q \in Seq(Ids)
  <2>1. g \in Ids
    BY GivenAssumption DEF Ids
  <2>2. QED
    BY <1>2, <2>1
<1>3. QED
  BY <1>1, <1>2 DEF AtMostOne

\* Whatever it asks for, a new call knows nothing and has to insert nothing yet.
LEMMA BeginKeeps ==
  ASSUME IndInv, NEW s \in Slots, Begin(s), NEW n \in Ids \cup {0}, NEW node \in Node,
         NEW parent \in AtMostOne, NEW links \in AtMostOne, NEW ents \in SUBSET Entities,
         NEW pc, NEW job,
         \/ pc = "insert" /\ job = "write"
         \/ pc = "rows" /\ job = "consolidate" /\ ents = {}
         \/ pc = "find" /\ job = "delete",
         Proceed(s, NewCall(pc, job, n, node, parent, links, ents))
  PROVE  IndInv'
<1>1. PICK c : c = NewCall(pc, job, n, node, parent, links, ents)
  OBVIOUS
<1>2. /\ c.pc = pc /\ c.job = job /\ c.parent = parent /\ c.links = links
      /\ c.ents = ents /\ c.rows = {} /\ c.todo = << >>
  BY <1>1 DEF NewCall
<1>3. c \in Call
  BY <1>1, ListsOfGiven DEF NewCall, Call, Statements
<1>4. Shape(c)
  BY <1>2, ListsOfGiven DEF Shape, Carries
<1>5. Informed(c, Sees(s))
  BY <1>2 DEF Informed, Ends
<1>6. {started', errors', crashes'} \subseteq Nat
  BY DEF Begin, IndInv, TypeOK
<1>7. QED
  BY <1>1, <1>3, <1>4, <1>5, <1>6, ReadKeeps DEF Begin, Proceed

LEMMA BeginWriteKeeps ==
  ASSUME IndInv, NEW s \in Slots, BeginWrite(s)
  PROVE  IndInv'
<1>1. PICK level \in Levels, high \in BOOLEAN, parent \in AtMostOne, links \in AtMostOne,
           ents \in SUBSET Entities :
        Proceed(s, NewCall("insert", "write", 0, NodeOf(level, high, FALSE),
                           parent, links, ents))
  BY DEF BeginWrite
<1>2. NodeOf(level, high, FALSE) \in Node
  BY DEF NodeOf, Node
<1>3. Begin(s) /\ 0 \in Ids \cup {0}
  BY DEF BeginWrite
<1>4. QED
  BY <1>1, <1>2, <1>3, BeginKeeps

LEMMA BeginConsolidateKeeps ==
  ASSUME IndInv, NEW s \in Slots, BeginConsolidate(s)
  PROVE  IndInv'
<1>1. PICK level \in Levels :
        Proceed(s, NewCall("rows", "consolidate", 0, NodeOf(level, TRUE, TRUE),
                           << >>, << >>, {}))
  BY DEF BeginConsolidate
<1>2. NodeOf(level, TRUE, TRUE) \in Node /\ << >> \in AtMostOne
  BY DEF NodeOf, Node, AtMostOne
<1>3. Begin(s)
  BY DEF BeginConsolidate
<1>4. QED
  BY <1>1, <1>2, <1>3, BeginKeeps

LEMMA BeginDeleteKeeps ==
  ASSUME IndInv, NEW s \in Slots, BeginDelete(s)
  PROVE  IndInv'
<1>1. PICK n \in 1 .. (next - 1) :
        Proceed(s, NewCall("find", "delete", n, NodeOf(Semantic, TRUE, FALSE),
                           << >>, << >>, {}))
  BY DEF BeginDelete
<1>2. NodeOf(Semantic, TRUE, FALSE) \in Node /\ << >> \in AtMostOne
  BY LevelAssumption DEF NodeOf, Node, AtMostOne
<1>3. n \in Ids
  BY SeesTables, BoundAssumption DEF Ids
<1>4. Begin(s)
  BY DEF BeginDelete
<1>5. QED
  BY <1>1, <1>2, <1>3, <1>4, BeginKeeps
-----------------------------------------------------------------------------
\* Tables that get one more node.
LEMMA NodeAdded ==
  ASSUME NEW t, IsTables(t), NEW m \in Ids, Sound(t, m), NEW node \in Node, NEW u,
         u = [t EXCEPT !.nodes = [n \in DOMAIN @ \cup {m} |-> IF n = m THEN node ELSE @[n]]]
  PROVE  /\ IsTables(u) /\ Sound(u, m + 1) /\ Grows(t, u) /\ m \in Known(u)
         /\ m + 1 \in 1 .. MaxNodes + 1
<1> DEFINE f == [n \in DOMAIN t.nodes \cup {m} |-> IF n = m THEN node ELSE t.nodes[n]]
<1>1. u = [nodes |-> f, edges |-> t.edges, index |-> t.index, dead |-> t.dead]
  BY Replaced
<1>2. DOMAIN f = DOMAIN t.nodes \cup {m} /\ f \in [DOMAIN f -> Node]
  BY DEF IsTables
<1>3. /\ u.nodes = f /\ u.edges = t.edges /\ u.index = t.index /\ u.dead = t.dead
      /\ u = [nodes |-> u.nodes, edges |-> u.edges, index |-> u.index, dead |-> u.dead]
  BY <1>1
<1> HIDE DEF f
<1>4. IsTables(u)
  BY <1>2, <1>3 DEF IsTables
<1>5. Known(u) = Known(t) \cup {m}
  BY <1>2, <1>3 DEF Known
<1>6. m \in Nat /\ m + 1 \in 1 .. MaxNodes + 1
  BY BoundAssumption DEF Ids
<1>7. \A n \in Known(t) : n \in Nat /\ n < m
  BY KnownAreIds DEF Sound
<1>8. m \notin t.dead
  BY <1>6, <1>7 DEF Known
<1>9. ASSUME NEW n \in Known(u) PROVE n < m + 1
  <2>1. CASE n = m
    BY <1>6, <2>1
  <2>2. CASE n \in Known(t)
    BY <1>6, <1>7, <2>2
  <2>3. QED
    BY <1>5, <2>1, <2>2
<1>10. DOMAIN u.nodes \cap u.dead = {}
  BY <1>2, <1>3, <1>8 DEF Sound
<1>11. Sound(u, m + 1)
  <2>1. ASSUME NEW e \in u.edges PROVE {e[2], e[3]} \subseteq Known(u) \cup Given
    <3>1. {e[2], e[3]} \subseteq Known(t) \cup Given
      BY <1>3 DEF Sound
    <3>2. QED
      BY <1>5, <3>1
  <2>2. \A x \in u.index : x[2] \in Known(u)
    BY <1>3, <1>5 DEF Sound
  <2>3. QED
    BY <1>9, <1>10, <2>1, <2>2 DEF Sound
<1>12. QED
  BY <1>3, <1>4, <1>5, <1>6, <1>11 DEF Grows

LEMMA InsertKeeps ==
  ASSUME IndInv, NEW s \in Slots, Insert(s)
  PROVE  IndInv'
<1>1. PICK c : /\ c = calls[s] /\ c \in Call /\ Shape(c) /\ Informed(c, Sees(s))
               /\ c.pc = "insert" /\ c.job = "write"
  BY SlotInCall DEF Insert, Shape
<1>2. PICK u : /\ u = [Sees(s) EXCEPT !.nodes =
                        [n \in DOMAIN @ \cup {next} |-> IF n = next THEN c.new ELSE @[n]]]
               /\ Execute(s, u)
  BY <1>1 DEF Insert
<1>3. next \in Ids /\ next' = next + 1
  BY DEF Insert
<1>4. c.new \in Node
  BY <1>1 DEF Call
<1>5. /\ IsTables(u) /\ Sound(u, next') /\ Grows(Sees(s), u) /\ next \in Known(u)
      /\ next' \in 1 .. MaxNodes + 1
  BY <1>2, <1>3, <1>4, SeesTables, NodeAdded
<1>6. PICK d : d = [c EXCEPT !.pc = "previous", !.node = next]
  OBVIOUS
<1>7. /\ d \in Call /\ d.pc = "previous" /\ d.node = next /\ d.job = c.job
      /\ d.ents = c.ents /\ d.rows = c.rows /\ d.todo = c.todo
      /\ d.parent = c.parent /\ d.links = c.links
  BY <1>1, <1>3, <1>6 DEF Call, Statements
<1>8. Shape(d)
  BY <1>1, <1>7 DEF Shape, Carries
<1>9. Informed(d, u)
  BY <1>1, <1>5, <1>7, KnownAreIds DEF Informed, Ends, Grows
<1>10. calls' = [calls EXCEPT ![s] = d]
  BY <1>1, <1>6 DEF Insert, Proceed
<1>11. next <= next'
  BY <1>3, SeesTables
<1>12. QED
  BY <1>2, <1>5, <1>7, <1>8, <1>9, <1>10, <1>11, WriteKeeps DEF Insert

\* A list of given ids, or of known ones, makes edges whose ends the call may use.
LEMMA PairsEnds ==
  ASSUME NEW t, NEW kind \in Kinds, NEW n \in Known(t), n \in Ids,
         NEW q \in Seq(Ids), \A i \in DOMAIN q : q[i] \in Known(t) \cup Given
  PROVE  /\ Pairs(kind, n, q) \in Seq(Edge)
         /\ EndsIn(Pairs(kind, n, q), Known(t) \cup Given)
BY PairsTyped DEF EndsIn

LEMMA PreviousKeeps ==
  ASSUME IndInv, NEW s \in Slots, Previous(s)
  PROVE  IndInv'
<1> DEFINE t == Sees(s)
           S == Known(t) \cup Given
<1>1. PICK c : /\ c = calls[s] /\ c \in Call /\ Shape(c) /\ Informed(c, t)
               /\ c.pc = "previous" /\ c.job = "write"
  BY SlotInCall DEF Previous, Shape
<1>2. PICK p : /\ p = << >> \/ \E n \in Candidates(s) : p = <<n>>
               /\ Proceed(s, Onward([c EXCEPT !.todo = Pairs("temporal", c.node, p)
                                                       \o Pairs("causal", c.node, c.parent)
                                                       \o Pairs("semantic", c.node, c.links)]))
  BY <1>1 DEF Previous
<1>3. c.node \in Known(t) /\ c.node \in Ids
  BY <1>1, SeesTables, KnownAreIds DEF Informed
<1>4. p \in Seq(Ids) /\ \A i \in DOMAIN p : p[i] \in S
  <2>1. CASE p = << >>
    BY <2>1
  <2>2. ASSUME NEW n \in Candidates(s), p = <<n>> PROVE p \in Seq(Ids) /\ \A i \in DOMAIN p : p[i] \in S
    <3>1. n \in Known(t) /\ n \in Ids
      BY SeesTables, KnownAreIds DEF Candidates, Known
    <3>2. QED
      BY <2>2, <3>1
  <2>3. QED
    BY <1>2, <2>1, <2>2
<1>5. ASSUME NEW q \in Seq(Given)
      PROVE  q \in Seq(Ids) /\ \A i \in DOMAIN q : q[i] \in S
  <2>1. \A i \in 1 .. Len(q) : q[i] \in Given
    OBVIOUS
  <2>2. Given \subseteq Ids
    BY GivenAssumption DEF Ids
  <2>3. QED
    BY <2>1, <2>2
<1>6. c.parent \in Seq(Given) /\ c.links \in Seq(Given) /\ Carries(c)
  BY <1>1 DEF Shape, Carries
<1>7. PICK q : q = Pairs("temporal", c.node, p) \o Pairs("causal", c.node, c.parent)
                   \o Pairs("semantic", c.node, c.links)
  OBVIOUS
<1>8. q \in Seq(Edge) /\ EndsIn(q, S)
  <2>1. {"temporal", "causal", "semantic"} \subseteq Kinds
    BY DEF Kinds
  <2>2. /\ Pairs("temporal", c.node, p) \in Seq(Edge)
        /\ EndsIn(Pairs("temporal", c.node, p), S)
    BY <1>3, <1>4, <2>1, PairsEnds
  <2>3. /\ Pairs("causal", c.node, c.parent) \in Seq(Edge)
        /\ EndsIn(Pairs("causal", c.node, c.parent), S)
    BY <1>3, <1>5, <1>6, <2>1, PairsEnds
  <2>4. /\ Pairs("semantic", c.node, c.links) \in Seq(Edge)
        /\ EndsIn(Pairs("semantic", c.node, c.links), S)
    BY <1>3, <1>5, <1>6, <2>1, PairsEnds
  <2> HIDE DEF S
  <2>5. QED
    BY <1>7, <2>2, <2>3, <2>4, ConcatEnds
<1>9. PICK d : d = [c EXCEPT !.todo = q]
  OBVIOUS
<1>10. /\ d \in Call /\ d.todo = q /\ d.job = c.job /\ d.node = c.node /\ d.rows = c.rows
       /\ d.ents = c.ents /\ d.parent = c.parent /\ d.links = c.links
  BY <1>1, <1>8, <1>9 DEF Call
<1>11. Carries(d) /\ d.rows \subseteq Known(t) /\ Ends(d) \subseteq S
  BY <1>1, <1>6, <1>8, <1>10, EndsAreEnds DEF Carries, Informed
<1>12. Onward(d) \in Call /\ Shape(Onward(d)) /\ Informed(Onward(d), t)
  BY <1>1, <1>3, <1>10, <1>11, OnwardKeeps
<1>13. calls' = [calls EXCEPT ![s] = Onward(d)]
  BY <1>2, <1>7, <1>9 DEF Proceed
<1>14. {started', errors', crashes'} \subseteq Nat
  BY DEF Previous, counters, IndInv, TypeOK
<1>15. QED
  BY <1>12, <1>13, <1>14, ReadKeeps DEF Previous

\* Tables that get one more edge or one more row of the index.
LEMMA EdgeAdded ==
  ASSUME NEW t, IsTables(t), NEW m, Sound(t, m), NEW e \in Edge,
         {e[2], e[3]} \subseteq Known(t) \cup Given,
         NEW u, u = [t EXCEPT !.edges = @ \cup {e}]
  PROVE  IsTables(u) /\ Sound(u, m) /\ Grows(t, u) /\ Known(u) = Known(t)
<1>1. u = [nodes |-> t.nodes, edges |-> t.edges \cup {e}, index |-> t.index, dead |-> t.dead]
  BY Replaced
<1>2. /\ u.nodes = t.nodes /\ u.edges = t.edges \cup {e} /\ u.index = t.index /\ u.dead = t.dead
      /\ u = [nodes |-> u.nodes, edges |-> u.edges, index |-> u.index, dead |-> u.dead]
  BY <1>1
<1>3. Known(u) = Known(t)
  BY <1>2 DEF Known
<1>4. IsTables(u)
  BY <1>2 DEF IsTables
<1>5. Sound(u, m)
  <2>1. ASSUME NEW d \in u.edges PROVE {d[2], d[3]} \subseteq Known(u) \cup Given
    <3>1. CASE d = e
      BY <1>3, <3>1
    <3>2. CASE d \in t.edges
      BY <1>3, <3>2 DEF Sound
    <3>3. QED
      BY <1>2, <2>1, <3>1, <3>2
  <2>2. \A x \in u.index : x[2] \in Known(u)
    BY <1>2, <1>3 DEF Sound
  <2>3. (\A n \in Known(u) : n < m) /\ DOMAIN u.nodes \cap u.dead = {}
    BY <1>2, <1>3 DEF Sound
  <2>4. QED
    BY <2>1, <2>2, <2>3 DEF Sound
<1>6. QED
  BY <1>2, <1>3, <1>4, <1>5 DEF Grows

LEMMA IndexAdded ==
  ASSUME NEW t, IsTables(t), NEW m, Sound(t, m), NEW x \in Entities \X Ids,
         x[2] \in Known(t), NEW u, u = [t EXCEPT !.index = @ \cup {x}]
  PROVE  IsTables(u) /\ Sound(u, m) /\ Grows(t, u) /\ Known(u) = Known(t)
<1>1. u = [nodes |-> t.nodes, edges |-> t.edges, index |-> t.index \cup {x}, dead |-> t.dead]
  BY Replaced
<1>2. /\ u.nodes = t.nodes /\ u.edges = t.edges /\ u.index = t.index \cup {x} /\ u.dead = t.dead
      /\ u = [nodes |-> u.nodes, edges |-> u.edges, index |-> u.index, dead |-> u.dead]
  BY <1>1
<1>3. Known(u) = Known(t)
  BY <1>2 DEF Known
<1>4. IsTables(u)
  BY <1>2 DEF IsTables
<1>5. Sound(u, m)
  BY <1>2, <1>3 DEF Sound
<1>6. QED
  BY <1>2, <1>3, <1>4, <1>5 DEF Grows

LEMMA InsertEdgeKeeps ==
  ASSUME IndInv, NEW s \in Slots, InsertEdge(s)
  PROVE  IndInv'
<1> DEFINE t == Sees(s)
           S == Known(t) \cup Given
<1>1. PICK c : /\ c = calls[s] /\ c \in Call /\ Shape(c) /\ Informed(c, t)
               /\ c.pc = "edge" /\ c.job # "delete" /\ c.todo # << >>
  BY SlotInCall DEF InsertEdge, Shape
<1>2. PICK u : u = [t EXCEPT !.edges = @ \cup {Head(c.todo)}] /\ Execute(s, u)
  BY <1>1 DEF InsertEdge
<1>3. c.todo \in Seq(Edge) /\ EndsIn(c.todo, S)
  BY <1>1, EndsAreEnds DEF Call, Informed
<1>4. /\ Tail(c.todo) \in Seq(Edge) /\ EndsIn(Tail(c.todo), S)
      /\ Head(c.todo) \in Edge /\ {Head(c.todo)[2], Head(c.todo)[3]} \subseteq S
  <2> HIDE DEF S
  <2>1. QED
    BY <1>1, <1>3, TailEnds
<1>5. IsTables(u) /\ Sound(u, next) /\ Grows(t, u) /\ Known(u) = Known(t)
  BY <1>2, <1>4, SeesTables, EdgeAdded
<1>6. PICK d : d = [c EXCEPT !.todo = Tail(c.todo)]
  OBVIOUS
<1>7. /\ d \in Call /\ d.todo = Tail(c.todo) /\ d.job = c.job /\ d.node = c.node
      /\ d.rows = c.rows /\ d.ents = c.ents /\ d.parent = c.parent /\ d.links = c.links
  BY <1>1, <1>4, <1>6 DEF Call
<1>8. Carries(d)
  BY <1>1, <1>7 DEF Shape, Carries
<1>9. /\ d.job = "write" => d.node \in Known(u)
      /\ d.rows \subseteq Known(u) /\ Ends(d) \subseteq Known(u) \cup Given
  BY <1>1, <1>4, <1>5, <1>7, EndsAreEnds DEF Informed
<1>10. Onward(d) \in Call /\ Shape(Onward(d)) /\ Informed(Onward(d), u)
  BY <1>1, <1>7, <1>8, <1>9, OnwardKeeps
<1>11. calls' = [calls EXCEPT ![s] = Onward(d)]
  BY <1>1, <1>6 DEF InsertEdge, Proceed
<1>12. next' = next /\ next' \in 1 .. MaxNodes + 1 /\ next <= next'
  BY SeesTables DEF InsertEdge
<1>13. QED
  BY <1>2, <1>5, <1>10, <1>11, <1>12, WriteKeeps DEF InsertEdge

LEMMA InsertEntityKeeps ==
  ASSUME IndInv, NEW s \in Slots, InsertEntity(s)
  PROVE  IndInv'
<1>1. PICK c : /\ c = calls[s] /\ c \in Call /\ Shape(c) /\ Informed(c, Sees(s))
               /\ c.pc = "entity" /\ c.job = "write" /\ c.ents # {}
  BY SlotInCall DEF InsertEntity, Shape
<1>2. PICK x : x = <<NextEntity(c), c.node>>
  OBVIOUS
<1>3. PICK u : u = [Sees(s) EXCEPT !.index = @ \cup {x}] /\ Execute(s, u)
  BY <1>1, <1>2 DEF InsertEntity
<1>4. c.node \in Known(Sees(s)) /\ c.node \in Ids
  BY <1>1, SeesTables, KnownAreIds DEF Informed
<1>5. NextEntity(c) \in Entities
  BY <1>1 DEF NextEntity, Call
<1>6. IsTables(u) /\ Sound(u, next) /\ Grows(Sees(s), u) /\ Known(u) = Known(Sees(s))
  BY <1>2, <1>3, <1>4, <1>5, SeesTables, IndexAdded
<1>7. PICK d : d = [c EXCEPT !.pc = "peers"]
  OBVIOUS
<1>8. /\ d \in Call /\ d.pc = "peers" /\ d.todo = c.todo /\ d.job = c.job /\ d.node = c.node
      /\ d.rows = c.rows /\ d.ents = c.ents /\ d.parent = c.parent /\ d.links = c.links
  BY <1>1, <1>7 DEF Call, Statements
<1>9. Shape(d)
  BY <1>1, <1>8 DEF Shape, Carries
<1>10. Informed(d, u)
  BY <1>1, <1>4, <1>6, <1>8 DEF Informed, Ends
<1>11. calls' = [calls EXCEPT ![s] = d]
  BY <1>1, <1>7 DEF InsertEntity, Proceed
<1>12. next' = next /\ next' \in 1 .. MaxNodes + 1 /\ next <= next'
  BY SeesTables DEF InsertEntity
<1>13. QED
  BY <1>3, <1>6, <1>8, <1>9, <1>10, <1>11, <1>12, WriteKeeps DEF InsertEntity

\* A listing of ids is a sequence.
LEMMA ListingsTyped ==
  ASSUME NEW set \in SUBSET Ids, NEW q \in Listings(set)
  PROVE  q \in Seq(Ids) /\ \A i \in DOMAIN q : q[i] \in set
<1> DEFINE size == IF Cardinality(set) < EntityCap THEN Cardinality(set) ELSE EntityCap
<1>1. IsFiniteSet(Ids)
  BY BoundAssumption, FS_Interval DEF Ids
<1>2. Cardinality(set) \in Nat
  BY <1>1, FS_Subset, FS_CardinalityType
<1>3. size \in Nat
  BY <1>2, BoundAssumption
<1>4. q \in [1 .. size -> set]
  BY DEF Listings
<1> HIDE DEF size
<1>5. QED
  BY <1>3, <1>4

LEMMA PeersKeeps ==
  ASSUME IndInv, NEW s \in Slots, Peers(s)
  PROVE  IndInv'
<1> DEFINE t == Sees(s)
           S == Known(t) \cup Given
<1>1. PICK c : /\ c = calls[s] /\ c \in Call /\ Shape(c) /\ Informed(c, t)
               /\ c.pc = "peers" /\ c.job = "write"
  BY SlotInCall DEF Peers, Shape
<1>2. PICK e : \E p \in Listings(OthersOf(s, e)) :
        Proceed(s, Onward([c EXCEPT !.ents = @ \ {e}, !.todo = Pairs("entity", c.node, p)]))
  BY <1>1 DEF Peers
<1>3. PICK p \in Listings(OthersOf(s, e)) :
        Proceed(s, Onward([c EXCEPT !.ents = @ \ {e}, !.todo = Pairs("entity", c.node, p)]))
  BY <1>2
<1>4. c.node \in Known(t) /\ c.node \in Ids
  BY <1>1, SeesTables, KnownAreIds DEF Informed
<1>5. OthersOf(s, e) \subseteq Ids /\ OthersOf(s, e) \subseteq Known(t)
  BY SeesTables DEF OthersOf, Sound
<1>6. p \in Seq(Ids) /\ \A i \in DOMAIN p : p[i] \in Known(t)
  BY <1>5, ListingsTyped
<1>7. PICK q : q = Pairs("entity", c.node, p)
  OBVIOUS
<1>8. q \in Seq(Edge) /\ EndsIn(q, S)
  BY <1>4, <1>6, <1>7, PairsEnds DEF Kinds
<1>9. PICK d : d = [c EXCEPT !.ents = @ \ {e}, !.todo = q]
  OBVIOUS
<1>10. /\ d \in Call /\ d.todo = q /\ d.job = c.job /\ d.node = c.node /\ d.rows = c.rows
      /\ d.ents = c.ents \ {e} /\ d.parent = c.parent /\ d.links = c.links
  BY <1>1, <1>8, <1>9 DEF Call
<1>11. Carries(d)
  BY <1>1, <1>10 DEF Shape, Carries
<1>12. d.rows \subseteq Known(t) /\ Ends(d) \subseteq S
  BY <1>1, <1>8, <1>10, EndsAreEnds DEF Informed
<1>13. Onward(d) \in Call /\ Shape(Onward(d)) /\ Informed(Onward(d), t)
  BY <1>1, <1>4, <1>10, <1>11, <1>12, OnwardKeeps
<1>14. calls' = [calls EXCEPT ![s] = Onward(d)]
  BY <1>3, <1>7, <1>9 DEF Proceed
<1>15. {started', errors', crashes'} \subseteq Nat
  BY DEF Peers, counters, IndInv, TypeOK
<1>16. QED
  BY <1>13, <1>14, <1>15, ReadKeeps DEF Peers

LEMMA RowsKeeps ==
  ASSUME IndInv, NEW s \in Slots, Rows(s)
  PROVE  IndInv'
<1> DEFINE t == Sees(s)
<1>1. PICK c : /\ c = calls[s] /\ c \in Call /\ Shape(c) /\ Informed(c, t)
               /\ c.pc = "rows" /\ c.job = "consolidate"
  BY SlotInCall DEF Rows, Shape
<1>2. PICK rows : /\ rows \subseteq DOMAIN t.nodes
                  /\ Proceed(s, Onward([c EXCEPT !.rows = rows]))
  BY <1>1 DEF Rows
<1>3. rows \subseteq Known(t) /\ rows \subseteq Ids
  BY <1>2, SeesTables, KnownAreIds DEF Known
<1>4. PICK d : d = [c EXCEPT !.rows = rows]
  OBVIOUS
<1>5. /\ d \in Call /\ d.todo = c.todo /\ d.job = c.job /\ d.node = c.node /\ d.rows = rows
      /\ d.ents = c.ents /\ d.parent = c.parent /\ d.links = c.links
  BY <1>1, <1>3, <1>4 DEF Call
<1>6. Carries(d)
  BY <1>1, <1>5 DEF Shape, Carries
<1>7. Ends(d) \subseteq Known(t) \cup Given
  BY <1>1, <1>5 DEF Ends, Informed
<1>8. Onward(d) \in Call /\ Shape(Onward(d)) /\ Informed(Onward(d), t)
  BY <1>1, <1>3, <1>5, <1>6, <1>7, OnwardKeeps
<1>9. calls' = [calls EXCEPT ![s] = Onward(d)]
  BY <1>2, <1>4 DEF Proceed
<1>10. {started', errors', crashes'} \subseteq Nat
  BY DEF Rows, counters, IndInv, TypeOK
<1>11. QED
  BY <1>8, <1>9, <1>10, ReadKeeps DEF Rows

LEMMA PromoteKeeps ==
  ASSUME IndInv, NEW s \in Slots, Promote(s)
  PROVE  IndInv'
<1> DEFINE t == Sees(s)
<1>1. PICK c : /\ c = calls[s] /\ c \in Call /\ Shape(c) /\ Informed(c, t)
               /\ c.pc = "promote" /\ c.job = "consolidate" /\ c.rows # {}
  BY SlotInCall DEF Promote, Shape
<1>2. PICK r : r = CHOOSE x \in c.rows : \A q \in c.rows : x <= q
  OBVIOUS
<1>3. r \in c.rows /\ c.rows \subseteq Known(t) /\ c.rows \subseteq Ids
  <2>1. c.rows \subseteq Known(t) /\ c.rows \subseteq Nat /\ c.rows \subseteq Ids
    BY <1>1, SeesTables, KnownAreIds DEF Informed
  <2>2. \E q \in c.rows : \A x \in c.rows : q <= x
    BY <1>1, <2>1, LeastId
  <2>3. QED
    BY <1>2, <2>1, <2>2
<1>4. PICK node : node = NodeOf(Semantic, TRUE, TRUE)
  OBVIOUS
<1>5. node \in Node
  BY <1>4, LevelAssumption DEF NodeOf, Node
<1>6. PICK u : /\ u = [t EXCEPT !.nodes =
                        [n \in DOMAIN @ \cup {next} |-> IF n = next THEN node ELSE @[n]]]
               /\ Execute(s, u)
  BY <1>1, <1>4 DEF Promote
<1>7. next \in Ids /\ next' = next + 1
  BY DEF Promote
<1>8. /\ IsTables(u) /\ Sound(u, next') /\ Grows(t, u) /\ next \in Known(u)
      /\ next' \in 1 .. MaxNodes + 1
  BY <1>5, <1>6, <1>7, SeesTables, NodeAdded
<1>9. PICK q : q = <<<<"semantic", next, r>>, <<"causal", next, r>>>>
  OBVIOUS
<1>10. q \in Seq(Edge) /\ EndsIn(q, Known(u) \cup Given)
  <2>1. r \in Ids /\ r \in Known(u)
    BY <1>3, <1>8 DEF Grows
  <2>2. <<"semantic", next, r>> \in Edge /\ <<"causal", next, r>> \in Edge
    BY <1>7, <2>1 DEF Edge, Kinds
  <2>3. DOMAIN q = 1 .. 2
    BY <1>9
  <2>4. ASSUME NEW i \in DOMAIN q PROVE q[i][2] = next /\ q[i][3] = r
    <3>1. i = 1 \/ i = 2
      BY <2>3
    <3>2. QED
      BY <1>9, <3>1
  <2>5. QED
    BY <1>8, <1>9, <2>1, <2>2, <2>4 DEF EndsIn
<1>11. PICK d : d = [c EXCEPT !.node = next, !.rows = @ \ {r}, !.todo = q]
  OBVIOUS
<1>12. /\ d \in Call /\ d.todo = q /\ d.job = c.job /\ d.node = next /\ d.rows = c.rows \ {r}
       /\ d.ents = c.ents /\ d.parent = c.parent /\ d.links = c.links
  BY <1>1, <1>7, <1>10, <1>11 DEF Call
<1>13. Carries(d)
  BY <1>1, <1>12 DEF Shape, Carries
<1>14. d.rows \subseteq Known(u) /\ Ends(d) \subseteq Known(u) \cup Given
  BY <1>3, <1>8, <1>10, <1>12, EndsAreEnds DEF Grows
<1>15. Onward(d) \in Call /\ Shape(Onward(d)) /\ Informed(Onward(d), u)
  BY <1>1, <1>8, <1>12, <1>13, <1>14, OnwardKeeps
<1>16. calls' = [calls EXCEPT ![s] = Onward(d)]
  BY <1>1, <1>2, <1>9, <1>11 DEF Promote, Proceed
<1>17. next <= next'
  BY <1>7, SeesTables
<1>18. QED
  BY <1>6, <1>8, <1>15, <1>16, <1>17, WriteKeeps DEF Promote
-----------------------------------------------------------------------------
\* delete() goes on with the same node.
LEMMA DeleteGoesOn ==
  ASSUME NEW c \in Call, Shape(c), c.job = "delete", NEW t, NEW u, Informed(c, t),
         Known(u) = Known(t), c.node \in Known(u),
         NEW pc \in {"cut_edges", "cut_index", "cut_node", "commit"},
         pc = "commit" => c.node \in u.dead,
         NEW d, d = [c EXCEPT !.pc = pc]
  PROVE  d \in Call /\ Shape(d) /\ Informed(d, u)
<1>1. /\ d \in Call /\ d.pc = pc /\ d.todo = c.todo /\ d.job = c.job /\ d.node = c.node
      /\ d.rows = c.rows /\ d.ents = c.ents /\ d.parent = c.parent /\ d.links = c.links
  BY DEF Call, Statements
<1>2. Shape(d)
  BY <1>1 DEF Shape, Carries
<1>3. Informed(d, u)
  BY <1>1 DEF Informed, Ends
<1>4. QED
  BY <1>1, <1>2, <1>3

LEMMA FindKeeps ==
  ASSUME IndInv, NEW s \in Slots, Find(s)
  PROVE  IndInv'
<1>1. PICK c : /\ c = calls[s] /\ c \in Call /\ Shape(c) /\ Informed(c, Sees(s))
               /\ c.pc = "find" /\ c.job = "delete"
  BY SlotInCall DEF Find, Shape
<1>2. UNCHANGED <<file, next, written, deleted>> /\ {started', errors', crashes'} \subseteq Nat
  BY DEF Find, counters, IndInv, TypeOK
<1>3. CASE c.node \in DOMAIN Sees(s).nodes
  <2>1. PICK d : d = [c EXCEPT !.pc = "cut_edges"]
    OBVIOUS
  <2>2. c.node \in Known(Sees(s))
    BY <1>3 DEF Known
  <2>3. d \in Call /\ Shape(d) /\ Informed(d, Sees(s))
    BY <1>1, <2>1, <2>2, DeleteGoesOn
  <2>4. calls' = [calls EXCEPT ![s] = d]
    BY <1>1, <1>3, <2>1 DEF Find, Proceed
  <2>5. QED
    BY <1>2, <2>3, <2>4, ReadKeeps
<1>4. CASE c.node \notin DOMAIN Sees(s).nodes
  <2>1. calls' = [calls EXCEPT ![s] = Idle] /\ Idle.pc = "idle"
    BY <1>1, <1>4 DEF Find, Proceed, Idle
  <2>2. QED
    BY <1>2, <2>1, ReadKeeps
<1>5. QED
  BY <1>3, <1>4

LEMMA CutEdgesKeeps ==
  ASSUME IndInv, NEW s \in Slots, CutEdges(s)
  PROVE  IndInv'
<1> DEFINE t == Sees(s)
<1>1. PICK c : /\ c = calls[s] /\ c \in Call /\ Shape(c) /\ Informed(c, t)
               /\ c.pc = "cut_edges" /\ c.job = "delete"
  BY SlotInCall DEF CutEdges, Shape
<1>2. PICK left : left \subseteq t.edges /\ Execute(s, [t EXCEPT !.edges = left])
  BY <1>1 DEF CutEdges
<1>3. PICK u : u = [t EXCEPT !.edges = left]
  OBVIOUS
<1>4. /\ u.nodes = t.nodes /\ u.edges = left /\ u.index = t.index /\ u.dead = t.dead
      /\ u = [nodes |-> u.nodes, edges |-> u.edges, index |-> u.index, dead |-> u.dead]
  <2>1. IsTables(t)
    BY SeesTables
  <2> HIDE DEF t
  <2>2. u = [nodes |-> t.nodes, edges |-> left, index |-> t.index, dead |-> t.dead]
    BY <1>3, <2>1, Replaced
  <2>3. QED
    BY <2>2
<1>5. Known(u) = Known(t) /\ Grows(t, u)
  BY <1>4 DEF Known, Grows
<1>6. IsTables(u)
  BY <1>2, <1>4, SeesTables DEF IsTables
<1>7. Sound(u, next)
  BY <1>2, <1>4, <1>5, SeesTables DEF Sound
<1>8. PICK d : d = [c EXCEPT !.pc = "cut_index"]
  OBVIOUS
<1>9. d \in Call /\ Shape(d) /\ Informed(d, u)
  <2>1. c.node \in Known(u)
    BY <1>1, <1>5 DEF Informed
  <2>2. QED
    BY <1>1, <1>5, <1>8, <2>1, DeleteGoesOn
<1>10. calls' = [calls EXCEPT ![s] = d]
  BY <1>1, <1>8 DEF CutEdges, Proceed
<1>11. next' = next /\ next' \in 1 .. MaxNodes + 1 /\ next <= next'
  BY SeesTables DEF CutEdges
<1>12. QED
  BY <1>2, <1>3, <1>5, <1>6, <1>7, <1>9, <1>10, <1>11, WriteKeeps DEF CutEdges

LEMMA CutIndexKeeps ==
  ASSUME IndInv, NEW s \in Slots, CutIndex(s)
  PROVE  IndInv'
<1> DEFINE t == Sees(s)
<1>1. PICK c : /\ c = calls[s] /\ c \in Call /\ Shape(c) /\ Informed(c, t)
               /\ c.pc = "cut_index" /\ c.job = "delete"
  BY SlotInCall DEF CutIndex, Shape
<1>2. PICK left : left \subseteq t.index /\ Execute(s, [t EXCEPT !.index = left])
  BY <1>1 DEF CutIndex
<1>3. PICK u : u = [t EXCEPT !.index = left]
  OBVIOUS
<1>4. /\ u.nodes = t.nodes /\ u.edges = t.edges /\ u.index = left /\ u.dead = t.dead
      /\ u = [nodes |-> u.nodes, edges |-> u.edges, index |-> u.index, dead |-> u.dead]
  <2>1. IsTables(t)
    BY SeesTables
  <2> HIDE DEF t
  <2>2. u = [nodes |-> t.nodes, edges |-> t.edges, index |-> left, dead |-> t.dead]
    BY <1>3, <2>1, Replaced
  <2>3. QED
    BY <2>2
<1>5. Known(u) = Known(t) /\ Grows(t, u)
  BY <1>4 DEF Known, Grows
<1>6. IsTables(u)
  BY <1>2, <1>4, SeesTables DEF IsTables
<1>7. Sound(u, next)
  BY <1>2, <1>4, <1>5, SeesTables DEF Sound
<1>8. PICK d : d = [c EXCEPT !.pc = "cut_node"]
  OBVIOUS
<1>9. d \in Call /\ Shape(d) /\ Informed(d, u)
  <2>1. c.node \in Known(u)
    BY <1>1, <1>5 DEF Informed
  <2>2. QED
    BY <1>1, <1>5, <1>8, <2>1, DeleteGoesOn
<1>10. calls' = [calls EXCEPT ![s] = d]
  BY <1>1, <1>8 DEF CutIndex, Proceed
<1>11. next' = next /\ next' \in 1 .. MaxNodes + 1 /\ next <= next'
  BY SeesTables DEF CutIndex
<1>12. QED
  BY <1>2, <1>3, <1>5, <1>6, <1>7, <1>9, <1>10, <1>11, WriteKeeps DEF CutIndex

LEMMA CutNodeKeeps ==
  ASSUME IndInv, NEW s \in Slots, CutNode(s)
  PROVE  IndInv'
<1> DEFINE t == Sees(s)
<1>1. PICK c : /\ c = calls[s] /\ c \in Call /\ Shape(c) /\ Informed(c, t)
               /\ c.pc = "cut_node" /\ c.job = "delete"
  BY SlotInCall DEF CutNode, Shape
<1>2. PICK left : left = [m \in DOMAIN t.nodes \ {c.node} |-> t.nodes[m]]
  OBVIOUS
<1>3. PICK u : u = [t EXCEPT !.nodes = left, !.dead = @ \cup {c.node}] /\ Execute(s, u)
  BY <1>1, <1>2 DEF CutNode
<1>4. /\ u.nodes = left /\ u.edges = t.edges /\ u.index = t.index /\ u.dead = t.dead \cup {c.node}
      /\ u = [nodes |-> u.nodes, edges |-> u.edges, index |-> u.index, dead |-> u.dead]
  <2>1. IsTables(t)
    BY SeesTables
  <2> HIDE DEF t
  <2>2. PICK gone : gone = t.dead \cup {c.node}
    OBVIOUS
  <2>3. u = [t EXCEPT !.nodes = left, !.dead = gone]
    BY <1>3, <2>2
  <2>4. u = [nodes |-> left, edges |-> t.edges, index |-> t.index, dead |-> gone]
    BY <2>1, <2>3, ReplacedTwo
  <2>5. QED
    BY <2>2, <2>4
<1>5. c.node \in Known(t) /\ c.node \in Ids
  BY <1>1, SeesTables, KnownAreIds DEF Informed
<1>6. DOMAIN left = DOMAIN t.nodes \ {c.node} /\ left \in [DOMAIN left -> Node]
  BY <1>2, SeesTables DEF IsTables
<1>7. Known(u) = Known(t) /\ Grows(t, u)
  BY <1>4, <1>5, <1>6 DEF Known, Grows
<1>8. IsTables(u)
  BY <1>4, <1>5, <1>6, SeesTables DEF IsTables
<1>9. Sound(u, next)
  <2>1. DOMAIN u.nodes \cap u.dead = {}
    BY <1>4, <1>6, SeesTables DEF Sound
  <2>2. \A n \in Known(u) : n < next
    BY <1>7, SeesTables DEF Sound
  <2>3. QED
    BY <1>4, <1>7, <2>1, <2>2, SeesTables DEF Sound
<1>10. PICK d : d = [c EXCEPT !.pc = "commit"]
  OBVIOUS
<1>11. d \in Call /\ Shape(d) /\ Informed(d, u)
  BY <1>1, <1>4, <1>5, <1>7, <1>10, DeleteGoesOn
<1>12. calls' = [calls EXCEPT ![s] = d]
  BY <1>1, <1>10 DEF CutNode, Proceed
<1>13. next' = next /\ next' \in 1 .. MaxNodes + 1 /\ next <= next'
  BY SeesTables DEF CutNode
<1>14. QED
  BY <1>3, <1>7, <1>8, <1>9, <1>11, <1>12, <1>13, WriteKeeps DEF CutNode

LEMMA CommitKeeps ==
  ASSUME IndInv, NEW s \in Slots, Commit(s)
  PROVE  IndInv'
<1>1. PICK c : /\ c = calls[s] /\ c \in Call /\ Shape(c) /\ Informed(c, Sees(s)) /\ c.pc = "commit"
  BY SlotInCall DEF Commit
<1>2. /\ calls' = [calls EXCEPT ![s] = Idle] /\ next' = next
      /\ file' = Committed(file, Home[s])
      /\ written' = IF c.job = "write" THEN written \cup {c.node} ELSE written
      /\ deleted' = IF c.job = "delete" THEN deleted \cup {c.node} ELSE deleted
  BY <1>1 DEF Commit, Proceed
<1>3. /\ IsFile(file, Procs)' /\ file'.disk \in {file.disk, file.work}
      /\ file'.work \in {file.disk, file.work} /\ Grows(file'.disk, file'.work)
      /\ file'.disk = Sees(s)
      /\ \A r \in Slots : Sees(r)' \in {Sees(r), file.work}
  <2>1. CASE file.owner = Home[s]
    <3>1. file'.disk = file.work /\ file'.work = file.work /\ file'.owner = Nobody
      BY <1>2, <2>1 DEF Committed, NewFile
    <3>2. file' = [disk |-> file'.disk, work |-> file'.work, owner |-> file'.owner]
      BY <1>2, <2>1 DEF Committed, NewFile
    <3>3. \A r \in Slots : Sees(r)' = file.work
      BY <3>1 DEF Sees, Seen
    <3>4. Sees(s) = file.work
      BY <2>1 DEF Sees, Seen
    <3>5. QED
      BY <3>1, <3>2, <3>3, <3>4 DEF IsFile, Grows
  <2>2. CASE file.owner # Home[s]
    <3>1. file' = file
      BY <1>2, <2>2 DEF Committed
    <3>2. Sees(s) = file.disk /\ \A r \in Slots : Sees(r)' = Sees(r)
      BY <2>2, <3>1 DEF Sees, Seen
    <3>3. QED
      BY <3>1, <3>2 DEF IndInv, TypeOK, IsFile
  <2>3. QED
    BY <2>1, <2>2
<1>4. Known(file.disk) \subseteq Known(Sees(s)) /\ file.disk.dead \subseteq Sees(s).dead
  BY SeesTables DEF IndInv, Grows
<1>5. /\ c.job = "write" => c.node \in Known(Sees(s))
      /\ c.job = "delete" => c.node \in Sees(s).dead
  BY <1>1 DEF Informed
<1>6. written' \subseteq Known(file'.disk) /\ deleted' \subseteq file'.disk.dead
  BY <1>2, <1>3, <1>4, <1>5 DEF IndInv, Disk
<1>7. TypeOK'
  <2>1. (IsTables(file.disk) /\ IsTables(file.work))'
    BY <1>3 DEF IndInv, TypeOK
  <2>2. calls' \in [Slots -> Call \cup {Idle}]
    BY <1>2 DEF IndInv, TypeOK
  <2>3. Known(Sees(s)) \subseteq Ids /\ Sees(s).dead \subseteq Ids
    BY SeesTables, KnownAreIds DEF Known
  <2>4. written' \subseteq Ids /\ deleted' \subseteq Ids
    BY <1>3, <1>6, <2>3
  <2>5. QED
    BY <1>2, <1>3, <2>1, <2>2, <2>4 DEF IndInv, TypeOK, Commit, counters
<1>8. Sound(file'.disk, next') /\ Sound(file'.work, next')
  BY <1>2, <1>3 DEF IndInv
<1>9. \A r \in Slots : Grows(Sees(r), Sees(r)')
  <2>1. \A r \in Slots : Grows(Sees(r), Sees(r)) /\ Grows(Sees(r), file.work)
    BY SeesTables DEF IndInv, Grows
  <2>2. QED
    BY <1>3, <2>1
<1>10. CallsAreInformed'
  <2>1. ASSUME NEW r \in Slots, calls'[r].pc # "idle"
        PROVE  Shape(calls'[r]) /\ Informed(calls'[r], Sees(r)')
    <3>1. calls'[r] = calls[r] /\ calls[r].pc # "idle"
      BY <1>2, <2>1 DEF IndInv, TypeOK, Idle
    <3>2. QED
      BY <1>9, <3>1, StaysInformed DEF IndInv, CallsAreInformed
  <2>2. QED
    BY <2>1 DEF CallsAreInformed
<1>11. QED
  BY <1>3, <1>6, <1>7, <1>8, <1>10 DEF IndInv, Disk

LEMMA RaiseKeeps ==
  ASSUME IndInv, NEW s \in Slots, Raise(s)
  PROVE  IndInv'
<1>1. calls' = [calls EXCEPT ![s] = Idle] /\ Idle.pc = "idle"
  BY DEF Raise, Proceed, Idle
<1>2. UNCHANGED <<file, next, written, deleted>> /\ {started', errors', crashes'} \subseteq Nat
  BY DEF Raise, IndInv, TypeOK
<1>3. QED
  BY <1>1, <1>2, ReadKeeps

LEMMA CrashKeeps ==
  ASSUME IndInv, NEW p \in Procs, Crash(p)
  PROVE  IndInv'
<1>1. /\ file' = Dropped(file, p) /\ UNCHANGED <<next, written, deleted, started, errors>>
      /\ crashes' \in Nat
      /\ calls' = [s \in Slots |-> IF Home[s] = p THEN Idle ELSE calls[s]]
  BY DEF Crash, IndInv, TypeOK
<1>2. /\ IsFile(file, Procs)' /\ file'.disk = file.disk /\ file'.work \in {file.disk, file.work}
      /\ \A s \in Slots : Home[s] # p => Sees(s)' = Sees(s)
  <2>1. CASE file.owner = p
    <3>1. file'.disk = file.disk /\ file'.work = file.disk /\ file'.owner = Nobody
      BY <1>1, <2>1 DEF Dropped, NewFile
    <3>2. file' = [disk |-> file'.disk, work |-> file'.work, owner |-> file'.owner]
      BY <1>1, <2>1 DEF Dropped, NewFile
    <3>3. \A s \in Slots : Home[s] # p => Sees(s)' = Sees(s)
      BY <2>1, <3>1 DEF Sees, Seen
    <3>4. QED
      BY <3>1, <3>2, <3>3 DEF IsFile
  <2>2. CASE file.owner # p
    <3>1. file' = file
      BY <1>1, <2>2 DEF Dropped
    <3>2. \A s \in Slots : Sees(s)' = Sees(s)
      BY <3>1 DEF Sees, Seen
    <3>3. QED
      BY <3>1, <3>2 DEF IndInv, TypeOK, IsFile
  <2>3. QED
    BY <2>1, <2>2
<1>3. TypeOK'
  <2>1. (IsTables(file.disk) /\ IsTables(file.work))'
    BY <1>2 DEF IndInv, TypeOK
  <2>2. calls' \in [Slots -> Call \cup {Idle}]
    BY <1>1 DEF IndInv, TypeOK
  <2>3. QED
    BY <1>1, <1>2, <2>1, <2>2 DEF IndInv, TypeOK
<1>4. Sound(file'.disk, next') /\ Sound(file'.work, next') /\ Grows(file'.disk, file'.work)
  BY <1>1, <1>2 DEF IndInv, Grows
<1>5. CallsAreInformed'
  <2>1. ASSUME NEW s \in Slots, calls'[s].pc # "idle"
        PROVE  Shape(calls'[s]) /\ Informed(calls'[s], Sees(s)')
    <3>1. calls'[s] = calls[s] /\ Home[s] # p
      BY <1>1, <2>1 DEF Idle
    <3>2. QED
      BY <1>2, <2>1, <3>1 DEF IndInv, CallsAreInformed
  <2>2. QED
    BY <2>1 DEF CallsAreInformed
<1>6. QED
  BY <1>1, <1>2, <1>3, <1>4, <1>5 DEF IndInv, Disk

LEMMA StepIndInv == IndInv /\ [Next]_vars => IndInv'
<1> SUFFICES ASSUME IndInv, [Next]_vars PROVE IndInv'
  OBVIOUS
<1>1. ASSUME NEW s \in Slots, Write(s) PROVE IndInv'
  BY <1>1, BeginWriteKeeps, InsertKeeps, PreviousKeeps, InsertEntityKeeps, PeersKeeps DEF Write
<1>2. ASSUME NEW s \in Slots, Consolidate(s) PROVE IndInv'
  BY <1>2, BeginConsolidateKeeps, RowsKeeps, PromoteKeeps DEF Consolidate
<1>3. ASSUME NEW s \in Slots, Delete(s) PROVE IndInv'
  BY <1>3, BeginDeleteKeeps, FindKeeps, CutEdgesKeeps, CutIndexKeeps, CutNodeKeeps DEF Delete
<1>4. ASSUME NEW s \in Slots, InsertEdge(s) \/ Commit(s) \/ Raise(s) PROVE IndInv'
  BY <1>4, InsertEdgeKeeps, CommitKeeps, RaiseKeeps
<1>5. ASSUME NEW p \in Procs, Crash(p) PROVE IndInv'
  BY <1>5, CrashKeeps
<1>6. CASE UNCHANGED vars
  <2>1. UNCHANGED <<file, calls, next, written, deleted, started, errors, crashes>>
    BY <1>6 DEF vars
  <2>2. \A s \in Slots : Sees(s)' = Sees(s)
    BY <2>1 DEF Sees
  <2>3. CallsAreInformed'
    BY <2>1, <2>2 DEF IndInv, CallsAreInformed
  <2>4. QED
    BY <2>1, <2>3 DEF IndInv, TypeOK, Disk
<1>7. QED
  BY <1>1, <1>2, <1>3, <1>4, <1>5, <1>6 DEF Next

\* Whatever calls, errors and deaths come, the invariant holds.
LEMMA AlwaysIndInv == Spec => []IndInv
BY InitIndInv, StepIndInv, PTL DEF Spec
-----------------------------------------------------------------------------
\* The file, the open transaction and every call are what the code can make of
\* them: durable.py never inserts an edge or an index row of another shape.
THEOREM DurableTyped == Spec => []TypeOK
<1>1. IndInv => TypeOK
  BY DEF IndInv
<1>2. QED
  BY <1>1, AlwaysIndInv, PTL

\* What write() has returned stays stored until it is deleted, and what delete()
\* has answered stays deleted, although calls share transactions, nobody rolls
\* back and processes die: a commit keeps all that its connection sees.
THEOREM AnswersStayDurable == Spec => []AnswersAreDurable
<1>1. IndInv => AnswersAreDurable
  BY DEF IndInv, AnswersAreDurable, Sound, Known, Stored, Disk
<1>2. QED
  BY <1>1, AlwaysIndInv, PTL

\* No commit leaves an edge or an index row about an INSERT that was lost, but
\* for the ids that clients made up.
THEOREM NoPhantomsEver == Spec => []NoPhantoms
<1>1. IndInv => NoPhantoms
  BY DEF IndInv, NoPhantoms, Sound, Known, Stored, Disk
<1>2. QED
  BY <1>1, AlwaysIndInv, PTL
-----------------------------------------------------------------------------
(***************************************************************************)
(* Calls of a process that come one after the other: proofs of what holds  *)
(* in the setting of OnlyGivenAndSourcesDangle and the invariants after    *)
(* it, for any processes, nodes, calls, lock timeouts and crashes.         *)
(***************************************************************************)
\* A process has one caller, and a statement raises only if it waits for the lock in
\* vain.
Serial == /\ \A r, s \in Slots : Home[r] = Home[s] => r = s
          /\ MaxErrors = 0

\* What a sequence lists, and the edges that a call has still to insert.
Listed(q) == {q[i] : i \in DOMAIN q}
Due(c) == Listed(c.todo)

\* The four invariants, for the nodes and the index of t and any edges E.
Closed(t, E) ==
  /\ \A e \in E : e[1] \in {"temporal", "entity"} => {e[2], e[3]} \subseteq DOMAIN t.nodes
  /\ \A e \in E : {e[2], e[3]} \cap DOMAIN t.nodes # {}
  /\ \A x \in t.index : x[2] \in DOMAIN t.nodes
  /\ \A e \in E : \/ <<e[1], e[3], e[2]>> \in E
                  \/ /\ e[1] \in {"semantic", "causal"}
                     /\ e[2] \in DOMAIN t.nodes /\ t.nodes[e[2]].summary
  /\ \A e \in E : e[1] = "entity" =>
       \E x \in Entities : {<<x, e[2]>>, <<x, e[3]>>} \subseteq t.index
  /\ \A e \in E : e[1] = "temporal" => t.nodes[e[2]].level = t.nodes[e[3]].level
  /\ \A e, f \in E :
       e[1] = "temporal" /\ f[1] = "temporal" /\ f[2] = e[2] /\ e[3] < e[2] /\ f[3] < f[2]
         => e[3] = f[3]

\* The statements of a call that has begun its transaction; a consolidation that has
\* found rows may have, too.
Within(c) == \/ c.pc \in {"previous", "edge", "entity", "peers", "cut_index", "cut_node"}
             \/ c.pc = "commit" /\ c.job # "consolidate"
MayOwn(c) == Within(c) \/ c.pc \in {"promote", "commit"}

\* How far the call is in the tables t of its transaction; m is the next id.
Midway(c, t, m) ==
  /\ c.job = "write" => c.node \in DOMAIN t.nodes
  /\ c.pc = "previous" => /\ m = c.node + 1 /\ t.nodes[c.node].level = c.new.level
                          /\ \A e \in t.edges : e[1] = "temporal" => c.node \notin {e[2], e[3]}
  /\ c.pc = "peers" => <<NextEntity(c), c.node>> \in t.index
  /\ c.pc \in {"cut_index", "cut_node"} => \A e \in t.edges : c.node \notin {e[2], e[3]}
  /\ c.pc = "cut_node" => \A x \in t.index : x[2] # c.node

\* The open transaction is the work of one call, and is closed once that call has
\* inserted its edges.
Owns(c) == MayOwn(c) /\ Midway(c, file.work, next)
           /\ Closed(file.work, file.work.edges \cup Due(c))

SerialInv ==
  /\ Closed(file.disk, file.disk.edges)
  /\ file.owner # Nobody => \E s \in Slots : Home[s] = file.owner
  /\ \A s \in Slots : /\ Within(calls[s]) => file.owner = Home[s]
                      /\ file.owner = Home[s] => Owns(calls[s])
                      /\ calls[s].pc \notin {"idle", "edge"} => calls[s].todo = << >>
-----------------------------------------------------------------------------
\* A call that executes a write statement does it on closed tables.
LEMMA BeforeWrite ==
  ASSUME IndInv, SerialInv, NEW s \in Slots, calls[s].pc # "idle", MayWrite(file, Home[s])
  PROVE  /\ Sees(s) = file.work /\ file.owner \in {Home[s], Nobody}
         /\ Closed(Sees(s), Sees(s).edges \cup Due(calls[s]))
         /\ MayOwn(calls[s]) \/ file.owner = Nobody
         /\ Within(calls[s]) => Midway(calls[s], Sees(s), next)
<1>1. /\ file.owner \in {Home[s], Nobody} /\ (file.owner = Nobody => file.work = file.disk)
      /\ Home[s] # Nobody
  BY SeesTables DEF MayWrite, IndInv, TypeOK, IsFile
<1>2. Sees(s) = file.work
  BY <1>1 DEF Sees, Seen
<1>3. CASE file.owner = Home[s]
  BY <1>1, <1>2, <1>3 DEF SerialInv, Owns
<1>4. CASE file.owner = Nobody
  <2>1. calls[s].pc # "edge" /\ ~Within(calls[s])
    BY <1>1, <1>4 DEF SerialInv, Within
  <2>2. Due(calls[s]) = {}
    BY <2>1 DEF SerialInv, Due, Listed
  <2>3. Closed(file.work, file.work.edges \cup {})
    BY <1>1, <1>4 DEF SerialInv
  <2>4. QED
    BY <1>1, <1>2, <1>4, <2>1, <2>2, <2>3
<1>5. QED
  BY <1>1, <1>3, <1>4

\* A SELECT, the beginning or the end of a call that has written nothing.
LEMMA ReadSerial ==
  ASSUME IndInv, SerialInv, Serial, NEW s \in Slots, NEW c,
         calls' = [calls EXCEPT ![s] = c], UNCHANGED <<file, next>>,
         Within(c) => file.owner = Home[s], file.owner = Home[s] => Owns(c),
         c.pc \notin {"idle", "edge"} => c.todo = << >>
  PROVE  SerialInv'
<1>1. calls'[s] = c /\ \A r \in Slots \ {s} : calls'[r] = calls[r]
  BY DEF IndInv, TypeOK
<1>2. \A d : Owns(d)' <=> Owns(d)
  BY DEF Owns
<1>3. ASSUME NEW r \in Slots
      PROVE  /\ Within(calls'[r]) => file.owner = Home[r]
             /\ file.owner = Home[r] => Owns(calls'[r])
             /\ calls'[r].pc \notin {"idle", "edge"} => calls'[r].todo = << >>
  BY <1>1 DEF SerialInv
<1>4. ASSUME NEW r \in Slots, file.owner = Home[r] PROVE Owns(calls[r])'
  BY <1>3, <1>4 DEF Owns
<1>5. QED
  BY <1>3, <1>4 DEF SerialInv, Within

\* A write statement, after which the call c owns the tables u.
LEMMA WriteSerial ==
  ASSUME IndInv, SerialInv, Serial, NEW s \in Slots, NEW c, NEW u, Execute(s, u),
         calls' = [calls EXCEPT ![s] = c], MayOwn(c), Midway(c, u, next'),
         Closed(u, u.edges \cup Due(c)), c.pc # "edge" => c.todo = << >>
  PROVE  SerialInv'
<1>1. /\ file' = [disk |-> file.disk, work |-> u, owner |-> Home[s]]
      /\ file.owner \in {Home[s], Nobody} /\ Home[s] # Nobody
      /\ \A r \in Slots : Home[r] # Nobody
  BY SeesTables DEF IndInv, TypeOK, IsFile, Execute, MayWrite, Written
<1>2. file'.disk = file.disk /\ file'.work = u /\ file'.owner = Home[s]
  BY <1>1
<1>3. calls'[s] = c /\ \A r \in Slots \ {s} : calls'[r] = calls[r]
  BY DEF IndInv, TypeOK
<1>4. \A r \in Slots \ {s} : Home[r] # Home[s]
  BY DEF Serial
<1>5. \A r \in Slots \ {s} : ~Within(calls[r])
  BY <1>1, <1>4 DEF SerialInv
<1>6. Owns(calls[s])'
  BY <1>2, <1>3 DEF Owns
<1>7. ASSUME NEW r \in Slots
      PROVE  /\ Within(calls'[r]) => file'.owner = Home[r]
             /\ file'.owner = Home[r] => Owns(calls[r])'
             /\ calls'[r].pc \notin {"idle", "edge"} => calls'[r].todo = << >>
  BY <1>2, <1>3, <1>4, <1>5, <1>6 DEF SerialInv
<1>8. QED
  BY <1>2, <1>7 DEF SerialInv, Within
-----------------------------------------------------------------------------
\* The edges of a kind between n and each of a set, both ways.
Both(kind, n, O) == {<<kind, n, o>> : o \in O} \cup {<<kind, o, n>> : o \in O}

\* Pairs lists them.
LEMMA PairsAreBoth ==
  ASSUME NEW kind, NEW n, NEW others \in Seq(Ids)
  PROVE  Listed(Pairs(kind, n, others)) = Both(kind, n, Listed(others))
<1>1. PICK k : k = Len(others)
  OBVIOUS
<1>2. k \in Nat /\ DOMAIN others = 1 .. k
  BY <1>1
<1>3. PICK P : P = Pairs(kind, n, others)
  OBVIOUS
<1>4. /\ DOMAIN P = 1 .. 2 * k
      /\ \A i \in 1 .. 2 * k : P[i] = IF i % 2 = 1 THEN <<kind, n, others[(i + 1) \div 2]>>
                                      ELSE <<kind, others[i \div 2], n>>
  BY <1>1, <1>3 DEF Pairs
<1>5. ASSUME NEW i \in DOMAIN P PROVE P[i] \in Both(kind, n, Listed(others))
  <2>1. i \in 1 .. 2 * k
    BY <1>4
  <2>2. CASE i % 2 = 1
    <3>1. (i + 1) \div 2 \in 1 .. k
      BY <1>2, <2>1, <2>2
    <3>2. P[i] = <<kind, n, others[(i + 1) \div 2]>>
      BY <1>4, <2>1, <2>2
    <3>3. QED
      BY <1>2, <3>1, <3>2 DEF Both, Listed
  <2>3. CASE i % 2 # 1
    <3>1. i \div 2 \in 1 .. k
      BY <1>2, <2>1, <2>3
    <3>2. P[i] = <<kind, others[i \div 2], n>>
      BY <1>4, <2>1, <2>3
    <3>3. QED
      BY <1>2, <3>1, <3>2 DEF Both, Listed
  <2>4. QED
    BY <2>2, <2>3
<1>6. ASSUME NEW j \in DOMAIN others
      PROVE  /\ \E i \in DOMAIN P : P[i] = <<kind, n, others[j]>>
             /\ \E i \in DOMAIN P : P[i] = <<kind, others[j], n>>
  <2>1. PICK a, b : a = 2 * j - 1 /\ b = 2 * j
    OBVIOUS
  <2>2. j \in Nat /\ j >= 1 /\ j <= k
    BY <1>2
  <2>3. a \in 1 .. 2 * k /\ b \in 1 .. 2 * k
    BY <1>2, <2>1, <2>2
  <2>4. a % 2 = 1 /\ (a + 1) \div 2 = j
    BY <2>1, <2>2
  <2>5. b % 2 # 1 /\ b \div 2 = j
    BY <2>1, <2>2
  <2>6. P[a] = <<kind, n, others[j]>>
    BY <1>4, <2>3, <2>4
  <2>7. P[b] = <<kind, others[j], n>>
    BY <1>4, <2>3, <2>5
  <2>8. QED
    BY <1>4, <2>3, <2>6, <2>7
<1>7. Listed(P) \subseteq Both(kind, n, Listed(others))
  BY <1>5 DEF Listed
<1>8. ASSUME NEW e \in Both(kind, n, Listed(others)) PROVE e \in Listed(P)
  <2>1. PICK o \in Listed(others) : e = <<kind, n, o>> \/ e = <<kind, o, n>>
    BY DEF Both
  <2>2. PICK j \in DOMAIN others : o = others[j]
    BY DEF Listed
  <2>3. QED
    BY <1>6, <2>1, <2>2 DEF Listed
<1>9. QED
  BY <1>3, <1>7, <1>8

\* The edges of two lists, one after the other.
LEMMA EdgesOfBoth ==
  ASSUME NEW p \in Seq(Edge), NEW q \in Seq(Edge)
  PROVE  Listed(p \o q) = Listed(p) \cup Listed(q)
<1>1. PICK k, l : k = Len(p) /\ l = Len(q)
  OBVIOUS
<1>2. PICK r : r = p \o q
  OBVIOUS
<1>3. /\ k \in Nat /\ l \in Nat /\ DOMAIN p = 1 .. k /\ DOMAIN q = 1 .. l
      /\ DOMAIN r = 1 .. k + l
      /\ \A i \in 1 .. k + l : r[i] = IF i <= k THEN p[i] ELSE q[i - k]
  BY <1>1, <1>2
<1>4. \A i \in 1 .. l : i + k \in 1 .. k + l /\ r[i + k] = q[i]
  BY <1>3
<1>5. \A i \in 1 .. k : r[i] = p[i] /\ i \in 1 .. k + l
  BY <1>3
<1>6. \A i \in 1 .. k + l : i \in 1 .. k \/ i - k \in 1 .. l
  BY <1>3
<1>7. ASSUME NEW e \in {r[i] : i \in DOMAIN r}
      PROVE  e \in {p[i] : i \in DOMAIN p} \cup {q[i] : i \in DOMAIN q}
  <2>1. PICK i \in 1 .. k + l : e = r[i]
    BY <1>3
  <2>2. CASE i \in 1 .. k
    BY <1>3, <1>5, <2>1, <2>2
  <2>3. CASE i \notin 1 .. k
    <3>1. i - k \in 1 .. l /\ ~(i <= k)
      BY <1>3, <1>6, <2>3
    <3>2. e = q[i - k]
      BY <1>3, <2>1, <3>1
    <3>3. QED
      BY <1>3, <3>1, <3>2
  <2>4. QED
    BY <2>2, <2>3
<1>8. {p[i] : i \in DOMAIN p} \subseteq {r[i] : i \in DOMAIN r}
  BY <1>3, <1>5
<1>9. ASSUME NEW e \in {q[i] : i \in DOMAIN q} PROVE e \in {r[i] : i \in DOMAIN r}
  <2>1. PICK i \in 1 .. l : e = q[i]
    BY <1>3
  <2>2. QED
    BY <1>3, <1>4, <2>1
<1>10. {r[i] : i \in DOMAIN r} = {p[i] : i \in DOMAIN p} \cup {q[i] : i \in DOMAIN q}
  BY <1>7, <1>8, <1>9
<1>11. QED
  BY <1>2, <1>10 DEF Listed

\* Closed is about the nodes and the index only.
LEMMA SameClosed ==
  ASSUME NEW t, NEW u, NEW E, Closed(t, E), u.nodes = t.nodes, u.index = t.index
  PROVE  Closed(u, E)
BY DEF Closed

\* A new node changes nothing for the others.
LEMMA NodeComes ==
  ASSUME NEW t, NEW u, NEW E, NEW n, Closed(t, E), u.index = t.index,
         DOMAIN u.nodes = DOMAIN t.nodes \cup {n}, n \notin DOMAIN t.nodes,
         \A m \in DOMAIN t.nodes : u.nodes[m] = t.nodes[m]
  PROVE  Closed(u, E)
BY DEF Closed

\* Causal and semantic edges of a stored node, both ways.
LEMMA EdgesOfClients ==
  ASSUME NEW t, NEW E, NEW n \in DOMAIN t.nodes, NEW O, NEW kind \in {"causal", "semantic"},
         Closed(t, E)
  PROVE  Closed(t, E \cup Both(kind, n, O))
<1>1. \A e \in Both(kind, n, O) : /\ e[1] = kind /\ (e[2] = n \/ e[3] = n)
                                  /\ <<e[1], e[3], e[2]>> \in Both(kind, n, O)
  BY DEF Both
<1>2. QED
  BY <1>1 DEF Closed

\* Temporal edges of the newest node with one of its level.
LEMMA TemporalEdges ==
  ASSUME NEW t, NEW E, NEW n \in DOMAIN t.nodes, NEW O, Closed(t, E), n \in Nat,
         \A e \in E : e[1] = "temporal" => n \notin {e[2], e[3]},
         \A o \in O : /\ o \in DOMAIN t.nodes /\ o \in Nat /\ o < n
                      /\ t.nodes[o].level = t.nodes[n].level
                      /\ \A q \in O : o = q
  PROVE  Closed(t, E \cup Both("temporal", n, O))
<1>1. \A e \in Both("temporal", n, O) :
        /\ e[1] = "temporal" /\ <<e[1], e[3], e[2]>> \in Both("temporal", n, O)
        /\ {e[2], e[3]} \subseteq DOMAIN t.nodes /\ t.nodes[e[2]].level = t.nodes[e[3]].level
        /\ (e[2] = n /\ e[3] \in O) \/ (e[3] = n /\ e[2] \in O)
  BY DEF Both
<1>2. ASSUME NEW e \in E \cup Both("temporal", n, O), NEW f \in E \cup Both("temporal", n, O),
             e[1] = "temporal", f[1] = "temporal", f[2] = e[2], e[3] < e[2], f[3] < f[2]
      PROVE  e[3] = f[3]
  <2>1. CASE e \in E /\ f \in E
    BY <1>2, <2>1 DEF Closed
  <2>2. CASE e \notin E \/ f \notin E
    <3>1. e[2] = n \/ e[2] \in O
      BY <1>1, <1>2, <2>2
    <3>2. CASE e[2] = n
      BY <1>1, <1>2, <3>2
    <3>3. CASE e[2] \in O
      <4>1. e[2] < n /\ ~(n < e[2]) /\ e[2] # n
        BY <3>3
      <4>2. QED
        BY <1>1, <1>2, <2>2, <4>1
    <3>4. QED
      BY <3>1, <3>2, <3>3
  <2>3. QED
    BY <2>1, <2>2
<1>3. ASSUME NEW e \in E \cup Both("temporal", n, O)
      PROVE  /\ e[1] \in {"temporal", "entity"} => {e[2], e[3]} \subseteq DOMAIN t.nodes
             /\ {e[2], e[3]} \cap DOMAIN t.nodes # {}
             /\ \/ <<e[1], e[3], e[2]>> \in E \cup Both("temporal", n, O)
                \/ /\ e[1] \in {"semantic", "causal"}
                   /\ e[2] \in DOMAIN t.nodes /\ t.nodes[e[2]].summary
             /\ e[1] = "entity" => \E x \in Entities : {<<x, e[2]>>, <<x, e[3]>>} \subseteq t.index
             /\ e[1] = "temporal" => t.nodes[e[2]].level = t.nodes[e[3]].level
  <2>1. CASE e \in E
    BY <2>1 DEF Closed
  <2>2. CASE e \in Both("temporal", n, O)
    BY <1>1, <2>2
  <2>3. QED
    BY <2>1, <2>2
<1>4. \A x \in t.index : x[2] \in DOMAIN t.nodes
  BY DEF Closed
<1>5. QED
  BY <1>2, <1>3, <1>4 DEF Closed

\* Entity edges with nodes of the same entity.
LEMMA EntityEdges ==
  ASSUME NEW t, NEW E, NEW n, NEW O, NEW x \in Entities, Closed(t, E),
         <<x, n>> \in t.index, \A o \in O : <<x, o>> \in t.index
  PROVE  Closed(t, E \cup Both("entity", n, O))
<1>1. n \in DOMAIN t.nodes /\ \A o \in O : o \in DOMAIN t.nodes
  BY DEF Closed
<1>2. \A e \in Both("entity", n, O) :
        /\ e[1] = "entity" /\ <<e[1], e[3], e[2]>> \in Both("entity", n, O)
        /\ {e[2], e[3]} \subseteq DOMAIN t.nodes
        /\ {<<x, e[2]>>, <<x, e[3]>>} \subseteq t.index
  BY <1>1 DEF Both
<1>3. QED
  BY <1>2 DEF Closed

\* The two edges from a summary.
LEMMA SummaryEdges ==
  ASSUME NEW t, NEW E, NEW n \in DOMAIN t.nodes, NEW r, Closed(t, E), t.nodes[n].summary
  PROVE  Closed(t, E \cup {<<"semantic", n, r>>, <<"causal", n, r>>})
<1>1. \A e \in {<<"semantic", n, r>>, <<"causal", n, r>>} :
        e[1] \in {"semantic", "causal"} /\ e[2] = n
  OBVIOUS
<1>2. QED
  BY <1>1 DEF Closed

\* An index row of a stored node.
LEMMA RowComes ==
  ASSUME NEW t, NEW u, NEW E, NEW x, Closed(t, E), u.nodes = t.nodes,
         u.index = t.index \cup {x}, x[2] \in DOMAIN t.nodes
  PROVE  Closed(u, E)
BY DEF Closed

\* delete() takes the edges of a node, then its index rows, then the node.
LEMMA EdgesGo ==
  ASSUME NEW t, NEW u, NEW n, Closed(t, t.edges), u.nodes = t.nodes, u.index = t.index,
         u.edges = {e \in t.edges : n \notin {e[2], e[3]}}
  PROVE  Closed(u, u.edges)
<1>1. \A e \in u.edges : <<e[1], e[3], e[2]>> \in t.edges => <<e[1], e[3], e[2]>> \in u.edges
  OBVIOUS
<1>2. QED
  BY <1>1 DEF Closed

LEMMA RowsGo ==
  ASSUME NEW t, NEW u, NEW n, Closed(t, t.edges), u.nodes = t.nodes, u.edges = t.edges,
         u.index = {x \in t.index : x[2] # n}, \A e \in t.edges : n \notin {e[2], e[3]}
  PROVE  Closed(u, u.edges)
<1>1. \A e \in t.edges, x \in Entities :
        {<<x, e[2]>>, <<x, e[3]>>} \subseteq t.index
          => {<<x, e[2]>>, <<x, e[3]>>} \subseteq u.index
  OBVIOUS
<1>2. QED
  BY <1>1 DEF Closed

LEMMA NodeGoes ==
  ASSUME NEW t, NEW u, NEW n, Closed(t, t.edges), u.edges = t.edges, u.index = t.index,
         \A e \in t.edges : n \notin {e[2], e[3]}, \A x \in t.index : x[2] # n,
         DOMAIN u.nodes = DOMAIN t.nodes \ {n},
         \A m \in DOMAIN u.nodes : u.nodes[m] = t.nodes[m]
  PROVE  Closed(u, u.edges)
BY DEF Closed
-----------------------------------------------------------------------------
\* Going on to the next insertion, in tables that have the node of a write.
LEMMA OnwardSerial ==
  ASSUME NEW c \in Call, Carries(c), NEW d, d = Onward(c)
  PROVE  /\ d \in Call /\ MayOwn(d) /\ Due(d) = Due(c) /\ d.job = c.job
         /\ d.pc # "edge" => d.todo = << >>
         /\ c.job = "write" => Within(d)
         /\ c.job = "consolidate" /\ c.todo = << >> => ~Within(d)
         /\ \A t, m : (c.job = "write" => c.node \in DOMAIN t.nodes) => Midway(d, t, m)
<1>1. PICK pc : /\ pc = IF c.todo # << >> THEN "edge"
                        ELSE IF c.ents # {} THEN "entity"
                        ELSE IF c.rows # {} THEN "promote"
                        ELSE "commit"
                /\ d = [c EXCEPT !.pc = pc]
  BY DEF Onward
<1>2. pc \in {"edge", "entity", "promote", "commit"}
  BY <1>1
<1>3. /\ d \in Call /\ d.pc = pc /\ d.job = c.job /\ d.node = c.node /\ d.todo = c.todo
      /\ d.ents = c.ents
  BY <1>1, <1>2 DEF Call, Statements
<1>4. MayOwn(d) /\ (pc # "edge" => d.todo = << >>)
  BY <1>1, <1>2, <1>3 DEF MayOwn, Within
<1>5. Due(d) = Due(c)
  BY <1>3 DEF Due
<1>6. /\ c.job = "write" => Within(d)
      /\ c.job = "consolidate" /\ c.todo = << >> => ~Within(d)
  BY <1>1, <1>2, <1>3 DEF Within, Carries
<1>7. \A t, m : (c.job = "write" => c.node \in DOMAIN t.nodes) => Midway(d, t, m)
  BY <1>2, <1>3 DEF Midway
<1>8. QED
  BY <1>3, <1>4, <1>5, <1>6, <1>7

\* A call that is not yet in its transaction does not own one.
LEMMA NotYetOwner ==
  ASSUME SerialInv, NEW s \in Slots, calls[s].pc \in {"idle", "rows", "find", "insert", "cut_edges"}
  PROVE  file.owner # Home[s]
BY DEF SerialInv, Owns, MayOwn, Within

LEMMA BeginSerial ==
  ASSUME IndInv, SerialInv, Serial, NEW s \in Slots, Begin(s), NEW n, NEW node,
         NEW parent, NEW links, NEW ents, NEW pc \in {"insert", "rows", "find"}, NEW job,
         Proceed(s, NewCall(pc, job, n, node, parent, links, ents))
  PROVE  SerialInv'
<1>1. PICK c : c = NewCall(pc, job, n, node, parent, links, ents)
  OBVIOUS
<1>2. c.pc = pc /\ c.todo = << >> /\ ~Within(c)
  BY <1>1 DEF NewCall, Within
<1>3. file.owner # Home[s] /\ UNCHANGED <<file, next>>
  BY NotYetOwner DEF Begin
<1>4. QED
  BY <1>1, <1>2, <1>3, ReadSerial DEF Proceed

LEMMA BeginsSerial ==
  ASSUME IndInv, SerialInv, Serial, NEW s \in Slots,
         BeginWrite(s) \/ BeginConsolidate(s) \/ BeginDelete(s)
  PROVE  SerialInv'
<1>1. Begin(s)
  BY DEF BeginWrite, BeginConsolidate, BeginDelete
<1>2. CASE BeginWrite(s)
  <2>1. PICK level \in Levels, high \in BOOLEAN, parent \in AtMostOne, links \in AtMostOne,
             ents \in SUBSET Entities :
          Proceed(s, NewCall("insert", "write", 0, NodeOf(level, high, FALSE),
                             parent, links, ents))
    BY <1>2 DEF BeginWrite
  <2>2. QED
    BY <1>1, <2>1, BeginSerial
<1>3. CASE BeginConsolidate(s)
  <2>1. PICK level \in Levels :
          Proceed(s, NewCall("rows", "consolidate", 0, NodeOf(level, TRUE, TRUE),
                             << >>, << >>, {}))
    BY <1>3 DEF BeginConsolidate
  <2>2. QED
    BY <1>1, <2>1, BeginSerial
<1>4. CASE BeginDelete(s)
  <2>1. PICK n \in 1 .. (next - 1) :
          Proceed(s, NewCall("find", "delete", n, NodeOf(Semantic, TRUE, FALSE),
                             << >>, << >>, {}))
    BY <1>4 DEF BeginDelete
  <2>2. QED
    BY <1>1, <2>1, BeginSerial
<1>5. QED
  BY <1>2, <1>3, <1>4

LEMMA RaiseSerial ==
  ASSUME IndInv, SerialInv, Serial, NEW s \in Slots, Raise(s)
  PROVE  SerialInv'
<1>1. /\ calls' = [calls EXCEPT ![s] = Idle] /\ Idle.pc = "idle" /\ UNCHANGED <<file, next>>
  BY DEF Raise, Proceed, Idle
<1>2. errors \in Nat /\ MaxErrors = 0
  BY DEF IndInv, TypeOK, Serial
<1>3. file.owner # Home[s]
  BY <1>2 DEF Raise, MayWrite
<1>4. ~Within(Idle)
  BY <1>1 DEF Within
<1>5. QED
  BY <1>1, <1>3, <1>4, ReadSerial

LEMMA FindSerial ==
  ASSUME IndInv, SerialInv, Serial, NEW s \in Slots, Find(s)
  PROVE  SerialInv'
<1>1. PICK c : c = calls[s] /\ c \in Call /\ c.pc = "find" /\ c.todo = << >>
  BY SlotInCall DEF Find, SerialInv
<1>2. file.owner # Home[s]
  BY <1>1, NotYetOwner
<1>3. UNCHANGED <<file, next>>
  BY DEF Find
<1>4. PICK d : /\ d = (IF c.node \in DOMAIN Sees(s).nodes THEN [c EXCEPT !.pc = "cut_edges"] ELSE Idle)
               /\ calls' = [calls EXCEPT ![s] = d]
  BY <1>1 DEF Find, Proceed
<1>5. d \in Call \cup {Idle} /\ ~Within(d) /\ (d.pc # "idle" => d.todo = << >>)
  <2>1. CASE d = [c EXCEPT !.pc = "cut_edges"]
    BY <1>1, <2>1 DEF Call, Statements, Within
  <2>2. CASE d = Idle
    BY <2>2 DEF Idle, Within
  <2>3. QED
    BY <1>4, <2>1, <2>2
<1>6. QED
  BY <1>2, <1>3, <1>4, <1>5, ReadSerial

LEMMA RowsSerial ==
  ASSUME IndInv, SerialInv, Serial, NEW s \in Slots, Rows(s)
  PROVE  SerialInv'
<1>1. PICK c : /\ c = calls[s] /\ c \in Call /\ c.pc = "rows" /\ c.job = "consolidate"
               /\ c.todo = << >> /\ Carries(c)
  BY SlotInCall DEF Rows, SerialInv, Shape
<1>2. PICK rows : /\ rows \subseteq DOMAIN Sees(s).nodes
                  /\ Proceed(s, Onward([c EXCEPT !.rows = rows]))
  BY <1>1 DEF Rows
<1>3. rows \subseteq Ids
  BY <1>2, SeesTables DEF IsTables
<1>4. PICK d : d = [c EXCEPT !.rows = rows]
  OBVIOUS
<1>5. d \in Call /\ Carries(d) /\ d.job = "consolidate" /\ d.todo = << >>
  BY <1>1, <1>3, <1>4 DEF Call, Carries
<1>6. PICK e : e = Onward(d)
  OBVIOUS
<1>7. e \in Call /\ ~Within(e) /\ (e.pc # "edge" => e.todo = << >>)
  BY <1>5, <1>6, OnwardSerial
<1>8. calls' = [calls EXCEPT ![s] = e] /\ UNCHANGED <<file, next>>
  BY <1>2, <1>4, <1>6 DEF Rows, Proceed
<1>9. QED
  BY <1>1, <1>7, <1>8, NotYetOwner, ReadSerial

LEMMA CommitSerial ==
  ASSUME IndInv, SerialInv, Serial, NEW s \in Slots, Commit(s)
  PROVE  SerialInv'
<1>1. /\ calls' = [calls EXCEPT ![s] = Idle] /\ Idle.pc = "idle" /\ next' = next
      /\ calls[s].pc = "commit" /\ file' = Committed(file, Home[s])
  BY DEF Commit, Proceed, Idle
<1>2. ~Within(Idle)
  BY <1>1 DEF Within
<1>3. CASE file.owner # Home[s]
  <2>1. file' = file
    BY <1>1, <1>3 DEF Committed
  <2>2. QED
    BY <1>1, <1>2, <1>3, <2>1, ReadSerial
<1>4. CASE file.owner = Home[s]
  <2>1. file'.disk = file.work /\ file'.owner = Nobody
    BY <1>1, <1>4 DEF Committed, NewFile
  <2>2. Due(calls[s]) = {}
    BY <1>1 DEF SerialInv, Due, Listed
  <2>3. Closed(file.work, file.work.edges)
    BY <1>4, <2>2 DEF SerialInv, Owns
  <2>4. calls'[s] = Idle /\ \A r \in Slots \ {s} : calls'[r] = calls[r]
    BY <1>1 DEF IndInv, TypeOK
  <2>5. \A r \in Slots \ {s} : ~Within(calls[r])
    BY <1>4 DEF SerialInv, Serial
  <2>6. \A r \in Slots : Home[r] # Nobody
    BY SeesTables
  <2>7. ASSUME NEW r \in Slots
        PROVE  ~Within(calls[r])' /\ (calls'[r].pc \notin {"idle", "edge"} => calls'[r].todo = << >>)
    BY <1>1, <1>2, <2>4, <2>5, <2>7 DEF SerialInv, Within
  <2>8. QED
    BY <2>1, <2>3, <2>6, <2>7 DEF SerialInv
<1>5. QED
  BY <1>3, <1>4

LEMMA CrashSerial ==
  ASSUME IndInv, SerialInv, NEW p \in Procs, Crash(p)
  PROVE  SerialInv'
<1>1. /\ file' = Dropped(file, p) /\ next' = next /\ Idle.pc = "idle"
      /\ \A s \in Slots : calls'[s] = IF Home[s] = p THEN Idle ELSE calls[s]
  BY DEF Crash, Idle
<1>2. \A s \in Slots : calls'[s].pc \notin {"idle", "edge"} => calls'[s].todo = << >>
  BY <1>1 DEF SerialInv
<1>3. ~Within(Idle)
  BY <1>1 DEF Within
<1>4. CASE file.owner = p
  <2>1. file'.disk = file.disk /\ file'.owner = Nobody
    BY <1>1, <1>4 DEF Dropped, NewFile
  <2>2. \A s \in Slots : ~Within(calls'[s]) /\ Home[s] # Nobody
    BY <1>1, <1>3, <1>4, SeesTables DEF SerialInv
  <2>3. QED
    BY <1>2, <2>1, <2>2 DEF SerialInv, Within
<1>5. CASE file.owner # p
  <2>1. file' = file
    BY <1>1, <1>5 DEF Dropped
  <2>2. ASSUME NEW s \in Slots
        PROVE  /\ Within(calls'[s]) => file.owner = Home[s]
               /\ file.owner = Home[s] => Owns(calls[s])'
    BY <1>1, <1>3, <1>5, <2>1 DEF SerialInv, Owns
  <2>3. QED
    BY <1>2, <2>1, <2>2 DEF SerialInv, Within
<1>6. QED
  BY <1>4, <1>5
-----------------------------------------------------------------------------
\* What the insertion of a node leaves alone.
LEMMA OnlyNode ==
  ASSUME NEW t, IsTables(t), NEW m \in Ids, Sound(t, m), NEW f, NEW u, u = [t EXCEPT !.nodes = f]
  PROVE  m \notin DOMAIN t.nodes /\ u.nodes = f /\ u.edges = t.edges /\ u.index = t.index
<1>1. u = [nodes |-> f, edges |-> t.edges, index |-> t.index, dead |-> t.dead]
  BY Replaced
<1>2. u.nodes = f /\ u.edges = t.edges /\ u.index = t.index
  BY <1>1
<1>3. \A n \in DOMAIN t.nodes : n \in Nat /\ n < m
  BY KnownAreIds DEF Sound, Known
<1>4. m \notin DOMAIN t.nodes
  BY <1>3, BoundAssumption DEF Ids
<1>5. QED
  BY <1>2, <1>4

LEMMA InsertSerial ==
  ASSUME IndInv, SerialInv, Serial, NEW s \in Slots, Insert(s)
  PROVE  SerialInv'
<1>1. PICK c, t : /\ c = calls[s] /\ c \in Call /\ c.pc = "insert" /\ c.todo = << >>
                  /\ t = Sees(s) /\ IsTables(t) /\ Sound(t, next)
  BY SlotInCall, SeesTables DEF Insert, SerialInv
<1>2. next \in Ids /\ next' = next + 1
  BY DEF Insert
<1>3. PICK f, u : /\ f = [n \in DOMAIN t.nodes \cup {next} |->
                             IF n = next THEN c.new ELSE t.nodes[n]]
                  /\ u = [t EXCEPT !.nodes = f] /\ Execute(s, u)
  BY <1>1 DEF Insert
<1>4. Closed(t, t.edges)
  <2>1. Due(c) = {}
    BY <1>1 DEF Due, Listed
  <2>2. Closed(t, t.edges \cup Due(c))
    BY <1>1, <1>3, BeforeWrite DEF Execute
  <2>3. t.edges \cup {} = t.edges
    OBVIOUS
  <2>4. QED
    BY <2>1, <2>2, <2>3
<1>5. /\ next \notin DOMAIN t.nodes /\ DOMAIN u.nodes = DOMAIN t.nodes \cup {next}
      /\ u.nodes[next] = c.new /\ \A n \in DOMAIN t.nodes : u.nodes[n] = t.nodes[n]
      /\ u.edges = t.edges /\ u.index = t.index
  <2>1. next \notin DOMAIN t.nodes /\ u.nodes = f /\ u.edges = t.edges /\ u.index = t.index
    BY <1>1, <1>2, <1>3, OnlyNode
  <2>2. QED
    BY <1>3, <2>1
<1>6. PICK d : d = [c EXCEPT !.pc = "previous", !.node = next]
  OBVIOUS
<1>7. /\ d.pc = "previous" /\ d.node = next /\ d.todo = << >> /\ d.new = c.new
  BY <1>1, <1>6 DEF Call
<1>8. Closed(u, u.edges \cup Due(d))
  <2>1. Due(d) = {}
    BY <1>7 DEF Due, Listed
  <2>2. Closed(u, t.edges)
    BY <1>4, <1>5, NodeComes
  <2>3. u.edges \cup Due(d) = t.edges
    BY <1>5, <2>1
  <2>4. QED
    BY <2>2, <2>3
<1>9. Midway(d, u, next')
  <2>1. \A e \in t.edges : e[1] = "temporal" => next \notin {e[2], e[3]}
    BY <1>4, <1>5 DEF Closed
  <2>2. QED
    BY <1>2, <1>3, <1>5, <1>7, <2>1 DEF Midway
<1>10. MayOwn(d)
  BY <1>7 DEF MayOwn, Within
<1>11. calls' = [calls EXCEPT ![s] = d]
  BY <1>1, <1>6 DEF Insert, Proceed
<1>12. QED
  BY <1>3, <1>7, <1>8, <1>9, <1>10, <1>11, WriteSerial

LEMMA InsertEdgeSerial ==
  ASSUME IndInv, SerialInv, Serial, NEW s \in Slots, InsertEdge(s)
  PROVE  SerialInv'
<1>1. PICK c, t : /\ c = calls[s] /\ c \in Call /\ c.pc = "edge" /\ c.todo # << >>
                  /\ Carries(c) /\ t = Sees(s) /\ IsTables(t)
  BY SlotInCall, SeesTables DEF InsertEdge, Shape
<1>2. PICK first : first = Head(c.todo)
  OBVIOUS
<1>3. PICK u : u = [t EXCEPT !.edges = @ \cup {first}] /\ Execute(s, u)
  BY <1>1, <1>2 DEF InsertEdge
<1>4. u.nodes = t.nodes /\ u.edges = t.edges \cup {first} /\ u.index = t.index
  <2>1. u = [nodes |-> t.nodes, edges |-> t.edges \cup {first}, index |-> t.index, dead |-> t.dead]
    BY <1>1, <1>3, Replaced
  <2>2. QED
    BY <2>1
<1>5. Closed(t, t.edges \cup Due(c)) /\ (c.job = "write" => c.node \in DOMAIN t.nodes)
  BY <1>1, <1>3, BeforeWrite DEF Execute, Within, Midway
<1>6. PICK d : d = [c EXCEPT !.todo = Tail(c.todo)]
  OBVIOUS
<1>7. /\ d \in Call /\ d.todo = Tail(c.todo) /\ d.job = c.job /\ d.node = c.node /\ Carries(d)
  <2>1. Tail(c.todo) \in Seq(Edge)
    BY <1>1 DEF Call
  <2>2. QED
    BY <1>1, <1>6, <2>1 DEF Call, Carries
<1>8. Due(c) = Due(d) \cup {first}
  <2>1. PICK q : q = c.todo /\ q \in Seq(Edge) /\ q # << >>
    BY <1>1 DEF Call
  <2>2. PICK k : k = Len(q) /\ k \in Nat /\ k >= 1 /\ DOMAIN q = 1 .. k
    BY <2>1
  <2>3. /\ DOMAIN Tail(q) = 1 .. k - 1 /\ \A i \in 1 .. k - 1 : Tail(q)[i] = q[i + 1]
        /\ first = q[1]
    BY <1>2, <2>1, <2>2
  <2>4. \A i \in 1 .. k : i = 1 \/ (i - 1 \in 1 .. k - 1 /\ i - 1 + 1 = i)
    BY <2>2
  <2>5. \A i \in 1 .. k - 1 : i + 1 \in 1 .. k
    BY <2>2
  <2>6. PICK r : r = Tail(q)
    OBVIOUS
  <2>7. ASSUME NEW i \in 1 .. k PROVE q[i] \in {r[j] : j \in 1 .. k - 1} \cup {first}
    <3>1. CASE i = 1
      BY <2>3, <3>1
    <3>2. CASE i # 1
      <4>1. i - 1 \in 1 .. k - 1 /\ r[i - 1] = q[i]
        BY <2>3, <2>4, <2>6, <3>2
      <4>2. QED
        BY <4>1
    <3>3. QED
      BY <3>1, <3>2
  <2>8. ASSUME NEW i \in 1 .. k - 1 PROVE r[i] \in {q[j] : j \in 1 .. k}
    BY <2>3, <2>5, <2>6
  <2>9. first \in {q[i] : i \in 1 .. k}
    BY <2>2, <2>3
  <2>10. {q[i] : i \in 1 .. k} = {r[i] : i \in 1 .. k - 1} \cup {first}
    BY <2>7, <2>8, <2>9
  <2>11. Due(c) = {q[i] : i \in 1 .. k}
    BY <2>1, <2>2 DEF Due, Listed
  <2>12. Due(d) = {r[i] : i \in 1 .. k - 1}
    BY <1>7, <2>1, <2>3, <2>6 DEF Due, Listed
  <2>13. QED
    BY <2>10, <2>11, <2>12
<1>9. PICK e : e = Onward(d)
  OBVIOUS
<1>10. /\ MayOwn(e) /\ Due(e) = Due(d) /\ Midway(e, u, next)
       /\ e.pc # "edge" => e.todo = << >>
  BY <1>4, <1>5, <1>7, <1>9, OnwardSerial
<1>11. Closed(u, u.edges \cup Due(e))
  <2>1. u.edges \cup Due(e) = t.edges \cup Due(c)
    BY <1>4, <1>8, <1>10
  <2>2. QED
    BY <1>4, <1>5, <2>1, SameClosed
<1>12. calls' = [calls EXCEPT ![s] = e] /\ next' = next
  BY <1>1, <1>6, <1>9 DEF InsertEdge, Proceed
<1>13. QED
  BY <1>3, <1>10, <1>11, <1>12, WriteSerial

LEMMA InsertEntitySerial ==
  ASSUME IndInv, SerialInv, Serial, NEW s \in Slots, InsertEntity(s)
  PROVE  SerialInv'
<1>1. PICK c, t : /\ c = calls[s] /\ c \in Call /\ c.pc = "entity" /\ c.job = "write"
                  /\ c.todo = << >> /\ t = Sees(s) /\ IsTables(t)
  BY SlotInCall, SeesTables DEF InsertEntity, Shape, SerialInv
<1>2. PICK x : x = <<NextEntity(c), c.node>>
  OBVIOUS
<1>3. PICK u : u = [t EXCEPT !.index = @ \cup {x}] /\ Execute(s, u)
  BY <1>1, <1>2 DEF InsertEntity
<1>4. u.nodes = t.nodes /\ u.edges = t.edges /\ u.index = t.index \cup {x}
  <2>1. u = [nodes |-> t.nodes, edges |-> t.edges, index |-> t.index \cup {x}, dead |-> t.dead]
    BY <1>1, <1>3, Replaced
  <2>2. QED
    BY <2>1
<1>5. Closed(t, t.edges \cup Due(c)) /\ c.node \in DOMAIN t.nodes
  BY <1>1, <1>3, BeforeWrite DEF Execute, Within, Midway
<1>6. PICK d : d = [c EXCEPT !.pc = "peers"]
  OBVIOUS
<1>7. /\ d.pc = "peers" /\ d.todo = << >> /\ d.node = c.node /\ d.ents = c.ents
  BY <1>1, <1>6 DEF Call
<1>8. NextEntity(d) = NextEntity(c) /\ Due(d) = Due(c)
  BY <1>1, <1>7 DEF NextEntity, Due, Listed
<1>9. Midway(d, u, next) /\ MayOwn(d)
  BY <1>2, <1>4, <1>5, <1>7, <1>8 DEF Midway, MayOwn, Within
<1>10. Closed(u, u.edges \cup Due(d))
  <2>1. x[2] = c.node
    BY <1>2
  <2>2. QED
    BY <1>4, <1>5, <1>8, <2>1, RowComes
<1>11. calls' = [calls EXCEPT ![s] = d] /\ next' = next
  BY <1>1, <1>6 DEF InsertEntity, Proceed
<1>12. QED
  BY <1>3, <1>7, <1>9, <1>10, <1>11, WriteSerial
-----------------------------------------------------------------------------
LEMMA CutEdgesSerial ==
  ASSUME IndInv, SerialInv, Serial, NEW s \in Slots, CutEdges(s)
  PROVE  SerialInv'
<1>1. PICK c, t : /\ c = calls[s] /\ c \in Call /\ c.pc = "cut_edges" /\ c.job = "delete"
                  /\ c.todo = << >> /\ t = Sees(s) /\ IsTables(t)
  BY SlotInCall, SeesTables DEF CutEdges, Shape, SerialInv
<1>2. PICK left : left = {e \in t.edges : c.node \notin {e[2], e[3]}}
  OBVIOUS
<1>3. PICK u : u = [t EXCEPT !.edges = left] /\ Execute(s, u)
  BY <1>1, <1>2 DEF CutEdges
<1>4. u.nodes = t.nodes /\ u.edges = left /\ u.index = t.index
  <2>1. u = [nodes |-> t.nodes, edges |-> left, index |-> t.index, dead |-> t.dead]
    BY <1>1, <1>3, Replaced
  <2>2. QED
    BY <2>1
<1>5. PICK d : d = [c EXCEPT !.pc = "cut_index"]
  OBVIOUS
<1>6. d.pc = "cut_index" /\ d.todo = << >> /\ d.node = c.node /\ d.job = "delete"
  BY <1>1, <1>5 DEF Call
<1>7. Due(c) = {} /\ Due(d) = {}
  BY <1>1, <1>6 DEF Due, Listed
<1>8. Closed(t, t.edges)
  <2>1. Closed(t, t.edges \cup Due(c)) /\ t.edges \cup {} = t.edges
    BY <1>1, <1>3, BeforeWrite DEF Execute
  <2>2. QED
    BY <1>7, <2>1
<1>9. Closed(u, u.edges \cup Due(d))
  <2>1. Closed(u, u.edges) /\ u.edges \cup {} = u.edges
    BY <1>2, <1>4, <1>8, EdgesGo
  <2>2. QED
    BY <1>7, <2>1
<1>10. Midway(d, u, next) /\ MayOwn(d)
  BY <1>2, <1>4, <1>6 DEF Midway, MayOwn, Within
<1>11. calls' = [calls EXCEPT ![s] = d] /\ next' = next
  BY <1>1, <1>5 DEF CutEdges, Proceed
<1>12. QED
  BY <1>3, <1>6, <1>9, <1>10, <1>11, WriteSerial

LEMMA CutIndexSerial ==
  ASSUME IndInv, SerialInv, Serial, NEW s \in Slots, CutIndex(s)
  PROVE  SerialInv'
<1>1. PICK c, t : /\ c = calls[s] /\ c \in Call /\ c.pc = "cut_index" /\ c.job = "delete"
                  /\ c.todo = << >> /\ t = Sees(s) /\ IsTables(t)
  BY SlotInCall, SeesTables DEF CutIndex, Shape, SerialInv
<1>2. PICK left : left = {x \in t.index : x[2] # c.node}
  OBVIOUS
<1>3. PICK u : u = [t EXCEPT !.index = left] /\ Execute(s, u)
  BY <1>1, <1>2 DEF CutIndex
<1>4. u.nodes = t.nodes /\ u.edges = t.edges /\ u.index = left
  <2>1. u = [nodes |-> t.nodes, edges |-> t.edges, index |-> left, dead |-> t.dead]
    BY <1>1, <1>3, Replaced
  <2>2. QED
    BY <2>1
<1>5. PICK d : d = [c EXCEPT !.pc = "cut_node"]
  OBVIOUS
<1>6. d.pc = "cut_node" /\ d.todo = << >> /\ d.node = c.node /\ d.job = "delete"
  BY <1>1, <1>5 DEF Call
<1>7. Due(c) = {} /\ Due(d) = {}
  BY <1>1, <1>6 DEF Due, Listed
<1>8. Closed(t, t.edges) /\ \A e \in t.edges : c.node \notin {e[2], e[3]}
  <2>1. /\ Closed(t, t.edges \cup Due(c)) /\ t.edges \cup {} = t.edges
        /\ Midway(c, t, next)
    BY <1>1, <1>3, BeforeWrite DEF Execute, Within
  <2>2. QED
    BY <1>1, <1>7, <2>1 DEF Midway
<1>9. Closed(u, u.edges \cup Due(d))
  <2>1. Closed(u, u.edges) /\ u.edges \cup {} = u.edges
    BY <1>2, <1>4, <1>8, RowsGo
  <2>2. QED
    BY <1>7, <2>1
<1>10. Midway(d, u, next) /\ MayOwn(d)
  BY <1>2, <1>4, <1>6, <1>8 DEF Midway, MayOwn, Within
<1>11. calls' = [calls EXCEPT ![s] = d] /\ next' = next
  BY <1>1, <1>5 DEF CutIndex, Proceed
<1>12. QED
  BY <1>3, <1>6, <1>9, <1>10, <1>11, WriteSerial

LEMMA CutNodeSerial ==
  ASSUME IndInv, SerialInv, Serial, NEW s \in Slots, CutNode(s)
  PROVE  SerialInv'
<1>1. PICK c, t : /\ c = calls[s] /\ c \in Call /\ c.pc = "cut_node" /\ c.job = "delete"
                  /\ c.todo = << >> /\ t = Sees(s) /\ IsTables(t)
  BY SlotInCall, SeesTables DEF CutNode, Shape, SerialInv
<1>2. PICK left, gone : /\ left = [m \in DOMAIN t.nodes \ {c.node} |-> t.nodes[m]]
                        /\ gone = t.dead \cup {c.node}
  OBVIOUS
<1>3. PICK u : u = [t EXCEPT !.nodes = left, !.dead = gone] /\ Execute(s, u)
  BY <1>1, <1>2 DEF CutNode
<1>4. u.nodes = left /\ u.edges = t.edges /\ u.index = t.index
  <2>1. IsTables(t) /\ u = [t EXCEPT !.nodes = left, !.dead = gone]
    BY <1>1, <1>3
  <2>2. u = [nodes |-> left, edges |-> t.edges, index |-> t.index, dead |-> gone]
    BY <2>1, ReplacedTwo
  <2>3. QED
    BY <2>2
<1>5. PICK d : d = [c EXCEPT !.pc = "commit"]
  OBVIOUS
<1>6. d.pc = "commit" /\ d.todo = << >> /\ d.job = "delete"
  BY <1>1, <1>5 DEF Call
<1>7. Due(c) = {} /\ Due(d) = {}
  BY <1>1, <1>6 DEF Due, Listed
<1>8. /\ Closed(t, t.edges) /\ \A e \in t.edges : c.node \notin {e[2], e[3]}
      /\ \A x \in t.index : x[2] # c.node
  <2>1. /\ Closed(t, t.edges \cup Due(c)) /\ t.edges \cup {} = t.edges
        /\ Midway(c, t, next)
    BY <1>1, <1>3, BeforeWrite DEF Execute, Within
  <2>2. QED
    BY <1>1, <1>7, <2>1 DEF Midway
<1>9. Closed(u, u.edges \cup Due(d))
  <2>1. DOMAIN u.nodes = DOMAIN t.nodes \ {c.node} /\ \A m \in DOMAIN u.nodes : u.nodes[m] = t.nodes[m]
    BY <1>2, <1>4
  <2>2. Closed(u, u.edges) /\ u.edges \cup {} = u.edges
    BY <1>4, <1>8, <2>1, NodeGoes
  <2>3. QED
    BY <1>7, <2>2
<1>10. Midway(d, u, next) /\ MayOwn(d)
  BY <1>6 DEF Midway, MayOwn, Within
<1>11. calls' = [calls EXCEPT ![s] = d] /\ next' = next
  BY <1>1, <1>5 DEF CutNode, Proceed
<1>12. QED
  BY <1>3, <1>6, <1>9, <1>10, <1>11, WriteSerial
-----------------------------------------------------------------------------
\* The open transaction of a call within it.
LEMMA InTransaction ==
  ASSUME IndInv, SerialInv, NEW s \in Slots, Within(calls[s]), calls[s].pc # "idle",
         calls[s].todo = << >>
  PROVE  /\ file.owner = Home[s] /\ Sees(s) = file.work
         /\ Midway(calls[s], file.work, next) /\ Closed(file.work, file.work.edges)
<1>1. file.owner = Home[s] /\ Owns(calls[s])
  BY DEF SerialInv
<1>2. Due(calls[s]) = {}
  BY DEF Due, Listed
<1>3. file.work.edges \cup {} = file.work.edges
  OBVIOUS
<1>4. QED
  BY <1>1, <1>2, <1>3 DEF Owns, Sees, Seen

LEMMA SeqOfGiven ==
  ASSUME NEW q \in Seq(Given)
  PROVE  q \in Seq(Ids) /\ \A S : \A i \in DOMAIN q : q[i] \in S \cup Given
<1>1. \A i \in 1 .. Len(q) : q[i] \in Given
  OBVIOUS
<1>2. Given \subseteq Ids
  BY GivenAssumption DEF Ids
<1>3. QED
  BY <1>1, <1>2

\* The edges that write() prepares once it knows the previous node of the level.
Prepared(n, p, parent, links) ==
  Pairs("temporal", n, p) \o Pairs("causal", n, parent) \o Pairs("semantic", n, links)

LEMMA PreparedEdges ==
  ASSUME NEW t, NEW n \in Ids, n \in Known(t), NEW p \in Seq(Ids),
         \A i \in DOMAIN p : p[i] \in Known(t),
         NEW parent \in Seq(Given), NEW links \in Seq(Given), NEW q,
         q = Prepared(n, p, parent, links)
  PROVE  /\ q \in Seq(Edge)
         /\ Listed(q) = Both("temporal", n, Listed(p))
                          \cup Both("causal", n, Listed(parent))
                          \cup Both("semantic", n, Listed(links))
<1>1. /\ parent \in Seq(Ids) /\ \A i \in DOMAIN parent : parent[i] \in Known(t) \cup Given
      /\ links \in Seq(Ids) /\ \A i \in DOMAIN links : links[i] \in Known(t) \cup Given
  BY SeqOfGiven
<1>3. PICK a, b, c : a = Pairs("temporal", n, p) /\ b = Pairs("causal", n, parent)
                     /\ c = Pairs("semantic", n, links)
  OBVIOUS
<1>4. {"temporal", "causal", "semantic"} \subseteq Kinds
  BY DEF Kinds
<1>5. a \in Seq(Edge)
  BY <1>3, <1>4, PairsEnds
<1>6. b \in Seq(Edge)
  BY <1>1, <1>3, <1>4, PairsEnds
<1>7. c \in Seq(Edge)
  BY <1>1, <1>3, <1>4, PairsEnds
<1>8. PICK r : r = a \o b
  OBVIOUS
<1>9. r \in Seq(Edge)
  BY <1>5, <1>6, <1>8
<1>10. q = r \o c /\ q \in Seq(Edge) /\ Listed(q) = Listed(r) \cup Listed(c)
  <2>1. q = r \o c
    BY <1>3, <1>8 DEF Prepared
  <2>2. r \o c \in Seq(Edge)
    BY <1>7, <1>9
  <2>3. Listed(r \o c) = Listed(r) \cup Listed(c)
    BY <1>7, <1>9, EdgesOfBoth
  <2>4. QED
    BY <2>1, <2>2, <2>3
<1>11. Listed(r) = Listed(a) \cup Listed(b)
  BY <1>5, <1>6, <1>8, EdgesOfBoth
<1>12. Listed(a) = Both("temporal", n, Listed(p))
  BY <1>3, PairsAreBoth
<1>13. Listed(b) = Both("causal", n, Listed(parent))
  BY <1>1, <1>3, PairsAreBoth
<1>14. Listed(c) = Both("semantic", n, Listed(links))
  BY <1>1, <1>3, PairsAreBoth
<1>15. Listed(q)
         = Both("temporal", n, Listed(p))
             \cup Both("causal", n, Listed(parent))
             \cup Both("semantic", n, Listed(links))
  BY <1>10, <1>11, <1>12, <1>13, <1>14
<1>16. QED
  BY <1>10, <1>15

LEMMA PreviousSerial ==
  ASSUME IndInv, SerialInv, Serial, NEW s \in Slots, Previous(s)
  PROVE  SerialInv'
<1>1. PICK c, t : /\ c = calls[s] /\ c \in Call /\ c.pc = "previous" /\ c.job = "write"
                  /\ c.todo = << >> /\ Carries(c) /\ t = file.work
  BY SlotInCall DEF Previous, Shape, SerialInv
<1>2. Within(c)
  BY <1>1 DEF Within
<1>3. /\ file.owner = Home[s] /\ Sees(s) = t /\ Midway(c, t, next) /\ Closed(t, t.edges)
      /\ IsTables(t) /\ Sound(t, next)
  BY <1>1, <1>2, InTransaction, SeesTables
<1>4. PICK p, q : /\ p = << >> \/ \E n \in Candidates(s) : p = <<n>>
                  /\ q = Prepared(c.node, p, c.parent, c.links)
                  /\ Proceed(s, Onward([c EXCEPT !.todo = q]))
  BY <1>1 DEF Previous, Prepared
<1>5. PICK O : O = Listed(p)
  OBVIOUS
<1>6. /\ c.node \in DOMAIN t.nodes /\ next = c.node + 1 /\ t.nodes[c.node].level = c.new.level
      /\ \A e \in t.edges : e[1] = "temporal" => c.node \notin {e[2], e[3]}
  BY <1>1, <1>3 DEF Midway
<1>7. c.node \in Ids /\ c.node \in Nat /\ c.node \in Known(t)
  BY <1>3, <1>6, KnownAreIds DEF Known
<1>8. /\ p \in Seq(Ids) /\ \A i \in DOMAIN p : p[i] \in Known(t)
      /\ \A o \in O : /\ o \in DOMAIN t.nodes /\ o \in Nat /\ o < c.node
                      /\ t.nodes[o].level = t.nodes[c.node].level
                      /\ \A r \in O : o = r
  <2>1. CASE p = << >>
    BY <1>5, <2>1 DEF Listed
  <2>2. ASSUME NEW n \in Candidates(s), p = <<n>>
        PROVE  /\ p \in Seq(Ids) /\ \A i \in DOMAIN p : p[i] \in Known(t)
               /\ \A o \in O : /\ o \in DOMAIN t.nodes /\ o \in Nat /\ o < c.node
                               /\ t.nodes[o].level = t.nodes[c.node].level
                               /\ \A r \in O : o = r
    <3>1. n \in DOMAIN t.nodes /\ n # c.node /\ t.nodes[n].level = c.new.level
      BY <1>1, <1>3 DEF Candidates
    <3>2. n \in Known(t) /\ n \in Ids /\ n \in Nat /\ n < next
      BY <1>3, <3>1, KnownAreIds DEF Known, Sound
    <3>3. n < c.node
      BY <1>6, <1>7, <3>1, <3>2
    <3>4. DOMAIN p = {1} /\ p[1] = n /\ p \in Seq(Ids)
      BY <2>2, <3>2
    <3>5. O = {n}
      BY <1>5, <3>4 DEF Listed
    <3>6. QED
      BY <1>6, <3>1, <3>2, <3>3, <3>4, <3>5
  <2>3. QED
    BY <1>4, <2>1, <2>2
<1>9. c.parent \in Seq(Given) /\ c.links \in Seq(Given)
  BY <1>1 DEF Carries
<1>10. /\ q \in Seq(Edge)
       /\ Listed(q) = Both("temporal", c.node, O)
                        \cup Both("causal", c.node, Listed(c.parent))
                        \cup Both("semantic", c.node, Listed(c.links))
  <2>1. PICK n, parent, links : n = c.node /\ parent = c.parent /\ links = c.links
    OBVIOUS
  <2>2. q = Prepared(n, p, parent, links)
    BY <1>4, <2>1
  <2>3. n \in Ids /\ n \in Known(t) /\ parent \in Seq(Given) /\ links \in Seq(Given)
    BY <1>7, <1>9, <2>1
  <2>4. /\ q \in Seq(Edge)
        /\ Listed(q) = Both("temporal", n, Listed(p)) \cup Both("causal", n, Listed(parent))
                         \cup Both("semantic", n, Listed(links))
    BY <1>8, <2>2, <2>3, PreparedEdges
  <2>5. QED
    BY <1>5, <2>1, <2>4
<1>11. Closed(t, t.edges \cup Listed(q))
  <2> DEFINE P == Listed(c.parent)
             L == Listed(c.links)
  <2>1. PICK A : A = t.edges \cup Both("temporal", c.node, O)
    OBVIOUS
  <2>2. Closed(t, A)
    BY <1>3, <1>6, <1>7, <1>8, <2>1, TemporalEdges
  <2>3. Closed(t, A \cup Both("causal", c.node, P))
    BY <1>6, <2>2, EdgesOfClients
  <2>4. Closed(t, A \cup Both("causal", c.node, P) \cup Both("semantic", c.node, L))
    BY <1>6, <2>3, EdgesOfClients
  <2>5. t.edges \cup Listed(q)
          = A \cup Both("causal", c.node, P) \cup Both("semantic", c.node, L)
    BY <1>10, <2>1
  <2>6. QED
    BY <2>4, <2>5
<1>12. PICK d : d = [c EXCEPT !.todo = q]
  OBVIOUS
<1>13. d \in Call /\ d.todo = q /\ d.job = c.job /\ d.node = c.node /\ Carries(d)
  BY <1>1, <1>10, <1>12 DEF Call, Carries
<1>14. PICK e : e = Onward(d)
  OBVIOUS
<1>15. /\ MayOwn(e) /\ Due(e) = Listed(q) /\ Midway(e, t, next)
       /\ e.pc # "edge" => e.todo = << >>
  BY <1>6, <1>13, <1>14, OnwardSerial DEF Due
<1>16. calls' = [calls EXCEPT ![s] = e] /\ UNCHANGED <<file, next>>
  BY <1>4, <1>12, <1>14 DEF Previous, Proceed
<1>17. Owns(e)
  BY <1>1, <1>11, <1>15 DEF Owns
<1>18. QED
  BY <1>3, <1>15, <1>16, <1>17, ReadSerial

LEMMA PeersSerial ==
  ASSUME IndInv, SerialInv, Serial, NEW s \in Slots, Peers(s)
  PROVE  SerialInv'
<1>1. PICK c, t : /\ c = calls[s] /\ c \in Call /\ c.pc = "peers" /\ c.job = "write"
                  /\ c.todo = << >> /\ c.ents # {} /\ Carries(c) /\ t = file.work
  BY SlotInCall DEF Peers, Shape, SerialInv
<1>2. Within(c)
  BY <1>1 DEF Within
<1>3. /\ file.owner = Home[s] /\ Sees(s) = t /\ Midway(c, t, next) /\ Closed(t, t.edges)
      /\ IsTables(t)
  BY <1>1, <1>2, InTransaction, SeesTables
<1>4. PICK x : x = NextEntity(c)
  OBVIOUS
<1>5. x \in Entities
  BY <1>1, <1>4 DEF NextEntity, Call
<1>6. <<x, c.node>> \in t.index /\ c.node \in DOMAIN t.nodes
  BY <1>1, <1>3, <1>4 DEF Midway
<1>7. PICK p \in Listings(OthersOf(s, x)) :
        Proceed(s, Onward([c EXCEPT !.ents = @ \ {x}, !.todo = Pairs("entity", c.node, p)]))
  BY <1>1, <1>4 DEF Peers
<1>8. p \in Seq(Ids) /\ \A o \in Listed(p) : <<x, o>> \in t.index
  <2>1. OthersOf(s, x) \subseteq Ids
    BY DEF OthersOf
  <2>2. p \in Seq(Ids) /\ \A i \in DOMAIN p : p[i] \in OthersOf(s, x)
    BY <2>1, ListingsTyped
  <2>3. QED
    BY <1>3, <2>2 DEF Listed, OthersOf
<1>9. PICK q : q = Pairs("entity", c.node, p)
  OBVIOUS
<1>10. q \in Seq(Edge) /\ Listed(q) = Both("entity", c.node, Listed(p))
  <2>1. c.node \in Known(t) /\ c.node \in Ids
    BY <1>3, <1>6, KnownAreIds DEF Known
  <2>2. \A i \in DOMAIN p : p[i] \in Ids
    BY <1>8
  <2>3. "entity" \in Kinds
    BY DEF Kinds
  <2>4. q \in Seq(Edge)
    BY <1>8, <1>9, <2>1, <2>2, <2>3, PairsTyped
  <2>5. QED
    BY <1>8, <1>9, <2>4, PairsAreBoth
<1>11. Closed(t, t.edges \cup Listed(q))
  BY <1>3, <1>5, <1>6, <1>8, <1>10, EntityEdges
<1>12. PICK d : d = [c EXCEPT !.ents = @ \ {x}, !.todo = q]
  OBVIOUS
<1>13. d \in Call /\ d.todo = q /\ d.job = c.job /\ d.node = c.node /\ Carries(d)
  BY <1>1, <1>10, <1>12 DEF Call, Carries
<1>14. PICK e : e = Onward(d)
  OBVIOUS
<1>15. /\ MayOwn(e) /\ Due(e) = Listed(q) /\ Midway(e, t, next)
       /\ e.pc # "edge" => e.todo = << >>
  BY <1>6, <1>13, <1>14, OnwardSerial DEF Due
<1>16. calls' = [calls EXCEPT ![s] = e] /\ UNCHANGED <<file, next>>
  BY <1>7, <1>9, <1>12, <1>14 DEF Peers, Proceed
<1>17. Owns(e)
  BY <1>1, <1>11, <1>15 DEF Owns
<1>18. QED
  BY <1>3, <1>15, <1>16, <1>17, ReadSerial

LEMMA PromoteSerial ==
  ASSUME IndInv, SerialInv, Serial, NEW s \in Slots, Promote(s)
  PROVE  SerialInv'
<1>1. PICK c, t : /\ c = calls[s] /\ c \in Call /\ c.pc = "promote" /\ c.job = "consolidate"
                  /\ c.todo = << >> /\ c.rows # {} /\ c.rows \subseteq Known(t) /\ Carries(c)
                  /\ t = Sees(s) /\ IsTables(t) /\ Sound(t, next)
  BY SlotInCall, SeesTables DEF Promote, Shape, SerialInv, Informed
<1>2. next \in Ids /\ next' = next + 1
  BY DEF Promote
<1>3. PICK f, u, r : /\ r = CHOOSE x \in c.rows : \A q \in c.rows : x <= q
                     /\ f = [n \in DOMAIN t.nodes \cup {next} |->
                               IF n = next THEN NodeOf(Semantic, TRUE, TRUE) ELSE t.nodes[n]]
                     /\ u = [t EXCEPT !.nodes = f] /\ Execute(s, u)
  BY <1>1 DEF Promote
<1>4. r \in c.rows /\ r \in Ids
  <2>1. c.rows \subseteq Nat /\ c.rows \subseteq Ids
    BY <1>1, KnownAreIds
  <2>2. \E q \in c.rows : \A x \in c.rows : q <= x
    BY <1>1, <2>1, LeastId
  <2>3. QED
    BY <1>3, <2>1, <2>2
<1>5. next \notin DOMAIN t.nodes /\ u.nodes = f /\ u.edges = t.edges /\ u.index = t.index
  <2>1. u = [t EXCEPT !.nodes = f]
    BY <1>3
  <2>2. IsTables(t) /\ Sound(t, next) /\ next \in Ids
    BY <1>1, <1>2
  <2>3. QED
    BY <2>1, <2>2, OnlyNode
<1>6. Closed(t, t.edges)
  <2>1. Due(c) = {}
    BY <1>1 DEF Due, Listed
  <2>2. Closed(t, t.edges \cup Due(c)) /\ t.edges \cup {} = t.edges
    BY <1>1, <1>3, BeforeWrite DEF Execute
  <2>3. QED
    BY <2>1, <2>2
<1>7. PICK q : q = <<<<"semantic", next, r>>, <<"causal", next, r>>>>
  OBVIOUS
<1>8. q \in Seq(Edge) /\ Listed(q) = {<<"semantic", next, r>>, <<"causal", next, r>>}
  <2>1. <<"semantic", next, r>> \in Edge /\ <<"causal", next, r>> \in Edge
    BY <1>2, <1>4 DEF Edge, Kinds
  <2>2. DOMAIN q = {1, 2}
    BY <1>7
  <2>3. QED
    BY <1>7, <2>1, <2>2 DEF Listed
<1>9. Closed(u, u.edges \cup Listed(q))
  <2>1. DOMAIN u.nodes = DOMAIN t.nodes \cup {next} /\ \A n \in DOMAIN t.nodes : u.nodes[n] = t.nodes[n]
    BY <1>3, <1>5
  <2>2. Closed(u, t.edges)
    BY <1>5, <1>6, <2>1, NodeComes
  <2>3. next \in DOMAIN u.nodes /\ u.nodes[next].summary
    BY <1>3, <1>5 DEF NodeOf
  <2>4. QED
    BY <1>5, <1>8, <2>2, <2>3, SummaryEdges
<1>10. PICK d : d = [c EXCEPT !.node = next, !.rows = @ \ {r}, !.todo = q]
  OBVIOUS
<1>11. d \in Call /\ d.todo = q /\ d.job = "consolidate" /\ Carries(d)
  BY <1>1, <1>2, <1>8, <1>10 DEF Call, Carries
<1>12. PICK e : e = Onward(d)
  OBVIOUS
<1>13. /\ MayOwn(e) /\ Due(e) = Listed(q) /\ Midway(e, u, next')
       /\ e.pc # "edge" => e.todo = << >>
  BY <1>11, <1>12, OnwardSerial DEF Due
<1>14. calls' = [calls EXCEPT ![s] = e]
  BY <1>1, <1>3, <1>7, <1>10, <1>12 DEF Promote, Proceed
<1>15. QED
  BY <1>3, <1>9, <1>13, <1>14, WriteSerial
-----------------------------------------------------------------------------
LEMMA InitSerial == Init => SerialInv
<1> SUFFICES ASSUME Init PROVE SerialInv
  OBVIOUS
<1>1. file.disk = NoTables /\ file.owner = Nobody
  BY DEF Init, NewFile
<1>2. Closed(NoTables, NoTables.edges)
  BY DEF NoTables, Closed
<1>3. \A s \in Slots : calls[s].pc = "idle" /\ ~Within(calls[s])
  BY DEF Init, Idle, Within
<1>4. \A s \in Slots : Home[s] # Nobody
  BY HomeAssumption
<1>5. QED
  BY <1>1, <1>2, <1>3, <1>4 DEF SerialInv

LEMMA StepSerial == Serial /\ IndInv /\ SerialInv /\ [Next]_vars => SerialInv'
<1> SUFFICES ASSUME Serial, IndInv, SerialInv, [Next]_vars PROVE SerialInv'
  OBVIOUS
<1>1. ASSUME NEW s \in Slots, Write(s) PROVE SerialInv'
  BY <1>1, BeginsSerial, InsertSerial, PreviousSerial, InsertEntitySerial, PeersSerial DEF Write
<1>2. ASSUME NEW s \in Slots, Consolidate(s) PROVE SerialInv'
  BY <1>2, BeginsSerial, RowsSerial, PromoteSerial DEF Consolidate
<1>3. ASSUME NEW s \in Slots, Delete(s) PROVE SerialInv'
  BY <1>3, BeginsSerial, FindSerial, CutEdgesSerial, CutIndexSerial, CutNodeSerial DEF Delete
<1>4. ASSUME NEW s \in Slots, InsertEdge(s) \/ Commit(s) \/ Raise(s) PROVE SerialInv'
  BY <1>4, InsertEdgeSerial, CommitSerial, RaiseSerial
<1>5. ASSUME NEW p \in Procs, Crash(p) PROVE SerialInv'
  BY <1>5, CrashSerial
<1>6. CASE UNCHANGED vars
  BY <1>6 DEF vars, SerialInv, Owns
<1>7. QED
  BY <1>1, <1>2, <1>3, <1>4, <1>5, <1>6 DEF Next

\* Calls one after the other keep what is committed closed.
LEMMA AlwaysSerial ==
  ASSUME Serial
  PROVE  Spec => []Closed(Disk, Disk.edges)
<1>1. Init => IndInv /\ SerialInv
  BY InitIndInv, InitSerial
<1>2. IndInv /\ SerialInv /\ [Next]_vars => (IndInv /\ SerialInv)'
  BY StepIndInv, StepSerial
<1>3. SerialInv => Closed(Disk, Disk.edges)
  BY DEF SerialInv, Disk
<1>4. QED
  BY <1>1, <1>2, <1>3, PTL DEF Spec
-----------------------------------------------------------------------------
\* If the calls of each process come one after the other, no crash, no lock timeout
\* and no other process makes a temporal or entity edge or an index row dangle.
THEOREM OnlyExpectedEdgesDangle ==
  ASSUME Serial
  PROVE  Spec => []OnlyGivenAndSourcesDangle
<1>1. Closed(Disk, Disk.edges) => OnlyGivenAndSourcesDangle
  BY DEF Closed, OnlyGivenAndSourcesDangle, Stored
<1>2. QED
  BY <1>1, AlwaysSerial, PTL

\* In that setting neighbours see each other, but for a summary and its source.
THEOREM NeighboursStayMutual ==
  ASSUME Serial
  PROVE  Spec => []NeighboursAreMutual
<1>1. Closed(Disk, Disk.edges) => NeighboursAreMutual
  BY DEF Closed, NeighboursAreMutual
<1>2. QED
  BY <1>1, AlwaysSerial, PTL

\* In that setting nodes joined in the entity graph share an entity of the index,
\* although delete() takes rows and edges in different statements.
THEOREM EntityEdgesStayIndexed ==
  ASSUME Serial
  PROVE  Spec => []EntityEdgesAreIndexed
<1>1. Closed(Disk, Disk.edges) => EntityEdgesAreIndexed
  BY DEF Closed, EntityEdgesAreIndexed
<1>2. QED
  BY <1>1, AlwaysSerial, PTL

\* In that setting the temporal graph of a level is a forest: write() joins the new
\* node to one older node and nothing joins two old ones.
THEOREM TemporalGraphStaysAForest ==
  ASSUME Serial
  PROVE  Spec => []TemporalGraphIsAForest
<1>1. Closed(Disk, Disk.edges) => TemporalGraphIsAForest
  BY DEF Closed, TemporalGraphIsAForest
<1>2. QED
  BY <1>1, AlwaysSerial, PTL
=============================================================================
