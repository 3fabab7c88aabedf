-------------------------- MODULE ConnectionProofs --------------------------
(***************************************************************************)
(* The cached connection of a component: proofs of UsedInItsLoop,          *)
(* OneWorker, ScriptIsOver and ScriptRunsOnOpen for any number of          *)
(* coroutines, connections, event loops and errors.                        *)
(***************************************************************************)
EXTENDS Connection, FiniteSetTheorems, TLAPS

Holding == {"connect", "script", "closing"}     \* where a slot holds the lock
\* The end of the schema script, in the table of connections.
WithSchema(c, v) == [conns EXCEPT ![c].schema = v]

Alive == {c \in DOMAIN conns : conns[c].alive}

\* Who connects, runs the script or closes holds the lock of this loop; so there
\* is one such slot at most.
LockIsHeld ==
  \A s \in Slots : pcs[s] \in Holding => lock = [loop |-> loop, holder |-> s]

\* Coroutines end with their loop.
NobodyWithoutLoop == ~running => \A s \in Slots : pcs[s] = "idle" /\ held[s] = 0

\* The cached connection was made in the loop noted with it, and its schema
\* script is over unless a slot is still running it.
CacheIsBound ==
  db # 0 => /\ conns[db].loop = bound
            /\ conns[db].schema = "absent" => \E s \in Slots : pcs[s] = "script" /\ held[s] = db

\* Who connects or closes has emptied the cache; who runs the script has filled it.
HolderKnowsCache ==
  \A s \in Slots :
    /\ pcs[s] \in {"connect", "closing"} => db = 0
    /\ pcs[s] = "script" => db # 0 /\ db = held[s] /\ bound = loop /\ conns[db].alive
    /\ pcs[s] = "closing" => held[s] # 0

\* A worker runs only for the cached connection and for one being closed.
WorkersAreKnown == Alive \subseteq {db} \cup {held[s] : s \in {r \in Slots : pcs[r] = "closing"}}

\* A connection in a slot's hands has had its script, unless the slot runs it: one
\* that asks again, or closes, may still hold the one it was given before.
HeldIsReady ==
  \A s \in Slots : held[s] # 0 /\ pcs[s] # "script" => conns[held[s]].schema # "absent"

IndInv == /\ TypeOK
          /\ LockIsHeld
          /\ NobodyWithoutLoop
          /\ CacheIsBound
          /\ HolderKnowsCache
          /\ WorkersAreKnown
          /\ UsedInItsLoop
          /\ HeldIsReady
-----------------------------------------------------------------------------
\* Stopping a worker changes whether it runs, and nothing else.
LEMMA StopTyped ==
  ASSUME conns \in Seq(Conn), NEW c \in DOMAIN conns
  PROVE  /\ Stopped(c) \in Seq(Conn) /\ Len(Stopped(c)) = Len(conns)
         /\ DOMAIN Stopped(c) = DOMAIN conns
         /\ \A e \in DOMAIN conns : /\ Stopped(c)[e].loop = conns[e].loop
                                  /\ Stopped(c)[e].schema = conns[e].schema
                                  /\ Stopped(c)[e].alive = (e # c /\ conns[e].alive)
<1>1. /\ DOMAIN Stopped(c) = DOMAIN conns
      /\ \A e \in DOMAIN conns :
           Stopped(c)[e] = IF e = c THEN [conns[e] EXCEPT !.alive = FALSE] ELSE conns[e]
  BY DEF Stopped
<1>2. \A e \in DOMAIN conns : conns[e] \in Conn
  OBVIOUS
<1>3. \A e \in DOMAIN conns : Stopped(c)[e] \in Conn
  BY <1>1, <1>2 DEF Conn
<1>4. Stopped(c) \in Seq(Conn) /\ Len(Stopped(c)) = Len(conns)
  BY <1>1, <1>3 DEF Stopped
<1>5. QED
  BY <1>1, <1>2, <1>4 DEF Conn

\* So does the end of the schema script, with the schema.
LEMMA SchemaTyped ==
  ASSUME conns \in Seq(Conn), NEW c \in DOMAIN conns, NEW v \in {"there", "failed"}
  PROVE  /\ WithSchema(c, v) \in Seq(Conn) /\ Len(WithSchema(c, v)) = Len(conns)
         /\ DOMAIN WithSchema(c, v) = DOMAIN conns
         /\ \A e \in DOMAIN conns : /\ WithSchema(c, v)[e].loop = conns[e].loop
                                  /\ WithSchema(c, v)[e].alive = conns[e].alive
                                  /\ WithSchema(c, v)[e].schema = IF e = c THEN v ELSE conns[e].schema
<1>1. /\ DOMAIN WithSchema(c, v) = DOMAIN conns
      /\ \A e \in DOMAIN conns :
           WithSchema(c, v)[e] = IF e = c THEN [conns[e] EXCEPT !.schema = v] ELSE conns[e]
  BY DEF WithSchema
<1>2. \A e \in DOMAIN conns : conns[e] \in Conn
  OBVIOUS
<1>3. \A e \in DOMAIN conns : WithSchema(c, v)[e] \in Conn
  BY <1>1, <1>2 DEF Conn
<1>4. WithSchema(c, v) \in Seq(Conn) /\ Len(WithSchema(c, v)) = Len(conns)
  BY <1>1, <1>3 DEF WithSchema
<1>5. QED
  BY <1>1, <1>2, <1>4 DEF Conn

\* Where the lock can be taken, nobody is in the part it guards.
LEMMA AvailableMeansNobody ==
  ASSUME TypeOK, LockIsHeld, Available
  PROVE  \A s \in Slots : pcs[s] \notin Holding
BY ConnAssumption DEF TypeOK, LockIsHeld, Available

\* Who is in the part that the lock guards is there alone.
LEMMA HolderIsAlone ==
  ASSUME TypeOK, LockIsHeld, NEW s \in Slots, pcs[s] \in Holding
  PROVE  \A r \in Slots \ {s} : pcs[r] \notin Holding
BY DEF TypeOK, LockIsHeld

\* Releasing the lock leaves a lock.
LEMMA UnlockTyped ==
  ASSUME TypeOK, lock' = [lock EXCEPT !.holder = Free]
  PROVE  lock' \in [loop : 0 .. MaxLoops, holder : Slots \cup {Free}]
BY DEF TypeOK

\* A connection in somebody's hands was made.
LEMMA HeldWasMade ==
  ASSUME TypeOK, NEW s \in Slots, held[s] # 0
  PROVE  held[s] \in DOMAIN conns
BY DEF TypeOK

LEMMA InitIndInv == Init => IndInv
BY ConnAssumption DEF Init, IndInv, TypeOK, Conn, LockIsHeld, NobodyWithoutLoop, CacheIsBound,
   HolderKnowsCache, WorkersAreKnown, Alive, UsedInItsLoop, HeldIsReady, Holding

\* Every step of every coroutine, and every end and start of a loop, keeps the
\* invariant.
LEMMA StepIndInv == IndInv /\ [Next]_vars => IndInv'
<1> SUFFICES ASSUME IndInv, [Next]_vars PROVE IndInv'
  OBVIOUS
<1> USE ConnAssumption
<1>0. /\ TypeOK /\ LockIsHeld /\ NobodyWithoutLoop /\ CacheIsBound /\ HolderKnowsCache
      /\ WorkersAreKnown /\ UsedInItsLoop /\ HeldIsReady
  BY DEF IndInv
<1>1. ASSUME NEW s \in Slots, Begin(s) PROVE IndInv'
  BY <1>0, <1>1 DEF Begin, Goto, loopVars, IndInv, TypeOK, LockIsHeld, NobodyWithoutLoop,
     CacheIsBound, HolderKnowsCache, WorkersAreKnown, Alive, UsedInItsLoop, HeldIsReady,
     Holding
<1>2. ASSUME NEW s \in Slots, Reuse(s) PROVE IndInv'
  <2>1. /\ running /\ pcs[s] = "conn" /\ Available /\ db # 0 /\ bound = loop
        /\ pcs' = [pcs EXCEPT ![s] = "idle"] /\ held' = [held EXCEPT ![s] = db]
        /\ UNCHANGED <<running, loop, db, bound, lock, conns, errors>>
    BY <1>0, <1>2 DEF Reuse, Goto, Foreign, loopVars, NobodyWithoutLoop
  <2>2. \A r \in Slots : pcs[r] \notin Holding /\ pcs'[r] \notin Holding
    BY <1>0, <2>1, AvailableMeansNobody DEF TypeOK, Holding
  <2>3. conns[db].loop = loop /\ conns[db].schema # "absent"
    BY <1>0, <2>1, <2>2 DEF CacheIsBound, Holding
  <2>4. TypeOK'
    BY <1>0, <2>1, <2>2, <2>3 DEF TypeOK, Holding
  <2>5. LockIsHeld'
    BY <1>0, <2>1, <2>2, <2>3 DEF TypeOK, LockIsHeld
  <2>6. NobodyWithoutLoop'
    BY <1>0, <2>1, <2>2, <2>3 DEF TypeOK, NobodyWithoutLoop
  <2>7. CacheIsBound'
    BY <1>0, <2>1, <2>2, <2>3 DEF CacheIsBound
  <2>8. HolderKnowsCache'
    BY <2>2 DEF HolderKnowsCache, Holding
  <2>9. WorkersAreKnown'
    BY <1>0, <2>1, <2>2 DEF WorkersAreKnown, Alive, Holding
  <2>10. UsedInItsLoop'
    BY <1>0, <2>1, <2>2, <2>3 DEF TypeOK, UsedInItsLoop
  <2>11. HeldIsReady'
    BY <1>0, <2>1, <2>2, <2>3 DEF TypeOK, HeldIsReady
  <2>12. QED
    BY <2>4, <2>5, <2>6, <2>7, <2>8, <2>9, <2>10, <2>11 DEF IndInv
<1>3. ASSUME NEW s \in Slots, Connect(s) PROVE IndInv'
  <2>1. /\ running /\ pcs[s] = "conn" /\ Available
        /\ lock' = [loop |-> loop, holder |-> s] /\ db' = 0 /\ bound' = 0
        /\ pcs' = [pcs EXCEPT ![s] = "connect"]
        /\ UNCHANGED <<running, loop, held, errors>>
    BY <1>0, <1>3 DEF Connect, Locked, Goto, loopVars, NobodyWithoutLoop
  <2>2. \A r \in Slots : pcs[r] \notin Holding /\ (r # s => pcs'[r] \notin Holding)
    BY <1>0, <2>1, AvailableMeansNobody DEF TypeOK, Holding
  <2>3. /\ conns' \in Seq(Conn) /\ Len(conns') = Len(conns)
        /\ \A c \in DOMAIN conns : /\ conns'[c].loop = conns[c].loop
                                 /\ conns'[c].schema = conns[c].schema
                                 /\ ~conns'[c].alive
    <3>1. CASE Foreign
      <4>1. db \in DOMAIN conns /\ conns' = Stopped(db)
        BY <1>0, <1>3, <3>1 DEF Connect, Foreign, TypeOK
      <4>2. \A c \in DOMAIN conns : c # db => ~conns[c].alive
        BY <1>0, <2>2 DEF WorkersAreKnown, Alive, Holding
      <4>3. QED
        BY <1>0, <4>1, <4>2, StopTyped DEF TypeOK
    <3>2. CASE ~Foreign
      <4>1. db = 0 /\ conns' = conns
        BY <1>3, <3>2 DEF Connect, Foreign
      <4>2. \A c \in DOMAIN conns : ~conns[c].alive
        BY <1>0, <2>2, <4>1 DEF WorkersAreKnown, Alive, Holding, TypeOK
      <4>3. QED
        BY <1>0, <4>1, <4>2 DEF TypeOK
    <3>3. QED
      BY <3>1, <3>2
  <2>4. TypeOK'
    BY <1>0, <2>1, <2>2, <2>3 DEF TypeOK, Holding
  <2>5. LockIsHeld'
    BY <1>0, <2>1, <2>2 DEF TypeOK, LockIsHeld, Holding
  <2>6. NobodyWithoutLoop'
    BY <1>0, <2>1, <2>2, <2>3 DEF TypeOK, NobodyWithoutLoop
  <2>7. CacheIsBound'
    BY <1>0, <2>1, <2>2, <2>3 DEF TypeOK, CacheIsBound
  <2>8. HolderKnowsCache'
    BY <1>0, <2>1, <2>2 DEF TypeOK, HolderKnowsCache, Holding
  <2>9. WorkersAreKnown'
    BY <1>0, <2>3 DEF TypeOK, WorkersAreKnown, Alive
  <2>10. UsedInItsLoop'
    <3>1. \A r \in Slots : held'[r] # 0 => held'[r] = held[r] /\ held[r] \in DOMAIN conns
      BY <1>0, <2>1, HeldWasMade DEF TypeOK
    <3>2. QED
      BY <1>0, <2>1, <2>3, <3>1 DEF UsedInItsLoop
  <2>11. HeldIsReady'
    <3>1. \A r \in Slots : held'[r] # 0 /\ pcs'[r] # "script" =>
             /\ held'[r] = held[r] /\ held[r] \in DOMAIN conns /\ pcs[r] # "script"
      BY <1>0, <2>1, <2>2, HeldWasMade DEF TypeOK, Holding
    <3>2. QED
      BY <1>0, <2>3, <3>1 DEF HeldIsReady
  <2>12. QED
    BY <2>4, <2>5, <2>6, <2>7, <2>8, <2>9, <2>10, <2>11 DEF IndInv
<1>4. ASSUME NEW s \in Slots, Connected(s) PROVE IndInv'
  <2>1. /\ pcs[s] = "connect" /\ running /\ lock = [loop |-> loop, holder |-> s] /\ db = 0
        /\ conns' = Append(conns, [loop |-> loop, alive |-> TRUE, schema |-> "absent"])
        /\ db' = Len(conns) + 1 /\ bound' = loop
        /\ held' = [held EXCEPT ![s] = Len(conns) + 1]
        /\ pcs' = [pcs EXCEPT ![s] = "script"]
        /\ UNCHANGED <<running, loop, lock, errors>>
    BY <1>0, <1>4 DEF Connected, Goto, loopVars, LockIsHeld, NobodyWithoutLoop,
       HolderKnowsCache, Holding
  <2>2. \A r \in Slots \ {s} : pcs[r] \notin Holding /\ pcs'[r] \notin Holding
    BY <1>0, <2>1, HolderIsAlone DEF TypeOK, Holding
  <2>3. /\ conns' \in Seq(Conn) /\ Len(conns') = Len(conns) + 1
        /\ \A c \in DOMAIN conns : conns'[c] = conns[c] /\ ~conns[c].alive
        /\ conns'[db'] = [loop |-> loop, alive |-> TRUE, schema |-> "absent"]
    BY <1>0, <2>1, <2>2 DEF TypeOK, Conn, WorkersAreKnown, Alive, Holding
  <2>4. \A r \in Slots \ {s} : held'[r] = held[r] /\ (held[r] # 0 => held[r] \in DOMAIN conns)
    BY <1>0, <2>1 DEF TypeOK
  <2>5. TypeOK'
    BY <1>0, <2>1, <2>2, <2>3, <2>4 DEF TypeOK, Holding
  <2>6. LockIsHeld'
    BY <1>0, <2>1, <2>2 DEF TypeOK, LockIsHeld, Holding
  <2>7. NobodyWithoutLoop'
    BY <1>0, <2>1, <2>2, <2>3, <2>4 DEF TypeOK, NobodyWithoutLoop
  <2>8. CacheIsBound'
    BY <1>0, <2>1, <2>2, <2>3, <2>4 DEF TypeOK, CacheIsBound
  <2>9. HolderKnowsCache'
    BY <1>0, <2>1, <2>2, <2>3 DEF TypeOK, HolderKnowsCache, Holding
  <2>10. WorkersAreKnown'
    BY <1>0, <2>1, <2>3 DEF TypeOK, WorkersAreKnown, Alive
  <2>11. UsedInItsLoop'
    BY <1>0, <2>1, <2>2, <2>3, <2>4 DEF TypeOK, UsedInItsLoop
  <2>12. HeldIsReady'
    BY <1>0, <2>1, <2>2, <2>3, <2>4 DEF TypeOK, HeldIsReady, Holding
  <2>13. QED
    BY <2>5, <2>6, <2>7, <2>8, <2>9, <2>10, <2>11, <2>12 DEF IndInv
<1>5. ASSUME NEW s \in Slots, ConnectFails(s) PROVE IndInv'
  <2>1. /\ pcs[s] = "connect" /\ running /\ db = 0
        /\ lock' = [lock EXCEPT !.holder = Free]
        /\ pcs' = [pcs EXCEPT ![s] = "idle"]
        /\ errors' = errors + 1
        /\ UNCHANGED <<running, loop, db, bound, held, conns>>
    BY <1>0, <1>5 DEF ConnectFails, Unlocked, Goto, loopVars, NobodyWithoutLoop,
       HolderKnowsCache, Holding
  <2>2. \A r \in Slots \ {s} : pcs[r] \notin Holding /\ pcs'[r] \notin Holding
    BY <1>0, <2>1, HolderIsAlone DEF TypeOK, Holding
  <2>3. TypeOK'
    BY <1>0, <2>1, <2>2, UnlockTyped DEF TypeOK
  <2>4. LockIsHeld'
    BY <1>0, <2>1, <2>2 DEF TypeOK, LockIsHeld, Holding
  <2>5. NobodyWithoutLoop'
    BY <1>0, <2>1, <2>2 DEF TypeOK, NobodyWithoutLoop
  <2>6. CacheIsBound'
    BY <1>0, <2>1, <2>2 DEF TypeOK, CacheIsBound
  <2>7. HolderKnowsCache'
    BY <1>0, <2>1, <2>2 DEF TypeOK, HolderKnowsCache, Holding
  <2>8. WorkersAreKnown'
    BY <1>0, <2>1, <2>2 DEF WorkersAreKnown, Alive, Holding, TypeOK
  <2>9. UsedInItsLoop'
    BY <1>0, <2>1, <2>2 DEF TypeOK, UsedInItsLoop
  <2>10. HeldIsReady'
    BY <1>0, <2>1, <2>2 DEF TypeOK, HeldIsReady
  <2>11. QED
    BY <2>3, <2>4, <2>5, <2>6, <2>7, <2>8, <2>9, <2>10 DEF IndInv
<1>6. ASSUME NEW s \in Slots, Script(s) PROVE IndInv'
  <2>1. /\ pcs[s] = "script"
        /\ conns' = WithSchema(held[s], "there")
        /\ lock' = [lock EXCEPT !.holder = Free]
        /\ pcs' = [pcs EXCEPT ![s] = "idle"]
        /\ held' = held
        /\ errors' \in {errors, errors + 1}
        /\ UNCHANGED <<running, loop, db, bound>>
    BY <1>6 DEF Script, WithSchema, Unlocked, Goto, loopVars
  <2>2. /\ running /\ held[s] \in DOMAIN conns /\ db = held[s] /\ bound = loop
    BY <1>0, <2>1 DEF NobodyWithoutLoop, HolderKnowsCache, TypeOK
  <2>3. \A r \in Slots \ {s} : pcs[r] \notin Holding /\ pcs'[r] \notin Holding
    BY <1>0, <2>1, HolderIsAlone DEF TypeOK, Holding
  <2>4. /\ conns' \in Seq(Conn) /\ Len(conns') = Len(conns) /\ DOMAIN conns' = DOMAIN conns
        /\ \A c \in DOMAIN conns :
             /\ conns'[c].loop = conns[c].loop /\ conns'[c].alive = conns[c].alive
             /\ conns'[c].schema = IF c = held[s] THEN "there" ELSE conns[c].schema
    BY <1>0, <2>1, <2>2, SchemaTyped DEF TypeOK
  <2>5. TypeOK'
    BY <1>0, <2>1, <2>4, UnlockTyped DEF TypeOK
  <2>6. LockIsHeld'
    BY <1>0, <2>1, <2>3 DEF TypeOK, LockIsHeld, Holding
  <2>7. NobodyWithoutLoop'
    BY <2>1, <2>2 DEF NobodyWithoutLoop
  <2>8. CacheIsBound'
    <3>1. conns'[db'].loop = conns[db].loop /\ conns'[db'].schema # "absent"
      BY <1>0, <2>1, <2>2, <2>4 DEF CacheIsBound
    <3>2. QED
      BY <1>0, <2>1, <2>2, <3>1 DEF CacheIsBound
  <2>9. HolderKnowsCache'
    BY <1>0, <2>1, <2>3 DEF TypeOK, HolderKnowsCache, Holding
  <2>10. WorkersAreKnown'
    <3>1. \A r \in Slots : pcs[r] # "closing"
      BY <2>1, <2>3 DEF Holding
    <3>2. Alive' = Alive
      BY <2>4 DEF Alive
    <3>3. QED
      BY <1>0, <2>1, <3>1, <3>2 DEF WorkersAreKnown
  <2>11. UsedInItsLoop'
    <3>1. \A r \in Slots : held'[r] # 0 => held'[r] = held[r] /\ held[r] \in DOMAIN conns
      BY <1>0, <2>1, HeldWasMade DEF TypeOK
    <3>2. QED
      BY <1>0, <2>1, <2>4, <3>1 DEF UsedInItsLoop
  <2>12. HeldIsReady'
    <3>1. ASSUME NEW r \in Slots, held'[r] # 0, pcs'[r] # "script"
          PROVE  conns'[held'[r]].schema # "absent"
      <4>1. held[r] # 0 /\ held'[r] = held[r] /\ held[r] \in DOMAIN conns
        BY <1>0, <2>1, <3>1, HeldWasMade
      <4>2. CASE held[r] = held[s]
        BY <2>2, <2>4, <4>1, <4>2
      <4>3. CASE held[r] # held[s]
        <5>1. pcs[r] # "script"
          BY <1>0, <2>1, <3>1, <4>3 DEF TypeOK
        <5>2. conns[held[r]].schema # "absent"
          BY <1>0, <4>1, <5>1 DEF HeldIsReady
        <5>3. QED
          BY <2>4, <4>1, <4>3, <5>2
      <4>4. QED
        BY <4>2, <4>3
    <3>2. QED
      BY <3>1 DEF HeldIsReady
  <2>13. QED
    BY <2>5, <2>6, <2>7, <2>8, <2>9, <2>10, <2>11, <2>12 DEF IndInv
<1>7. ASSUME NEW s \in Slots, ScriptFails(s) PROVE IndInv'
  <2>1. /\ pcs[s] = "script"
        /\ conns' = WithSchema(held[s], "failed")
        /\ lock' = [lock EXCEPT !.holder = Free]
        /\ pcs' = [pcs EXCEPT ![s] = "idle"]
        /\ held' = [held EXCEPT ![s] = 0]
        /\ errors' \in {errors, errors + 1}
        /\ UNCHANGED <<running, loop, db, bound>>
    BY <1>7 DEF ScriptFails, WithSchema, Unlocked, Goto, loopVars
  <2>2. /\ running /\ held[s] \in DOMAIN conns /\ db = held[s] /\ bound = loop
    BY <1>0, <2>1 DEF NobodyWithoutLoop, HolderKnowsCache, TypeOK
  <2>3. \A r \in Slots \ {s} : pcs[r] \notin Holding /\ pcs'[r] \notin Holding
    BY <1>0, <2>1, HolderIsAlone DEF TypeOK, Holding
  <2>4. /\ conns' \in Seq(Conn) /\ Len(conns') = Len(conns) /\ DOMAIN conns' = DOMAIN conns
        /\ \A c \in DOMAIN conns :
             /\ conns'[c].loop = conns[c].loop /\ conns'[c].alive = conns[c].alive
             /\ conns'[c].schema = IF c = held[s] THEN "failed" ELSE conns[c].schema
    BY <1>0, <2>1, <2>2, SchemaTyped DEF TypeOK
  <2>5. TypeOK'
    BY <1>0, <2>1, <2>4, UnlockTyped DEF TypeOK
  <2>6. LockIsHeld'
    BY <1>0, <2>1, <2>3 DEF TypeOK, LockIsHeld, Holding
  <2>7. NobodyWithoutLoop'
    BY <2>1, <2>2 DEF NobodyWithoutLoop
  <2>8. CacheIsBound'
    <3>1. conns'[db'].loop = conns[db].loop /\ conns'[db'].schema # "absent"
      BY <1>0, <2>1, <2>2, <2>4 DEF CacheIsBound
    <3>2. QED
      BY <1>0, <2>1, <2>2, <3>1 DEF CacheIsBound
  <2>9. HolderKnowsCache'
    BY <1>0, <2>1, <2>3 DEF TypeOK, HolderKnowsCache, Holding
  <2>10. WorkersAreKnown'
    <3>1. \A r \in Slots : pcs[r] # "closing"
      BY <2>1, <2>3 DEF Holding
    <3>2. Alive' = Alive
      BY <2>4 DEF Alive
    <3>3. QED
      BY <1>0, <2>1, <3>1, <3>2 DEF WorkersAreKnown
  <2>11. UsedInItsLoop'
    <3>1. \A r \in Slots : held'[r] # 0 => held'[r] = held[r] /\ held[r] \in DOMAIN conns
      BY <1>0, <2>1, HeldWasMade DEF TypeOK
    <3>2. QED
      BY <1>0, <2>1, <2>4, <3>1 DEF UsedInItsLoop
  <2>12. HeldIsReady'
    <3>1. ASSUME NEW r \in Slots, held'[r] # 0, pcs'[r] # "script"
          PROVE  conns'[held'[r]].schema # "absent"
      <4>1. r # s /\ held'[r] = held[r] /\ pcs'[r] = pcs[r]
        BY <1>0, <2>1, <3>1 DEF TypeOK
      <4>2. held[r] \in DOMAIN conns /\ conns[held[r]].schema # "absent"
        BY <1>0, <3>1, <4>1, HeldWasMade DEF HeldIsReady
      <4>3. QED
        BY <2>4, <4>1, <4>2
    <3>2. QED
      BY <3>1 DEF HeldIsReady
  <2>13. QED
    BY <2>5, <2>6, <2>7, <2>8, <2>9, <2>10, <2>11, <2>12 DEF IndInv
<1>8. ASSUME NEW s \in Slots, Drop(s) PROVE IndInv'
  <2>1. /\ pcs[s] = "idle" /\ held' = [held EXCEPT ![s] = 0]
        /\ UNCHANGED <<running, loop, db, bound, lock, pcs, conns, errors>>
    BY <1>8 DEF Drop, loopVars
  <2>2. TypeOK'
    BY <1>0, <2>1 DEF TypeOK, Holding
  <2>3. LockIsHeld'
    BY <1>0, <2>1 DEF TypeOK, LockIsHeld
  <2>4. NobodyWithoutLoop'
    BY <1>0, <2>1 DEF TypeOK, NobodyWithoutLoop
  <2>5. CacheIsBound'
    BY <1>0, <2>1 DEF TypeOK, CacheIsBound
  <2>6. HolderKnowsCache'
    BY <1>0, <2>1 DEF TypeOK, HolderKnowsCache
  <2>7. WorkersAreKnown'
    BY <1>0, <2>1 DEF TypeOK, WorkersAreKnown, Alive
  <2>8. UsedInItsLoop'
    BY <1>0, <2>1 DEF TypeOK, UsedInItsLoop
  <2>9. HeldIsReady'
    BY <1>0, <2>1 DEF TypeOK, HeldIsReady
  <2>10. QED
    BY <2>2, <2>3, <2>4, <2>5, <2>6, <2>7, <2>8, <2>9 DEF IndInv
<1>9. ASSUME NEW s \in Slots, Close(s) PROVE IndInv'
  <2>1. /\ running /\ pcs[s] = "close" /\ Available /\ db' = 0 /\ bound' = 0
        /\ pcs' = [pcs EXCEPT ![s] = "idle"]
        /\ UNCHANGED <<running, loop, lock, held, errors>>
       
    BY <1>0, <1>9 DEF Close, Goto, loopVars, NobodyWithoutLoop, TypeOK
  <2>2. \A r \in Slots : pcs[r] \notin Holding /\ pcs'[r] \notin Holding
    BY <1>0, <2>1, AvailableMeansNobody DEF TypeOK, Holding
  <2>3. /\ conns' \in Seq(Conn) /\ Len(conns') = Len(conns) /\ DOMAIN conns' = DOMAIN conns
        /\ \A c \in DOMAIN conns : /\ conns'[c].loop = conns[c].loop
                                 /\ conns'[c].schema = conns[c].schema
                                 /\ ~conns'[c].alive
    <3>1. \A c \in DOMAIN conns : c # db => ~conns[c].alive
      BY <1>0, <2>2 DEF WorkersAreKnown, Alive, Holding
    <3>2. CASE db = 0
      BY <1>0, <1>9, <3>1, <3>2 DEF Close, TypeOK
    <3>3. CASE db # 0
      <4>1. db \in DOMAIN conns /\ conns' = Stopped(db)
        BY <1>0, <1>9, <3>3 DEF Close, TypeOK
      <4>2. QED
        BY <1>0, <3>1, <4>1, StopTyped DEF TypeOK
    <3>4. QED
      BY <3>2, <3>3
  <2>4. TypeOK'
    BY <1>0, <2>1, <2>2, <2>3 DEF TypeOK, Holding
  <2>5. LockIsHeld'
    BY <2>2 DEF LockIsHeld
  <2>6. NobodyWithoutLoop'
    BY <1>0, <2>1, <2>2, <2>3 DEF TypeOK, NobodyWithoutLoop
  <2>7. CacheIsBound'
    BY <1>0, <2>1, <2>2, <2>3 DEF TypeOK, CacheIsBound
  <2>8. HolderKnowsCache'
    BY <2>2 DEF HolderKnowsCache, Holding
  <2>9. WorkersAreKnown'
    BY <1>0, <2>1, <2>2, <2>3 DEF TypeOK, WorkersAreKnown, Alive
  <2>10. UsedInItsLoop'
    BY <1>0, <2>1, <2>2, <2>3 DEF TypeOK, UsedInItsLoop
  <2>11. HeldIsReady'
    BY <1>0, <2>1, <2>2, <2>3 DEF TypeOK, HeldIsReady
  <2>12. QED
    BY <2>4, <2>5, <2>6, <2>7, <2>8, <2>9, <2>10, <2>11 DEF IndInv
<1>10. ASSUME NEW s \in Slots, CloseOwn(s) PROVE IndInv'
  <2>1. /\ running /\ pcs[s] = "close" /\ Available /\ db # 0 /\ bound = loop
        /\ lock' = [loop |-> loop, holder |-> s] /\ db' = 0 /\ bound' = 0
        /\ held' = [held EXCEPT ![s] = db]
        /\ pcs' = [pcs EXCEPT ![s] = "closing"]
        /\ UNCHANGED <<running, loop, conns, errors>>
    BY <1>0, <1>10 DEF CloseOwn, Foreign, Locked, Goto, loopVars, NobodyWithoutLoop
  <2>2. \A r \in Slots : pcs[r] \notin Holding /\ (r # s => pcs'[r] \notin Holding)
    BY <1>0, <2>1, AvailableMeansNobody DEF TypeOK, Holding
  <2>3. conns[db].loop = loop
    BY <1>0, <2>1 DEF CacheIsBound
  <2>4. TypeOK'
    BY <1>0, <2>1, <2>2, <2>3 DEF TypeOK, Holding
  <2>5. LockIsHeld'
    BY <1>0, <2>1, <2>2 DEF TypeOK, LockIsHeld, Holding
  <2>6. NobodyWithoutLoop'
    BY <1>0, <2>1, <2>2, <2>3 DEF TypeOK, NobodyWithoutLoop
  <2>7. CacheIsBound'
    BY <1>0, <2>1, <2>2, <2>3 DEF TypeOK, CacheIsBound
  <2>8. HolderKnowsCache'
    BY <1>0, <2>1, <2>2 DEF TypeOK, HolderKnowsCache, Holding
  <2>9. WorkersAreKnown'
    BY <1>0, <2>1, <2>2 DEF TypeOK, WorkersAreKnown, Alive, Holding
  <2>10. UsedInItsLoop'
    BY <1>0, <2>1, <2>2, <2>3 DEF TypeOK, UsedInItsLoop
  <2>11. HeldIsReady'
    <3>1. conns[db].schema # "absent"
      BY <1>0, <2>1, <2>2 DEF CacheIsBound, Holding
    <3>2. QED
      BY <1>0, <2>1, <2>2, <3>1 DEF TypeOK, HeldIsReady, Holding
  <2>12. QED
    BY <2>4, <2>5, <2>6, <2>7, <2>8, <2>9, <2>10, <2>11 DEF IndInv
<1>11. ASSUME NEW s \in Slots, Closed(s) PROVE IndInv'
  <2>1. /\ pcs[s] = "closing"
        /\ conns' = Stopped(held[s])
        /\ held' = [held EXCEPT ![s] = 0]
        /\ lock' = [lock EXCEPT !.holder = Free]
        /\ pcs' = [pcs EXCEPT ![s] = "idle"]
        /\ UNCHANGED <<running, loop, db, bound, errors>>
    BY <1>11 DEF Closed, Unlocked, Goto, loopVars
  <2>2. /\ running /\ db = 0 /\ held[s] \in DOMAIN conns
    BY <1>0, <2>1, HeldWasMade DEF NobodyWithoutLoop, HolderKnowsCache
  <2>3. \A r \in Slots \ {s} : pcs[r] \notin Holding /\ pcs'[r] \notin Holding
    BY <1>0, <2>1, HolderIsAlone DEF TypeOK, Holding
  <2>4. /\ conns' \in Seq(Conn) /\ Len(conns') = Len(conns) /\ DOMAIN conns' = DOMAIN conns
        /\ \A c \in DOMAIN conns : /\ conns'[c].loop = conns[c].loop
                                 /\ conns'[c].schema = conns[c].schema
                                 /\ ~conns'[c].alive
    <3>1. \A r \in Slots : pcs[r] = "closing" => r = s
      BY <2>3 DEF Holding
    <3>2. \A c \in DOMAIN conns : c # held[s] => ~conns[c].alive
      BY <1>0, <2>2, <3>1 DEF WorkersAreKnown, Alive, TypeOK
    <3>3. QED
      BY <1>0, <2>1, <2>2, <3>2, StopTyped DEF TypeOK
  <2>5. TypeOK'
    BY <1>0, <2>1, <2>2, <2>3, <2>4 DEF TypeOK, Holding
  <2>6. LockIsHeld'
    BY <1>0, <2>1, <2>3 DEF TypeOK, LockIsHeld, Holding
  <2>7. NobodyWithoutLoop'
    BY <2>1, <2>2 DEF NobodyWithoutLoop
  <2>8. CacheIsBound'
    BY <1>0, <2>1, <2>2, <2>3, <2>4 DEF TypeOK, CacheIsBound
  <2>9. HolderKnowsCache'
    BY <1>0, <2>1, <2>3 DEF TypeOK, HolderKnowsCache, Holding
  <2>10. WorkersAreKnown'
    BY <1>0, <2>1, <2>2, <2>3, <2>4 DEF TypeOK, WorkersAreKnown, Alive
  <2>11. UsedInItsLoop'
    BY <1>0, <2>1, <2>2, <2>3, <2>4 DEF TypeOK, UsedInItsLoop
  <2>12. HeldIsReady'
    <3>1. ASSUME NEW r \in Slots, held'[r] # 0, pcs'[r] # "script"
          PROVE  conns'[held'[r]].schema # "absent"
      <4>1. r # s /\ held'[r] = held[r] /\ pcs'[r] = pcs[r]
        BY <1>0, <2>1, <3>1 DEF TypeOK
      <4>2. held[r] \in DOMAIN conns /\ conns[held[r]].schema # "absent"
        BY <1>0, <3>1, <4>1, HeldWasMade DEF HeldIsReady
      <4>3. QED
        BY <2>4, <4>1, <4>2
    <3>2. QED
      BY <3>1 DEF HeldIsReady
  <2>13. QED
    BY <2>5, <2>6, <2>7, <2>8, <2>9, <2>10, <2>11, <2>12 DEF IndInv
<1>12. ASSUME EndLoop PROVE IndInv'
  <2>1. /\ running' = FALSE /\ lock' = [lock EXCEPT !.holder = Free]
        /\ pcs' = [s \in Slots |-> "idle"] /\ held' = [s \in Slots |-> 0]
        /\ UNCHANGED <<loop, db, bound, errors>>
    BY <1>12 DEF EndLoop
  <2>2. /\ conns' \in Seq(Conn) /\ Len(conns') = Len(conns) /\ DOMAIN conns' = DOMAIN conns
        /\ \A c \in DOMAIN conns :
             /\ conns'[c].loop = conns[c].loop
             /\ conns'[c].alive =>
                  conns[c].alive /\ ~ \E s \in Slots : pcs[s] = "closing" /\ held[s] = c
             /\ conns'[c].schema = IF \E s \in Slots : pcs[s] = "script" /\ held[s] = c
                                   THEN "failed" ELSE conns[c].schema
    <3> DEFINE Cut(c, pc) == \E s \in Slots : pcs[s] = pc /\ held[s] = c
               At(c) == [conns[c] EXCEPT !.alive = @ /\ ~Cut(c, "closing"),
                                         !.schema = IF Cut(c, "script") THEN "failed" ELSE @]
    <3>1. conns' = [c \in DOMAIN conns |-> At(c)]
      BY <1>12 DEF EndLoop
    <3>2. \A c \in DOMAIN conns : conns[c] \in Conn
      BY <1>0 DEF TypeOK
    <3>3. ASSUME NEW c \in DOMAIN conns
          PROVE  /\ At(c) \in Conn /\ At(c).loop = conns[c].loop
                 /\ At(c).alive => conns[c].alive /\ ~Cut(c, "closing")
                 /\ At(c).schema = IF Cut(c, "script") THEN "failed" ELSE conns[c].schema
      <4> HIDE DEF Cut
      <4>1. conns[c] \in Conn
        BY <3>2
      <4>2. At(c).loop = conns[c].loop
        BY <4>1 DEF Conn
      <4>3. At(c).alive = (conns[c].alive /\ ~Cut(c, "closing"))
        BY <4>1 DEF Conn
      <4>4. At(c).schema = IF Cut(c, "script") THEN "failed" ELSE conns[c].schema
        BY <4>1 DEF Conn
      <4>5. At(c) \in Conn
        BY <4>1 DEF Conn
      <4>6. QED
        BY <4>2, <4>3, <4>4, <4>5
    <3> HIDE DEF At
    <3>4. DOMAIN conns' = DOMAIN conns /\ \A c \in DOMAIN conns : conns'[c] = At(c)
      BY <3>1
    <3>5. conns' \in Seq(Conn) /\ Len(conns') = Len(conns)
      <4>1. Len(conns) \in Nat /\ DOMAIN conns = 1 .. Len(conns)
        BY <1>0 DEF TypeOK
      <4>2. conns' \in [1 .. Len(conns) -> Conn]
        BY <3>1, <3>3, <4>1
      <4>3. QED
        BY <4>1, <4>2
    <3>6. QED
      BY <3>3, <3>4, <3>5
  <2>3. TypeOK'
    <3>1. lock' \in [loop : 0 .. MaxLoops, holder : Slots \cup {Free}]
      BY <1>0, <2>1, UnlockTyped
    <3>2. held' \in [Slots -> 0 .. Len(conns')]
      BY <1>0, <2>1, <2>2 DEF TypeOK
    <3>3. QED
      BY <1>0, <2>1, <2>2, <3>1, <3>2 DEF TypeOK
  <2>4. LockIsHeld'
    BY <2>1 DEF LockIsHeld, Holding
  <2>5. NobodyWithoutLoop'
    BY <2>1 DEF NobodyWithoutLoop
  <2>6. CacheIsBound'
    <3>1. ASSUME db # 0
          PROVE  conns'[db].loop = bound /\ conns'[db].schema # "absent"
      <4>1. db \in DOMAIN conns /\ conns[db].loop = bound
        BY <1>0, <3>1 DEF TypeOK, CacheIsBound
      <4>2. QED
        BY <1>0, <2>2, <3>1, <4>1 DEF CacheIsBound
    <3>2. QED
      BY <2>1, <3>1 DEF CacheIsBound
  <2>7. HolderKnowsCache'
    BY <2>1 DEF HolderKnowsCache
  <2>8. WorkersAreKnown'
    BY <1>0, <2>1, <2>2 DEF WorkersAreKnown, Alive
  <2>9. UsedInItsLoop'
    BY <2>1 DEF UsedInItsLoop
  <2>10. HeldIsReady'
    BY <2>1 DEF HeldIsReady
  <2>11. QED
    BY <2>3, <2>4, <2>5, <2>6, <2>7, <2>8, <2>9, <2>10 DEF IndInv
<1>13. ASSUME StartLoop PROVE IndInv'
  <2>1. /\ loop < MaxLoops /\ running' = TRUE /\ loop' = loop + 1
        /\ \A s \in Slots : pcs[s] = "idle" /\ held[s] = 0
        /\ UNCHANGED <<db, bound, lock, pcs, held, conns, errors>>
    BY <1>0, <1>13 DEF StartLoop, NobodyWithoutLoop
  <2>2. TypeOK'
    BY <1>0, <2>1 DEF TypeOK, Holding
  <2>3. LockIsHeld'
    BY <2>1 DEF LockIsHeld, Holding
  <2>4. NobodyWithoutLoop'
    BY <1>0, <2>1 DEF TypeOK, NobodyWithoutLoop
  <2>5. CacheIsBound'
    BY <1>0, <2>1 DEF TypeOK, CacheIsBound
  <2>6. HolderKnowsCache'
    BY <1>0, <2>1 DEF TypeOK, HolderKnowsCache
  <2>7. WorkersAreKnown'
    BY <1>0, <2>1 DEF TypeOK, WorkersAreKnown, Alive
  <2>8. UsedInItsLoop'
    BY <1>0, <2>1 DEF TypeOK, UsedInItsLoop
  <2>9. HeldIsReady'
    BY <1>0, <2>1 DEF TypeOK, HeldIsReady
  <2>10. QED
    BY <2>2, <2>3, <2>4, <2>5, <2>6, <2>7, <2>8, <2>9 DEF IndInv
<1>14. ASSUME Abandon PROVE IndInv'
  <2>1. /\ db # 0 /\ db \in DOMAIN conns /\ conns' = Stopped(db) /\ db' = 0 /\ bound' = 0
        /\ \A s \in Slots : pcs[s] = "idle" /\ held[s] = 0
        /\ UNCHANGED <<running, loop, lock, pcs, held, errors>>
    BY <1>0, <1>14 DEF Abandon, NobodyWithoutLoop, loopVars, TypeOK
  <2>2. /\ conns' \in Seq(Conn) /\ Len(conns') = Len(conns) /\ DOMAIN conns' = DOMAIN conns
        /\ \A c \in DOMAIN conns : conns'[c].alive = (c # db /\ conns[c].alive)
    BY <1>0, <2>1, StopTyped DEF TypeOK
  <2>3. TypeOK'
    BY <1>0, <2>1, <2>2 DEF TypeOK, Holding
  <2>4. LockIsHeld'
    BY <1>0, <2>1, <2>2 DEF TypeOK, LockIsHeld
  <2>5. NobodyWithoutLoop'
    BY <1>0, <2>1, <2>2 DEF TypeOK, NobodyWithoutLoop
  <2>6. CacheIsBound'
    BY <1>0, <2>1, <2>2 DEF TypeOK, CacheIsBound
  <2>7. HolderKnowsCache'
    BY <1>0, <2>1, <2>2 DEF TypeOK, HolderKnowsCache
  <2>8. WorkersAreKnown'
    BY <1>0, <2>1, <2>2 DEF TypeOK, WorkersAreKnown, Alive
  <2>9. UsedInItsLoop'
    BY <1>0, <2>1, <2>2 DEF TypeOK, UsedInItsLoop
  <2>10. HeldIsReady'
    BY <1>0, <2>1, <2>2 DEF TypeOK, HeldIsReady
  <2>11. QED
    BY <2>3, <2>4, <2>5, <2>6, <2>7, <2>8, <2>9, <2>10 DEF IndInv
<1>15. CASE UNCHANGED vars
  BY <1>0, <1>15 DEF vars, IndInv, TypeOK, LockIsHeld, NobodyWithoutLoop, CacheIsBound,
     HolderKnowsCache, WorkersAreKnown, Alive, UsedInItsLoop, HeldIsReady
<1>16. QED
  BY <1>1, <1>2, <1>3, <1>4, <1>5, <1>6, <1>7, <1>8, <1>9, <1>10, <1>11, <1>12, <1>13, <1>14,
     <1>15 DEF Next, Step

\* What the invariant says of the workers is OneWorker: who closes is alone and
\* has emptied the cache.
LEMMA KnownMeansOne == IndInv => OneWorker
<1> SUFFICES ASSUME IndInv PROVE OneWorker
  OBVIOUS
<1>1. TypeOK /\ LockIsHeld /\ HolderKnowsCache /\ WorkersAreKnown
  BY DEF IndInv
<1>2. \A c, e \in Alive : c = e
  <2>1. CASE \E s \in Slots : pcs[s] = "closing"
    <3>1. PICK s \in Slots : pcs[s] = "closing"
      BY <2>1
    <3>2. db = 0 /\ \A r \in Slots \ {s} : pcs[r] # "closing"
      BY <1>1, <3>1, HolderIsAlone DEF HolderKnowsCache, Holding
    <3>3. Alive \subseteq {held[s]}
      BY <1>1, <3>2 DEF WorkersAreKnown, Alive, TypeOK
    <3>4. QED
      BY <3>3
  <2>2. CASE ~ \E s \in Slots : pcs[s] = "closing"
    BY <1>1, <2>2 DEF WorkersAreKnown
  <2>3. QED
    BY <2>1, <2>2
<1>3. Cardinality(Alive) <= 1
  <2>1. CASE Alive = {}
    BY <2>1, FS_EmptySet
  <2>2. CASE Alive # {}
    <3>1. PICK c \in Alive : TRUE
      BY <2>2
    <3>2. Alive = {c}
      BY <1>2, <3>1
    <3>3. QED
      BY <3>2, FS_Singleton
  <2>3. QED
    BY <2>1, <2>2
<1>4. QED
  BY <1>1, <1>3 DEF OneWorker, WorkersAreKnown, Alive

\* The invariant holds in every behaviour.
LEMMA Invariance == Spec => []IndInv
BY InitIndInv, StepIndInv, PTL DEF Spec

\* The state always has its type: in particular _db is a connection that was made,
\* and is noted with a loop exactly if there is one.
THEOREM ConnectionTyped == Spec => []TypeOK
<1>1. IndInv => TypeOK
  BY DEF IndInv
<1>2. QED
  BY Invariance, <1>1, PTL

\* No coroutine uses a connection of another event loop, however coroutines,
\* closes and loops follow each other.
THEOREM LoopIsRespected == Spec => []UsedInItsLoop
<1>1. IndInv => UsedInItsLoop
  BY DEF IndInv
<1>2. QED
  BY Invariance, <1>1, PTL

\* At most one worker thread of a component runs, and it is known to the cache or
\* being stopped: none is left behind that would keep the process from exiting.
THEOREM WorkersAreFew == Spec => []OneWorker
BY Invariance, KnownMeansOne, PTL

\* Who is given a connection finds its schema script over: done, raised or cut short.
THEOREM SchemaIsRun == Spec => []ScriptIsOver
<1>1. IndInv => ScriptIsOver
  BY DEF IndInv, HeldIsReady, ScriptIsOver
<1>2. QED
  BY Invariance, <1>1, PTL

\* The connection whose schema script runs is not closed, nor taken out of the
\* cache, under it.
THEOREM ScriptIsUndisturbed == Spec => []ScriptRunsOnOpen
<1>1. IndInv => ScriptRunsOnOpen
  BY DEF IndInv, HolderKnowsCache, ScriptRunsOnOpen
<1>2. QED
  BY Invariance, <1>1, PTL
=============================================================================
