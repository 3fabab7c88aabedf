-------------------------- MODULE TaskStoreProofs --------------------------
(***************************************************************************)
(* Acknowledged task writes survive, and a terminal status comes with its  *)
(* outcome: proofs of AckedWritesAreDurable and OutcomeComesWithStatus for *)
(* any number of tasks, processes, coroutines, calls and faults.           *)
(***************************************************************************)
EXTENDS TaskStore, TLAPS

\* The open transaction only adds rows and later writes of rows.
WorkIsAhead ==
  \A t \in DOMAIN file.disk :
    t \in DOMAIN file.work /\ file.disk[t].ver =< file.work[t].ver

\* A drawn id belongs to one create() and has no row before its INSERT.
InsertIsFresh ==
  /\ DOMAIN file.work \subseteq drawn
  /\ \A s \in Slots : calls[s].pc = "insert" =>
       /\ calls[s].task \in drawn
       /\ calls[s].task \notin DOMAIN file.work
       /\ calls[s].row = NewRow
       /\ \A r \in Slots \ {s} :
            calls[r].pc = "insert" => calls[r].task # calls[s].task

\* A call that has read or written its row still sees it; one that has written
\* it sees its own write or a later one.
CallSeesItsRow ==
  \A s \in Slots :
    /\ calls[s].pc \in {"write", "commit"} => calls[s].task \in DOMAIN Sees(s)
    /\ calls[s].pc = "commit" => calls[s].row.ver =< Sees(s)[calls[s].task].ver

IndInv == /\ TypeOK
          /\ WorkIsAhead
          /\ InsertIsFresh
          /\ CallSeesItsRow
          /\ AckedWritesAreDurable
-----------------------------------------------------------------------------
\* What a connection sees is a table: the open transaction or the disk.
LEMMA SeesATable ==
  ASSUME TypeOK, NEW s \in Slots
  PROVE  /\ Home[s] \in Procs
         /\ IsTable(Sees(s))
         /\ Sees(s) = file.work \/ Sees(s) = file.disk
  BY HomeAssumption DEF TypeOK, Sees, Seen, IsFile

\* A slot that is not idle is in a well-formed call of a process.
LEMMA SlotInCall ==
  ASSUME TypeOK, NEW s \in Slots, calls[s].pc # "idle"
  PROVE  /\ calls[s] \in Call
         /\ calls[s].task \in Tasks /\ calls[s].row \in Row /\ calls[s].patch \in Patch
         /\ Home[s] \in Procs /\ Home[s] # Nobody
<1>1. calls[s] \in Call
  BY DEF TypeOK, Idle
<1>2. Home[s] \in Procs /\ Home[s] # Nobody
  BY HomeAssumption, NobodyAssumption
<1>3. QED
  BY <1>1, <1>2 DEF Call

\* Merging a patch gives a row of the same version.
LEMMA MergeKeepsVersion ==
  ASSUME NEW row \in Row, NEW patch \in Patch
  PROVE  Merge(row, patch) \in Row /\ Merge(row, patch).ver = row.ver
  BY DEF Merge, Row, Patch

\* The constant rows and patches are well formed.
LEMMA ConstantsTyped ==
  /\ NewRow \in Row
  /\ StartedPatch \in Patch /\ DonePatch \in Patch /\ FailedPatch \in Patch
  /\ ClientPatches \subseteq Patch
  BY StatusAssumption DEF NewRow, Row, Status, Note, StartedPatch, DonePatch,
     FailedPatch, ClientPatches, PatchOf, Patch, Keep

\* Going on after a call or an error leaves the slot idle or in a well-formed
\* call that has not written.
LEMMA ReturnTyped ==
  ASSUME NEW call \in Call
  PROVE  /\ Returned(call) \in Call \cup {Idle}
         /\ AfterError(call) \in Call \cup {Idle}
         /\ Returned(call).pc \in {"idle", "select", "work"}
         /\ AfterError(call).pc \in {"idle", "select"}
  BY ConstantsTyped DEF Call, Jobs, Returned, AfterError, Idle

\* A write statement of connection k that leaves the table ahead of the open
\* transaction leaves what every slot sees ahead of what it saw.
LEMMA WriteAdvances ==
  ASSUME TypeOK, NEW k \in Procs, MayWrite(file, k), NEW new,
         \A x \in DOMAIN file.work :
           x \in DOMAIN new /\ file.work[x].ver =< new[x].ver,
         file' = Written(file, k, new)
  PROVE  \A r \in Slots : \A x \in DOMAIN Sees(r) :
           x \in DOMAIN Sees(r)' /\ Sees(r)[x].ver =< Sees(r)'[x].ver
<1> SUFFICES ASSUME NEW r \in Slots, NEW x \in DOMAIN Sees(r)
             PROVE  x \in DOMAIN Sees(r)' /\ Sees(r)[x].ver =< Sees(r)'[x].ver
  OBVIOUS
<1>1. /\ file' = [disk |-> file.disk, work |-> new, owner |-> k]
      /\ file.owner \in {k, Nobody} /\ k # Nobody
      /\ file.owner = Nobody => file.work = file.disk
  BY NobodyAssumption DEF TypeOK, IsFile, Written, MayWrite
<1>2. Sees(r)[x].ver \in Nat
  BY SeesATable DEF IsTable, Row
<1>3. CASE Home[r] = k
  BY <1>1, <1>3 DEF Sees, Seen
<1>4. CASE Home[r] # k
  <2>1. Sees(r) = file.disk /\ Sees(r)' = file.disk
    BY <1>1, <1>4, SeesATable, NobodyAssumption DEF Sees, Seen
  <2>2. QED
    BY <2>1, <1>2
<1>5. QED
  BY <1>3, <1>4

\* When what every slot sees only advances, the step of slot s has to account
\* for the call of s alone.
LEMMA OthersStillSee ==
  ASSUME TypeOK, TypeOK', CallSeesItsRow, NEW s \in Slots,
         \A r \in Slots : \A x \in DOMAIN Sees(r) :
           x \in DOMAIN Sees(r)' /\ Sees(r)[x].ver =< Sees(r)'[x].ver,
         \A r \in Slots \ {s} : calls'[r] = calls[r] \/ calls'[r] = Idle,
         calls'[s].pc \in {"write", "commit"} => calls'[s].task \in DOMAIN Sees(s)',
         calls'[s].pc = "commit" => calls'[s].row.ver =< Sees(s)'[calls'[s].task].ver
  PROVE  CallSeesItsRow'
<1>1. ASSUME NEW r \in Slots \ {s}, calls'[r] = calls[r]
      PROVE  /\ calls'[r].pc \in {"write", "commit"} => calls'[r].task \in DOMAIN Sees(r)'
             /\ calls'[r].pc = "commit" =>
                  calls'[r].row.ver =< Sees(r)'[calls'[r].task].ver
  <2>1. CASE calls[r].pc \in {"write", "commit"}
    <3>1. calls[r].row.ver \in Nat
      BY <2>1, SlotInCall DEF Row
    <3>2. calls[r].task \in DOMAIN Sees(r) /\ calls[r].task \in DOMAIN Sees(r)'
      BY <2>1 DEF CallSeesItsRow
    <3>3. /\ Sees(r)[calls[r].task].ver \in Nat
          /\ Sees(r)'[calls[r].task].ver \in Nat
      <4>1. IsTable(Sees(r)) /\ IsTable(Sees(r))'
        BY HomeAssumption DEF TypeOK, Sees, Seen
      <4>2. QED
        BY <3>2, <4>1 DEF IsTable, Row
    <3>4. QED
      BY <1>1, <3>1, <3>2, <3>3 DEF CallSeesItsRow
  <2>2. CASE calls[r].pc \notin {"write", "commit"}
    BY <1>1, <2>2
  <2>3. QED
    BY <2>1, <2>2
<1>2. ASSUME NEW r \in Slots, calls'[r] = Idle
      PROVE  calls'[r].pc \notin {"write", "commit"}
  BY <1>2 DEF Idle
<1>3. QED
  BY <1>1, <1>2 DEF CallSeesItsRow

\* The invariant holds at the start: there are no rows and no calls.
LEMMA InitIndInv == Init => IndInv
  BY BoundAssumption DEF Init, IndInv, TypeOK, NewFile, IsFile, IsTable, Idle,
     WorkIsAhead, InsertIsFresh, CallSeesItsRow, AckedWritesAreDurable

\* Every statement, call, error and crash keeps the invariant.
LEMMA StepIndInv == IndInv /\ [Next]_vars => IndInv'
<1> SUFFICES ASSUME IndInv, [Next]_vars PROVE IndInv'
  OBVIOUS
<1> USE DEF IndInv
<1>1. ASSUME NEW s \in Slots, BeginCreate(s) PROVE IndInv'
  <2>1. TypeOK'
    BY <1>1, ConstantsTyped DEF BeginCreate, TypeOK, Call, Jobs
  <2>2. QED
    BY <2>1, <1>1 DEF BeginCreate, WorkIsAhead, InsertIsFresh, CallSeesItsRow,
       AckedWritesAreDurable, TypeOK, Sees, Idle
<1>2. ASSUME NEW s \in Slots, BeginUpdate(s) PROVE IndInv'
  <2>1. TypeOK'
    BY <1>2, ConstantsTyped DEF BeginUpdate, TypeOK, Call, Jobs
  <2>2. QED
    BY <2>1, <1>2 DEF BeginUpdate, WorkIsAhead, InsertIsFresh, CallSeesItsRow,
       AckedWritesAreDurable, TypeOK, Sees, Idle
<1>3. ASSUME NEW s \in Slots, Insert(s) PROVE IndInv'
  <2> DEFINE t == calls[s].task
             new == Inserted(file.work, t)
  <2>1. /\ calls[s] \in Call /\ calls[s].pc = "insert" /\ t \in Tasks
        /\ Home[s] \in Procs /\ Home[s] # Nobody
        /\ calls' = [calls EXCEPT ![s].pc = "commit"]
        /\ UNCHANGED <<drawn, acked, started, faults>>
    BY <1>3, SlotInCall DEF Insert
  <2>2. Sees(s) = file.work
    BY <1>3 DEF Insert, MayWrite, Sees, Seen, TypeOK, IsFile
  <2>3. /\ file' = [disk |-> file.disk, work |-> new, owner |-> Home[s]]
        /\ file.owner \in {Home[s], Nobody}
    BY <1>3, <2>2 DEF Insert, MayWrite, Written, TypeOK, IsFile
  <2>4. /\ DOMAIN new = DOMAIN file.work \cup {t}
        /\ new[t] = NewRow
        /\ \A x \in DOMAIN file.work : x # t /\ new[x] = file.work[x]
    BY <2>1 DEF Inserted, InsertIsFresh
  <2>5. IsTable(new)
    BY <2>1, <2>4, ConstantsTyped DEF TypeOK, IsTable, Inserted
  <2>6. /\ calls'[s] \in Call /\ calls'[s].pc = "commit" /\ calls'[s].task = t
        /\ calls'[s].row = calls[s].row
        /\ \A r \in Slots \ {s} : calls'[r] = calls[r]
    BY <2>1 DEF TypeOK, Call
  <2>7. TypeOK'
    BY <2>1, <2>3, <2>5, <2>6 DEF TypeOK, IsFile
  <2>8. WorkIsAhead'
    BY <2>3, <2>4 DEF WorkIsAhead
  <2>9. InsertIsFresh'
    BY <2>1, <2>3, <2>4, <2>6 DEF InsertIsFresh
  <2>10. CallSeesItsRow'
    <3>1. \A r \in Slots : \A x \in DOMAIN Sees(r) :
            x \in DOMAIN Sees(r)' /\ Sees(r)[x].ver =< Sees(r)'[x].ver
      <4>1. \A x \in DOMAIN file.work : file.work[x].ver \in Nat
        BY DEF TypeOK, IsTable, Row
      <4>2. MayWrite(file, Home[s]) /\ file' = Written(file, Home[s], new)
        BY <1>3, <2>2 DEF Insert
      <4>3. QED
        BY <2>1, <2>4, <4>1, <4>2, WriteAdvances
    <3>2. Sees(s)' = new
      BY <2>1, <2>3 DEF Sees, Seen
    <3>3. QED
      <4>1. calls'[s].row.ver =< Sees(s)'[calls'[s].task].ver
        BY <2>1, <2>4, <2>6, <3>2 DEF InsertIsFresh, NewRow
      <4>2. QED
        BY <2>4, <2>6, <2>7, <3>1, <3>2, <4>1, OthersStillSee
  <2>11. AckedWritesAreDurable'
    BY <2>1, <2>3 DEF AckedWritesAreDurable
  <2>12. QED
    BY <2>7, <2>8, <2>9, <2>10, <2>11
<1>4. ASSUME NEW s \in Slots, Select(s) PROVE IndInv'
  <2>1. calls[s] \in Call /\ calls[s].pc = "select"
    BY <1>4 DEF Select, TypeOK, Idle
  <2>2. /\ UNCHANGED <<file, drawn, acked, started, faults>>
        /\ \A r \in Slots \ {s} : calls'[r] = calls[r]
        /\ calls'[s] \in Call \cup {Idle}
        /\ calls'[s].pc \notin {"insert", "commit"}
        /\ calls'[s].pc = "write" => calls'[s].task \in DOMAIN Sees(s)
    <3>1. CASE calls[s].task \in DOMAIN Sees(s)
      <4>1. calls'[s] = [calls[s] EXCEPT !.pc = "write", !.row = Sees(s)[calls[s].task]]
        BY <1>4, <3>1 DEF Select, TypeOK
      <4>2. Sees(s)[calls[s].task] \in Row
        BY <3>1, SeesATable DEF IsTable
      <4>3. QED
        BY <1>4, <2>1, <3>1, <4>1, <4>2 DEF Select, TypeOK, Call
    <3>2. CASE calls[s].task \notin DOMAIN Sees(s)
      <4>1. calls'[s] = Returned(calls[s])
        BY <1>4, <3>2 DEF Select, TypeOK
      <4>2. QED
        BY <1>4, <2>1, <4>1, ReturnTyped DEF Select, TypeOK
    <3>3. QED
      BY <3>1, <3>2
  <2>3. calls' \in [Slots -> Call \cup {Idle}]
    BY <1>4, <2>2 DEF Select, TypeOK
  <2>4. TypeOK'
    BY <2>2, <2>3 DEF TypeOK
  <2>5. QED
    BY <2>2, <2>4 DEF WorkIsAhead, InsertIsFresh, CallSeesItsRow,
       AckedWritesAreDurable, Sees
<1>5. ASSUME NEW s \in Slots, Write(s) PROVE IndInv'
  <2> DEFINE t == calls[s].task
             row == [Merge(calls[s].row, calls[s].patch) EXCEPT !.ver = file.work[t].ver + 1]
             new == [file.work EXCEPT ![t] = row]
  <2>1. /\ calls[s] \in Call /\ calls[s].pc = "write"
        /\ t \in Tasks /\ calls[s].row \in Row /\ calls[s].patch \in Patch
        /\ Home[s] \in Procs /\ Home[s] # Nobody
        /\ UNCHANGED <<drawn, acked, started, faults>>
    BY <1>5, SlotInCall DEF Write
  <2>2. Sees(s) = file.work
    BY <1>5 DEF Write, MayWrite, Sees, Seen, TypeOK, IsFile
  <2>3. /\ MayWrite(file, Home[s])
        /\ file' = Written(file, Home[s], new)
        /\ file' = [disk |-> file.disk, work |-> new, owner |-> Home[s]]
        /\ calls' = [calls EXCEPT ![s] = [@ EXCEPT !.pc = "commit", !.row = row]]
    BY <1>5, <2>2 DEF Write, Written, TypeOK, IsFile
  <2>4. t \in DOMAIN file.work /\ file.work[t].ver \in Nat
    BY <2>1, <2>2 DEF CallSeesItsRow, TypeOK, IsTable, Row
  <2>5. row \in Row /\ row.ver = file.work[t].ver + 1
    BY <2>1, <2>4, MergeKeepsVersion DEF Row
  <2>6. /\ DOMAIN new = DOMAIN file.work
        /\ new[t] = row
        /\ \A x \in DOMAIN file.work : x # t => new[x] = file.work[x]
    BY <2>4
  <2>7. IsTable(new)
    BY <2>1, <2>4, <2>5, <2>6 DEF TypeOK, IsTable
  <2> HIDE DEF row, new
  <2>8. /\ calls'[s] \in Call /\ calls'[s].pc = "commit" /\ calls'[s].task = t
        /\ calls'[s].row = row
        /\ \A r \in Slots \ {s} : calls'[r] = calls[r]
    BY <2>1, <2>3, <2>5 DEF TypeOK, Call
  <2>9. TypeOK'
    BY <2>1, <2>3, <2>7, <2>8 DEF TypeOK, IsFile
  <2>10. \A x \in DOMAIN file.work : x \in DOMAIN new /\ file.work[x].ver =< new[x].ver
    BY <2>4, <2>5, <2>6 DEF TypeOK, IsTable, Row
  <2>11. WorkIsAhead'
    <3>1. \A x \in DOMAIN file.disk :
            /\ x \in DOMAIN file.work /\ file.disk[x].ver =< file.work[x].ver
            /\ file.disk[x].ver \in Nat /\ file.work[x].ver \in Nat
            /\ x \in DOMAIN new /\ file.work[x].ver =< new[x].ver /\ new[x].ver \in Nat
      BY <2>7, <2>10 DEF WorkIsAhead, TypeOK, IsTable, Row
    <3>2. \A x \in DOMAIN file.disk : file.disk[x].ver =< new[x].ver
      BY <3>1
    <3>3. QED
      BY <2>3, <3>1, <3>2 DEF WorkIsAhead
  <2>12. InsertIsFresh'
    BY <2>1, <2>3, <2>6, <2>8 DEF InsertIsFresh
  <2>13. CallSeesItsRow'
    <3>1. \A r \in Slots : \A x \in DOMAIN Sees(r) :
            x \in DOMAIN Sees(r)' /\ Sees(r)[x].ver =< Sees(r)'[x].ver
      BY <2>1, <2>3, <2>10, WriteAdvances
    <3>2. Sees(s)' = new
      BY <2>1, <2>3 DEF Sees, Seen
    <3>3. row.ver =< new[t].ver
      BY <2>4, <2>5, <2>6
    <3>4. QED
      BY <2>4, <2>6, <2>8, <2>9, <3>1, <3>2, <3>3, OthersStillSee
  <2>14. AckedWritesAreDurable'
    BY <2>1, <2>3 DEF AckedWritesAreDurable
  <2>15. QED
    BY <2>9, <2>11, <2>12, <2>13, <2>14
<1>6. ASSUME NEW s \in Slots, Commit(s) PROVE IndInv'
  <2> DEFINE t == calls[s].task
  <2>1. /\ calls[s] \in Call /\ calls[s].pc = "commit"
        /\ t \in Tasks /\ calls[s].row \in Row /\ Home[s] \in Procs /\ Home[s] # Nobody
        /\ UNCHANGED <<drawn, started, faults>>
    BY <1>6, SlotInCall DEF Commit
  <2>2. /\ calls' \in [Slots -> Call \cup {Idle}]
        /\ calls'[s].pc \in {"idle", "select", "work"}
        /\ \A r \in Slots \ {s} : calls'[r] = calls[r]
    <3>1. calls' = [calls EXCEPT ![s] = Returned(calls[s])]
      BY <1>6 DEF Commit
    <3>2. QED
      BY <2>1, <3>1, ReturnTyped DEF TypeOK
  <2>3. /\ IsFile(file', Procs) /\ IsTable(file'.disk)
        /\ file'.work = file.work /\ file'.owner # Home[s]
        /\ (file'.disk = file.work /\ file.owner = Home[s]) \/ file' = file
    BY <1>6, <2>1 DEF Commit, Committed, NewFile, TypeOK, IsFile
  <2>4. acked' = [acked EXCEPT ![t] = IF @ < calls[s].row.ver THEN calls[s].row.ver ELSE @]
    BY <1>6 DEF Commit
  <2>5. TypeOK'
    BY <2>1, <2>2, <2>3, <2>4 DEF TypeOK, Row
  <2>6. \A x \in DOMAIN file.disk :
          x \in DOMAIN file'.disk /\ file.disk[x].ver =< file'.disk[x].ver
    BY <2>3 DEF WorkIsAhead, TypeOK, IsTable, Row
  <2>7. WorkIsAhead'
    BY <2>3 DEF WorkIsAhead, TypeOK, IsTable, Row
  <2>8. InsertIsFresh'
    BY <2>1, <2>2, <2>3 DEF InsertIsFresh
  <2>9. \A r \in Slots : \A x \in DOMAIN Sees(r) :
          x \in DOMAIN Sees(r)' /\ Sees(r)[x].ver =< Sees(r)'[x].ver
    <3>1. \A r \in Slots : Sees(r)' = Sees(r) \/ (Sees(r) = file.disk /\ Sees(r)' = file'.disk)
      BY <2>3, <2>1 DEF Sees, Seen
    <3>2. \A r \in Slots : \A x \in DOMAIN Sees(r) : Sees(r)[x].ver \in Nat
      BY SeesATable DEF IsTable, Row
    <3>3. QED
      BY <2>6, <3>1, <3>2
  <2>10. CallSeesItsRow'
    BY <2>2, <2>5, <2>9, OthersStillSee
  <2>11. AckedWritesAreDurable'
    <3>1. /\ t \in DOMAIN file'.disk
          /\ calls[s].row.ver =< file'.disk[t].ver
      <4>1. Sees(s)' = file'.disk
        BY <2>3 DEF Sees, Seen
      <4>2. /\ t \in DOMAIN Sees(s) /\ calls[s].row.ver =< Sees(s)[t].ver
            /\ t \in DOMAIN Sees(s)' /\ Sees(s)[t].ver =< Sees(s)'[t].ver
        BY <2>1, <2>9 DEF CallSeesItsRow
      <4>3. /\ calls[s].row.ver \in Nat /\ Sees(s)[t].ver \in Nat
            /\ file'.disk[t].ver \in Nat
        BY <2>1, <2>5, <4>1, <4>2, SeesATable DEF TypeOK, IsTable, Row
      <4>4. QED
        BY <4>1, <4>2, <4>3
    <3>2. QED
      BY <2>1, <2>4, <2>6, <3>1, <2>5 DEF AckedWritesAreDurable, TypeOK, IsTable, Row
  <2>12. QED
    BY <2>5, <2>7, <2>8, <2>10, <2>11
<1>7. ASSUME NEW s \in Slots, Work(s) PROVE IndInv'
  <2>1. /\ calls[s] \in Call
        /\ UNCHANGED <<file, drawn, acked, started, faults>>
        /\ \E job \in {"run_done", "run_failed"}, patch \in Patch :
             calls' = [calls EXCEPT ![s] = [@ EXCEPT !.pc = "select", !.job = job,
                                                     !.patch = patch]]
    BY <1>7, SlotInCall, ConstantsTyped DEF Work
  <2>2. /\ calls' \in [Slots -> Call \cup {Idle}]
        /\ calls'[s].pc = "select"
        /\ \A r \in Slots \ {s} : calls'[r] = calls[r]
    <3>1. PICK job \in {"run_done", "run_failed"}, patch \in Patch :
            calls' = [calls EXCEPT ![s] = [calls[s] EXCEPT !.pc = "select", !.job = job,
                                                           !.patch = patch]]
      BY <2>1
    <3>2. [calls[s] EXCEPT !.pc = "select", !.job = job, !.patch = patch] \in Call
      BY <2>1 DEF Call, Jobs
    <3>3. QED
      BY <2>1, <3>1, <3>2 DEF TypeOK, Call
  <2>3. QED
    BY <2>1, <2>2 DEF TypeOK, WorkIsAhead, InsertIsFresh, CallSeesItsRow,
       AckedWritesAreDurable, Sees
<1>8. ASSUME NEW s \in Slots, Raise(s) PROVE IndInv'
  <2>1. /\ calls[s] \in Call
        /\ UNCHANGED <<file, drawn, acked, started>> /\ faults' \in Nat
        /\ calls' = [calls EXCEPT ![s] = AfterError(calls[s])]
    BY <1>8, SlotInCall DEF Raise, TypeOK
  <2>2. /\ calls' \in [Slots -> Call \cup {Idle}]
        /\ calls'[s].pc \in {"idle", "select"}
        /\ \A r \in Slots \ {s} : calls'[r] = calls[r]
    BY <2>1, ReturnTyped DEF TypeOK
  <2>3. QED
    BY <2>1, <2>2 DEF TypeOK, WorkIsAhead, InsertIsFresh, CallSeesItsRow,
       AckedWritesAreDurable, Sees
<1>9. ASSUME NEW p \in Procs, Crash(p) PROVE IndInv'
  <2>1. /\ UNCHANGED <<drawn, acked, started>> /\ faults' \in Nat
        /\ calls' = [s \in Slots |-> IF Home[s] = p THEN Idle ELSE calls[s]]
        /\ p # Nobody
    BY <1>9, NobodyAssumption DEF Crash, TypeOK
  <2>2. /\ IsFile(file', Procs) /\ file'.disk = file.disk
        /\ (file'.work = file.disk /\ file.owner = p) \/ file' = file
    BY <1>9 DEF Crash, Dropped, NewFile, TypeOK, IsFile
  <2>3. TypeOK'
    BY <2>1, <2>2 DEF TypeOK
  <2>4. WorkIsAhead'
    BY <2>2 DEF WorkIsAhead, TypeOK, IsTable, Row
  <2>5. DOMAIN file'.work \subseteq DOMAIN file.work
    BY <2>2 DEF WorkIsAhead
  <2>6. \A s \in Slots : calls'[s] = Idle \/ (calls'[s] = calls[s] /\ Home[s] # p)
    BY <2>1
  <2>7. InsertIsFresh'
    BY <2>1, <2>5, <2>6 DEF InsertIsFresh, Idle
  <2>8. \A s \in Slots : Home[s] # p => Sees(s)' = Sees(s)
    BY <1>9, <2>1 DEF Crash, Dropped, NewFile, Sees, Seen, TypeOK, IsFile
  <2>9. CallSeesItsRow'
    BY <2>6, <2>8 DEF CallSeesItsRow, Idle
  <2>10. AckedWritesAreDurable'
    BY <2>1, <2>2 DEF AckedWritesAreDurable
  <2>11. QED
    BY <2>3, <2>4, <2>7, <2>9, <2>10
<1>10. CASE UNCHANGED vars
  BY <1>10 DEF vars, TypeOK, WorkIsAhead, InsertIsFresh, CallSeesItsRow,
     AckedWritesAreDurable, Sees
<1>11. QED
  BY <1>1, <1>2, <1>3, <1>4, <1>5, <1>6, <1>7, <1>8, <1>9, <1>10 DEF Next, Step

\* The state always has its type, in every behaviour of the task store.
THEOREM TypeCorrect == Spec => []TypeOK
<1>1. IndInv => TypeOK
  BY DEF IndInv
<1>2. QED
  BY InitIndInv, StepIndInv, <1>1, PTL DEF Spec

\* A write that was acknowledged to its caller is never lost: it, or a later
\* write of the row, is in the committed table from then on.
THEOREM DurableWrites == Spec => []AckedWritesAreDurable
<1>1. IndInv => AckedWritesAreDurable
  BY DEF IndInv
<1>2. QED
  BY InitIndInv, StepIndInv, <1>1, PTL DEF Spec
-----------------------------------------------------------------------------
\* Statuses that only the runner sets, and the note it sets with each.
RunnerStatuses == {"completed", "failed"} \ ClientStatuses
Outcome(status) == IF status = "completed" THEN "done" ELSE "failed"

Paired(row) == row.status \in RunnerStatuses => row.note \in {Outcome(row.status), "patched"}

\* A patch that cannot part a status from its outcome: it sets both, or it leaves
\* the status alone and the note alone or patched.
PairedPatch(patch) ==
  /\ patch.status \in RunnerStatuses => patch.note \in {Outcome(patch.status), "patched"}
  /\ patch.status = Keep => patch.note \in {Keep, "patched"}

\* In the file, in the open transaction and in the rows that calls have read, the
\* status has its outcome; and every call will keep it so.
OutcomeInv ==
  /\ \A t \in DOMAIN file.disk : Paired(file.disk[t])
  /\ \A t \in DOMAIN file.work : Paired(file.work[t])
  /\ \A s \in Slots : calls[s].pc # "idle" =>
       Paired(calls[s].row) /\ PairedPatch(calls[s].patch)

\* A stale row patched as a whole is paired if it was.
LEMMA MergeKeepsPaired ==
  ASSUME NEW row \in Row, NEW patch \in Patch, NEW n \in Nat,
         Paired(row), PairedPatch(patch)
  PROVE  Paired([Merge(row, patch) EXCEPT !.ver = n])
<1>1. /\ Merge(row, patch).status = IF patch.status = Keep THEN row.status ELSE patch.status
      /\ Merge(row, patch).note = IF patch.note = Keep THEN row.note ELSE patch.note
      /\ Merge(row, patch) \in Row
  BY MergeKeepsVersion DEF Merge, Row, Patch
<1>2. /\ [Merge(row, patch) EXCEPT !.ver = n].status = Merge(row, patch).status
      /\ [Merge(row, patch) EXCEPT !.ver = n].note = Merge(row, patch).note
  BY <1>1 DEF Row
<1>3. Keep \notin RunnerStatuses /\ Keep \notin {"done", "failed", "patched"}
  BY DEF Keep, RunnerStatuses
<1>4. QED
  BY <1>1, <1>2, <1>3 DEF Paired, PairedPatch, Outcome

\* The patches of clients and of the runner, and a new row, are paired.
LEMMA ConstantsPaired ==
  /\ Paired(NewRow)
  /\ PairedPatch(StartedPatch) /\ PairedPatch(DonePatch) /\ PairedPatch(FailedPatch)
  /\ \A patch \in ClientPatches : PairedPatch(patch)
BY StatusAssumption DEF Paired, PairedPatch, RunnerStatuses, Outcome, NewRow, StartedPatch,
   DonePatch, FailedPatch, ClientPatches, PatchOf, Status, Keep

\* After a call or an error, the slot is idle or has the same row and a patch that
\* is the same or the runner's.
LEMMA ReturnPaired ==
  ASSUME NEW call \in Call, Paired(call.row), PairedPatch(call.patch)
  PROVE  /\ Returned(call).pc # "idle" =>
              Paired(Returned(call).row) /\ PairedPatch(Returned(call).patch)
         /\ AfterError(call).pc # "idle" =>
              Paired(AfterError(call).row) /\ PairedPatch(AfterError(call).patch)
BY ConstantsPaired DEF Returned, AfterError, Call, Idle

\* What a connection sees is paired.
LEMMA SeesPaired ==
  ASSUME TypeOK, OutcomeInv, NEW s \in Slots, NEW t \in DOMAIN Sees(s)
  PROVE  Paired(Sees(s)[t])
BY SeesATable DEF OutcomeInv

LEMMA InitOutcome == Init => OutcomeInv
BY DEF Init, OutcomeInv, NewFile, Idle

\* Every statement, call, error and crash keeps status and outcome together.
LEMMA StepOutcome == IndInv /\ OutcomeInv /\ [Next]_vars => OutcomeInv'
<1> SUFFICES ASSUME IndInv, OutcomeInv, [Next]_vars PROVE OutcomeInv'
  OBVIOUS
<1> USE DEF IndInv
<1>1. ASSUME NEW s \in Slots, BeginCreate(s) PROVE OutcomeInv'
  BY <1>1, ConstantsPaired DEF BeginCreate, OutcomeInv, TypeOK
<1>2. ASSUME NEW s \in Slots, BeginUpdate(s) PROVE OutcomeInv'
  BY <1>2, ConstantsPaired DEF BeginUpdate, OutcomeInv, TypeOK
<1>3. ASSUME NEW s \in Slots, Insert(s) PROVE OutcomeInv'
  <2>1. /\ calls[s] \in Call /\ calls' = [calls EXCEPT ![s].pc = "commit"]
        /\ Paired(calls[s].row) /\ PairedPatch(calls[s].patch)
    BY <1>3, SlotInCall DEF Insert, OutcomeInv
  <2>2. /\ calls'[s].row = calls[s].row /\ calls'[s].patch = calls[s].patch
        /\ \A r \in Slots \ {s} : calls'[r] = calls[r]
    BY <2>1 DEF TypeOK, Call
  <2>3. file'.disk = file.disk /\ file'.work = Inserted(Sees(s), calls[s].task)
    BY <1>3 DEF Insert, Written
  <2>4. \A t \in DOMAIN file'.work : Paired(file'.work[t])
    BY <2>3, SeesPaired, ConstantsPaired DEF Inserted
  <2>5. QED
    BY <2>1, <2>2, <2>3, <2>4 DEF OutcomeInv
<1>4. ASSUME NEW s \in Slots, Select(s) PROVE OutcomeInv'
  <2>1. /\ calls[s] \in Call /\ UNCHANGED file
        /\ Paired(calls[s].row) /\ PairedPatch(calls[s].patch)
    BY <1>4, SlotInCall DEF Select, OutcomeInv
  <2>2. \A r \in Slots \ {s} : calls'[r] = calls[r]
    BY <1>4 DEF Select, TypeOK
  <2>3. calls'[s].pc # "idle" => Paired(calls'[s].row) /\ PairedPatch(calls'[s].patch)
    <3>1. CASE calls[s].task \in DOMAIN Sees(s)
      <4>1. calls'[s] = [calls[s] EXCEPT !.pc = "write", !.row = Sees(s)[calls[s].task]]
        BY <1>4, <3>1 DEF Select, TypeOK
      <4>2. Paired(Sees(s)[calls[s].task])
        BY <3>1, SeesPaired
      <4>3. QED
        BY <2>1, <4>1, <4>2 DEF Call
    <3>2. CASE calls[s].task \notin DOMAIN Sees(s)
      <4>1. calls'[s] = Returned(calls[s])
        BY <1>4, <3>2 DEF Select, TypeOK
      <4>2. QED
        BY <2>1, <4>1, ReturnPaired
    <3>3. QED
      BY <3>1, <3>2
  <2>4. QED
    BY <2>1, <2>2, <2>3 DEF OutcomeInv
<1>5. ASSUME NEW s \in Slots, Write(s) PROVE OutcomeInv'
  <2> DEFINE t == calls[s].task
             row == [Merge(calls[s].row, calls[s].patch) EXCEPT !.ver = Sees(s)[t].ver + 1]
  <2>1. /\ calls[s] \in Call /\ calls[s].pc = "write"
        /\ calls[s].row \in Row /\ calls[s].patch \in Patch
        /\ Paired(calls[s].row) /\ PairedPatch(calls[s].patch)
    BY <1>5, SlotInCall DEF Write, OutcomeInv
  <2>2. t \in DOMAIN Sees(s) /\ Sees(s)[t].ver \in Nat
    BY <2>1, SeesATable DEF CallSeesItsRow, IsTable, Row
  <2>3. Paired(row)
    BY <2>1, <2>2, MergeKeepsPaired
  <2> HIDE DEF row
  <2>4. /\ file'.disk = file.disk /\ file'.work = [Sees(s) EXCEPT ![t] = row]
        /\ calls' = [calls EXCEPT ![s] = [@ EXCEPT !.pc = "commit", !.row = row]]
    BY <1>5 DEF Write, Written, row
  <2>5. /\ calls'[s].row = row /\ calls'[s].patch = calls[s].patch
        /\ \A r \in Slots \ {s} : calls'[r] = calls[r]
    BY <2>1, <2>4 DEF TypeOK, Call
  <2>6. \A x \in DOMAIN file'.work : Paired(file'.work[x])
    BY <2>3, <2>4, SeesPaired
  <2>7. QED
    BY <2>1, <2>3, <2>4, <2>5, <2>6 DEF OutcomeInv
<1>6. ASSUME NEW s \in Slots, Commit(s) PROVE OutcomeInv'
  <2>1. /\ calls[s] \in Call
        /\ Paired(calls[s].row) /\ PairedPatch(calls[s].patch)
    BY <1>6, SlotInCall DEF Commit, OutcomeInv
  <2>2. /\ calls'[s] = Returned(calls[s])
        /\ \A r \in Slots \ {s} : calls'[r] = calls[r]
    BY <1>6 DEF Commit, TypeOK
  <2>3. file'.disk \in {file.disk, file.work} /\ file'.work = file.work
    BY <1>6 DEF Commit, Committed, NewFile, TypeOK, IsFile
  <2>4. QED
    BY <2>1, <2>2, <2>3, ReturnPaired DEF OutcomeInv
<1>7. ASSUME NEW s \in Slots, Work(s) PROVE OutcomeInv'
  <2>1. calls[s] \in Call /\ UNCHANGED file /\ Paired(calls[s].row)
    BY <1>7, SlotInCall DEF Work, OutcomeInv
  <2>2. PICK job \in {"run_done", "run_failed"}, patch \in {DonePatch, FailedPatch} :
          calls' = [calls EXCEPT ![s] = [calls[s] EXCEPT !.pc = "select", !.job = job,
                                                         !.patch = patch]]
    BY <1>7 DEF Work
  <2>3. /\ calls'[s].row = calls[s].row /\ calls'[s].patch = patch
        /\ \A r \in Slots \ {s} : calls'[r] = calls[r]
    BY <2>1, <2>2 DEF TypeOK, Call
  <2>4. QED
    BY <2>1, <2>3, ConstantsPaired DEF OutcomeInv
<1>8. ASSUME NEW s \in Slots, Raise(s) PROVE OutcomeInv'
  <2>1. /\ calls[s] \in Call /\ UNCHANGED file
        /\ Paired(calls[s].row) /\ PairedPatch(calls[s].patch)
    BY <1>8, SlotInCall DEF Raise, OutcomeInv
  <2>2. /\ calls'[s] = AfterError(calls[s])
        /\ \A r \in Slots \ {s} : calls'[r] = calls[r]
    BY <1>8 DEF Raise, TypeOK
  <2>3. QED
    BY <2>1, <2>2, ReturnPaired DEF OutcomeInv
<1>9. ASSUME NEW p \in Procs, Crash(p) PROVE OutcomeInv'
  <2>1. file'.disk = file.disk /\ file'.work \in {file.disk, file.work}
    BY <1>9 DEF Crash, Dropped, NewFile, TypeOK, IsFile
  <2>2. \A s \in Slots : calls'[s] = Idle \/ calls'[s] = calls[s]
    BY <1>9 DEF Crash
  <2>3. QED
    BY <2>1, <2>2 DEF OutcomeInv, Idle
<1>10. CASE UNCHANGED vars
  BY <1>10 DEF vars, OutcomeInv
<1>11. QED
  BY <1>1, <1>2, <1>3, <1>4, <1>5, <1>6, <1>7, <1>8, <1>9, <1>10 DEF Next, Step

\* Whoever polls a task and finds a terminal status that only the runner sets finds
\* the outcome that the runner wrote with it, although update() writes back whole
\* rows that may be stale.
THEOREM OutcomesArePaired == Spec => []OutcomeComesWithStatus
<1>1. IndInv /\ OutcomeInv => OutcomeComesWithStatus
  <2> SUFFICES ASSUME IndInv, OutcomeInv PROVE OutcomeComesWithStatus
    OBVIOUS
  <2>1. \A p \in Procs : Seen(file, p) \in {file.work, file.disk}
    BY DEF Seen
  <2>2. QED
    BY <2>1 DEF OutcomeComesWithStatus, OutcomeInv, Paired, RunnerStatuses, Outcome
<1>2. QED
  BY InitIndInv, StepIndInv, InitOutcome, StepOutcome, <1>1, PTL DEF Spec
=============================================================================
