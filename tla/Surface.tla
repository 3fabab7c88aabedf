------------------------------ MODULE Surface ------------------------------
(***************************************************************************)
(* The HTTP surface of a process (src/src/yodmcp/api/app.py,               *)
(* a2a/server.py): every request passes the rate limiter, then waits, as   *)
(* the middleware runs the rest of the application in a task of its own,   *)
(* then meets authentication and its handler, which with the in-memory     *)
(* backends is one step.  Operators decide the requests that tool calls of *)
(* the process have queued, and agents create tasks.  The skills are read  *)
(* from the disk when the process starts.                                  *)
(***************************************************************************)
EXTENDS RateLimit, Skills, Tenancy

CONSTANTS
  TTL,          \* of an approval request, in seconds
  MaxApprovals, \* bound: approval requests
  MaxInFlight,  \* bound: requests between limiter and handler
  MaxRestarts,  \* bound: restarts
  ServedDisks,  \* bound: the disks on which requests are explored
  Unknown       \* an id that this process has not drawn: made up, or of another
                \* process or an earlier one

ASSUME SurfaceAssumption ==
  /\ {TTL, MaxApprovals, MaxInFlight, MaxRestarts} \subseteq Nat
  /\ ServedDisks \subseteq Disks
  /\ \A c \in Clients : c.tenant \in Tenants
  /\ Unknown \notin 1 .. MaxApprovals

VARIABLES
  up,           \* is the process serving?
  inflight,     \* the requests the limiter let pass, waiting for their handlers
  items,        \* the approval queue
  board,        \* _tasks of TaskManager: the tenant of each task, in order
  told,         \* what operators were answered since the start; not in the program
  restarts

vars == <<rateVars, skillsVars, up, inflight, items, board, told, restarts>>

Queue == INSTANCE HitlQueue
           WITH Tools <- {"sandbox_exec"}, Limits <- {1}, Operators <- ApiKeyIds,
                MaxRequests <- MaxApprovals, MaxTime <- MaxTime

NoItems == [r \in {} |-> {}]

Init == /\ RateInit
        /\ disk \in Disks /\ skills = BuiltinSkills
        /\ up = FALSE
        /\ inflight = << >> /\ items = NoItems /\ board = << >> /\ told = {}
        /\ restarts = 0

\* The bodies of requests; what an unknown id is decided to be does not matter.  The
\* metadata of a task may name a tenant.
Ops == [op : {"decide"}, request : 1 .. MaxApprovals, approve : BOOLEAN]
         \cup [op : {"decide"}, request : {Unknown}]
         \cup [op : {"pending", "message"}]
         \cup [op : {"task"}, tenant : Tenants]
-----------------------------------------------------------------------------
\* init_substrate() and the start of the server.
StartUp == /\ ~up /\ up' = TRUE /\ Start
           /\ UNCHANGED <<rateVars, inflight, items, board, told, restarts>>

\* A request comes to the limiter and, if it passes, waits for its handler.  Ids of
\* this process are known only once they are drawn.
Arrive(c, op) ==
  /\ up /\ disk \in ServedDisks
  /\ op.op = "decide" => op.request \in DOMAIN items \cup {Unknown}
  /\ Len(inflight) < MaxInFlight
  /\ Dispatch(c)
  /\ inflight' = IF Last(log').passed THEN Append(inflight, [client |-> c, op |-> op])
                                      ELSE inflight
  /\ UNCHANGED <<skillsVars, up, items, board, told, restarts>>

\* The i-th waiting request is next.
Leaves(i) == inflight' = RemoveAt(inflight, i)

\* get_auth_context(): 401.
Reject(i) ==
  /\ ~Accepted(inflight[i].client)
  /\ Leaves(i)
  /\ UNCHANGED <<rateVars, skillsVars, up, items, board, told, restarts>>

Meets(i, op) == Accepted(inflight[i].client) /\ inflight[i].op.op = op /\ Leaves(i)

\* What an operator has asked for and what it is answered of request r: the status
\* and decided_by of item.
Answer(i, r, item) ==
  [request |-> r, who |-> ApiKeyId(inflight[i].client),
   verdict |-> IF inflight[i].op.approve THEN "approved" ELSE "denied",
   status |-> item.status, by |-> item.by]

\* Mutant of Decide: the answer is put together before the decision.
DecideAfterAnswer(i) ==
  LET op == inflight[i].op
      r == op.request
  IN /\ Meets(i, "decide")
     /\ Queue!Decide(r, op.approve, ApiKeyId(inflight[i].client))
     /\ told' = told \cup {Answer(i, r, items[r])}
     /\ UNCHANGED <<buckets, backs, log, skillsVars, up, board, restarts>>

\* POST /api/hitl/{id}/decide: decide(), then what the request has become.
Decide(i) ==
  LET op == inflight[i].op
      r == op.request
  IN /\ Meets(i, "decide")
     /\ Queue!Decide(r, op.approve, ApiKeyId(inflight[i].client))
     /\ told' = told \cup {Answer(i, r, items'[r])}
     /\ UNCHANGED <<buckets, backs, log, skillsVars, up, board, restarts>>

\* The same with an unknown id: the answer is "not found", and nothing changes.
NotFound(i) ==
  /\ Meets(i, "decide") /\ inflight[i].op.request \notin DOMAIN items
  /\ UNCHANGED <<rateVars, skillsVars, up, items, board, told, restarts>>

\* GET /api/hitl/pending: what is late is expired on the way.
Pending(i) ==
  /\ Meets(i, "pending")
  /\ Queue!ListPending(inflight[i].client.tenant, 1)
  /\ UNCHANGED <<buckets, backs, log, skillsVars, up, board, told, restarts>>

\* POST /a2a/message with a text that begins with "task:": a task of the caller's
\* tenant.
Message(i) ==
  /\ Meets(i, "message")
  /\ board' = Append(board, inflight[i].client.tenant)
  /\ UNCHANGED <<rateVars, skillsVars, up, items, told, restarts>>

\* POST /a2a/tasks: a tenant in the metadata goes over that of the caller.
Create(i) ==
  /\ Meets(i, "task")
  /\ board' = Append(board, inflight[i].op.tenant)
  /\ UNCHANGED <<rateVars, skillsVars, up, items, told, restarts>>

\* A tool call of the process needs an approval.
Ask(t) == /\ up /\ disk \in ServedDisks
          /\ Queue!Enqueue(t, "sandbox_exec")
          /\ UNCHANGED <<rateVars, skillsVars, up, inflight, board, told, restarts>>

\* The process ends; whatever it kept in memory is gone.
Stop == /\ restarts < MaxRestarts /\ restarts' = restarts + 1
        /\ up /\ up' = FALSE
        /\ RateRestart
        /\ skills' = BuiltinSkills /\ UNCHANGED disk
        /\ inflight' = << >> /\ items' = NoItems /\ board' = << >> /\ told' = {}

\* Skills are installed and removed while it is down.
Install == /\ ~up /\ restarts > 0
           /\ disk' \in Disks
           /\ UNCHANGED <<rateVars, skills, up, inflight, items, board, told, restarts>>

Clock == /\ up /\ disk \in ServedDisks /\ (Tick \/ SetBack)
         /\ UNCHANGED <<skillsVars, up, inflight, items, board, told, restarts>>

Next == \/ StartUp \/ Stop \/ Install \/ Clock
        \/ \E c \in Clients, op \in Ops : Arrive(c, op)
        \/ \E i \in DOMAIN inflight : \/ Reject(i) \/ Decide(i) \/ NotFound(i)
                                     \/ Pending(i) \/ Message(i) \/ Create(i)
        \/ \E t \in Tenants : Ask(t)

Spec == Init /\ [][Next]_vars
-----------------------------------------------------------------------------
TypeOK ==
  /\ RateTypeOK
  /\ disk \in Disks /\ DOMAIN skills \subseteq Names /\ Builtin \subseteq DOMAIN skills
  /\ up \in BOOLEAN /\ restarts \in Nat
  /\ inflight \in Seq([client : Clients, op : Ops])
  /\ board \in Seq(Tenants)

\* A process that has started serves the skills of its disk.
StartedSkillsAreServed == up => SkillsAreServed

\* What an operator is told stays true until the process ends, however long requests
\* wait for their handlers and whatever the clock does: the request keeps the status
\* and the decided_by of every answer, none of them is still open, and a verdict is
\* one that somebody with that api_key_id has asked for and was told the same.
AnswersStayTrue ==
  \A a \in told :
    /\ items[a.request].status = a.status /\ items[a.request].by = a.by
    /\ a.status # "pending"
    /\ a.status # "expired" =>
         \E b \in told : /\ b.request = a.request /\ b.who = a.by
                         /\ b.verdict = a.status /\ b.status = a.status
=============================================================================
