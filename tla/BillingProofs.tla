--------------------------- MODULE BillingProofs ---------------------------
(***************************************************************************)
(* Type correctness of billing; then the entitlement is what the event     *)
(* that was written last asks for, and the plan in force is the            *)
(* entitlement: proofs of EntitlementIsLastWritten and                     *)
(* PlanFollowsEntitlement, for any tenants, plans, events in any order,    *)
(* slots, repeats, faults and restarts.                                    *)
(***************************************************************************)
EXTENDS Billing, TLAPS

\* The call at place n of the queue.
Queued(n) == calls[queue[n]]
Delivers(c) == c.pc \in {"write", "commit"}
Commits(c, t) == c.pc = "commit" /\ c.tenant = t

Typed ==
  /\ plan \in Plans /\ bound \in Tenants
  /\ file = [disk |-> file.disk, work |-> file.work, owner |-> file.owner]
  /\ file.owner \in {Api, Nobody} /\ (file.owner = Nobody => file.work = file.disk)
  /\ file.disk \in [Tenants -> Given] /\ file.work \in [Tenants -> Given]
  /\ calls \in [Slots -> Webhook \cup Status \cup {Idle}]
  /\ events \in [Tenants -> Seq(Given)]

\* The places of the queue are those of busy slots, each once.
QueueIsExact ==
  /\ queue \in Seq(Slots)
  /\ \A n \in DOMAIN queue : Queued(n) # Idle
  /\ \A m, n \in DOMAIN queue : queue[m] = queue[n] => m = n

Counters ==
  /\ counts \in [Tenants -> Nat] /\ day \in Nat
  /\ fresh \in BOOLEAN /\ served \subseteq Tenants /\ {started, faults} \subseteq Nat

\* Who is served waits for a statement, and what is delivered is an event.
Waiting(s) == \E n \in DOMAIN queue : queue[n] = s
IsEvent(c) == Delivers(c) => /\ c.event \in Sent
                             /\ c.plan = Means(c.event[1], c.event[2])
                             /\ Live => c.tenant = c.event[1]

CallsWait == \A s \in Slots : /\ calls[s] # Idle => Waiting(s)
                              /\ IsEvent(calls[s])

\* What Stripe was answered, and what was written, are events.
EventsKnown ==
  /\ answered \subseteq Sent /\ refused \subseteq Sent
  /\ wrote \in [Tenants -> Sent \cup {NoEvent}]
  /\ Live => \A t \in Tenants : wrote[t] # NoEvent => wrote[t][1] = t
  /\ sent \in [Tenants -> Nat] /\ \A t \in Tenants : sent[t] <= Len(events[t])
  /\ late \subseteq Tenants

TypeInv == Typed /\ QueueIsExact /\ Counters /\ CallsWait /\ EventsKnown
-----------------------------------------------------------------------------
\* The calls in the queue.
LEMMA QueuedTyped ==
  ASSUME Typed, QueueIsExact, NEW n \in DOMAIN queue
  PROVE  /\ n \in Nat /\ n >= 1 /\ n <= Len(queue) /\ Len(queue) \in Nat /\ queue[n] \in Slots
         /\ DOMAIN queue = 1 .. Len(queue)
         /\ Queued(n) \in Webhook \cup Status
         /\ Delivers(Queued(n)) => Queued(n) \in Webhook
         /\ Queued(n).pc \in {"select", "fetch"} => Queued(n) \in Status
         /\ Queued(n).pc \in {"write", "commit", "select", "fetch"}
         /\ Queued(n).tenant \in Tenants
<1>1. /\ n \in Nat /\ n >= 1 /\ n <= Len(queue) /\ Len(queue) \in Nat /\ queue[n] \in Slots
      /\ DOMAIN queue = 1 .. Len(queue)
  BY DEF QueueIsExact
<1>2. Queued(n) \in Webhook \cup Status
  BY <1>1 DEF Typed, QueueIsExact, Queued
<1>3. \A c \in Webhook : c.pc \in {"write", "commit"} /\ c.tenant \in Tenants
  BY DEF Webhook
<1>4. \A c \in Status : c.pc \in {"select", "fetch"} /\ c.tenant \in Tenants
  BY DEF Status
<1>5. QED
  BY <1>1, <1>2, <1>3, <1>4 DEF Delivers

\* The queue moves on by k places, and the call `new' comes to its end, if any does.
Follows(k, new) ==
  /\ k \in {0, 1}
  /\ \A n \in DOMAIN queue' :
       /\ n \in Nat /\ n >= 1 /\ n + k <= Len(queue) + 1
       /\ \/ n + k \in DOMAIN queue /\ Queued(n)' = Queued(n + k)
          \/ n + k = Len(queue) + 1 /\ Queued(n)' = new
  /\ \A n \in DOMAIN queue : n > k => n - k \in DOMAIN queue' /\ Queued(n - k)' = Queued(n)

\* A request enters.
LEMMA EnterFollows ==
  ASSUME Typed, QueueIsExact, NEW s \in Slots, NEW call \in Webhook \cup Status,
         Enter(s, call)
  PROVE  /\ calls' \in [Slots -> Webhook \cup Status \cup {Idle}]
         /\ QueueIsExact' /\ Follows(0, call)
<1>1. /\ calls[s] = Idle /\ calls' = [calls EXCEPT ![s] = call] /\ queue' = Append(queue, s)
  BY DEF Enter
<1>2. /\ calls' \in [Slots -> Webhook \cup Status \cup {Idle}]
      /\ calls'[s] = call /\ \A r \in Slots \ {s} : calls'[r] = calls[r]
  BY <1>1 DEF Typed
<1>3. /\ queue \in Seq(Slots) /\ Len(queue) \in Nat /\ DOMAIN queue = 1 .. Len(queue)
      /\ queue' \in Seq(Slots) /\ DOMAIN queue' = 1 .. Len(queue) + 1
      /\ queue'[Len(queue) + 1] = s /\ \A n \in DOMAIN queue : queue'[n] = queue[n]
  BY <1>1 DEF QueueIsExact
<1>4. \A n \in DOMAIN queue : queue[n] # s /\ queue[n] \in Slots
  BY <1>1, <1>3 DEF QueueIsExact, Queued
<1>5. call # Idle
  <2>1. \A c \in Webhook \cup Status : c.pc # "idle"
    BY DEF Webhook, Status
  <2>2. QED
    BY <2>1 DEF Idle
<1>6. \A n \in DOMAIN queue' : \/ n \in DOMAIN queue /\ Queued(n)' = Queued(n)
                               \/ n = Len(queue) + 1 /\ Queued(n)' = call
  BY <1>2, <1>3, <1>4 DEF Queued
<1>7. QueueIsExact'
  BY <1>3, <1>4, <1>5, <1>6 DEF QueueIsExact
<1>8. Follows(0, call)
  <2>1. \A n \in DOMAIN queue : n - 0 = n /\ n \in DOMAIN queue' /\ Queued(n)' = Queued(n)
    BY <1>2, <1>3, <1>4 DEF Queued
  <2>2. QED
    BY <1>3, <1>6, <2>1 DEF Follows
<1>9. QED
  BY <1>2, <1>7, <1>8

\* The call at the head awaits its next statement.
LEMMA AwaitFollows ==
  ASSUME Typed, QueueIsExact, NEW s \in Slots, NEW call \in Webhook \cup Status,
         queue # << >>, s = Head(queue), Await(s, call)
  PROVE  /\ calls' \in [Slots -> Webhook \cup Status \cup {Idle}]
         /\ QueueIsExact' /\ Follows(1, call)
<1>1. /\ calls' = [calls EXCEPT ![s] = call] /\ queue' = Append(Tail(queue), s)
  BY DEF Await
<1>2. /\ calls' \in [Slots -> Webhook \cup Status \cup {Idle}]
      /\ calls'[s] = call /\ \A r \in Slots \ {s} : calls'[r] = calls[r]
  BY <1>1 DEF Typed
<1>3. /\ queue \in Seq(Slots) /\ Len(queue) \in Nat /\ DOMAIN queue = 1 .. Len(queue)
      /\ Len(queue) >= 1 /\ queue[1] = s
      /\ queue' \in Seq(Slots) /\ DOMAIN queue' = 1 .. Len(queue)
      /\ queue'[Len(queue)] = s /\ \A n \in 1 .. Len(queue) - 1 : queue'[n] = queue[n + 1]
  BY <1>1 DEF QueueIsExact
<1>4. \A n \in DOMAIN queue \ {1} : queue[n] # s /\ queue[n] \in Slots
  BY <1>3 DEF QueueIsExact
<1>5. call # Idle
  <2>1. \A c \in Webhook \cup Status : c.pc # "idle"
    BY DEF Webhook, Status
  <2>2. QED
    BY <2>1 DEF Idle
<1>6. \A n \in DOMAIN queue' : \/ n + 1 \in DOMAIN queue /\ Queued(n)' = Queued(n + 1)
                                  /\ queue'[n] = queue[n + 1]
                               \/ n = Len(queue) /\ Queued(n)' = call
  BY <1>2, <1>3, <1>4 DEF Queued
<1>7. QueueIsExact'
  <2>1. \A m, n \in DOMAIN queue' : queue'[m] = queue'[n] => m = n
    <3>1. \A n \in 1 .. Len(queue) - 1 : queue'[n] # s
      BY <1>3, <1>4
    <3>2. \A m, n \in 1 .. Len(queue) - 1 : queue'[m] = queue'[n] => m = n
      <4>1. \A m, n \in 1 .. Len(queue) - 1 : queue[m + 1] = queue[n + 1] => m + 1 = n + 1
        BY <1>3 DEF QueueIsExact
      <4>2. QED
        BY <1>3, <4>1
    <3>3. QED
      BY <1>3, <3>1, <3>2
  <2>2. \A n \in DOMAIN queue' : Queued(n)' # Idle
    BY <1>5, <1>6 DEF QueueIsExact
  <2>3. QED
    BY <1>3, <2>1, <2>2 DEF QueueIsExact
<1>8. Follows(1, call)
  <2>1. ASSUME NEW n \in DOMAIN queue, n > 1
        PROVE  n - 1 \in DOMAIN queue' /\ Queued(n - 1)' = Queued(n)
    <3>1. n - 1 \in 1 .. Len(queue) - 1 /\ n - 1 + 1 = n
      BY <1>3, <2>1
    <3>2. queue'[n - 1] = queue[n]
      BY <1>3, <3>1
    <3>3. QED
      BY <1>2, <1>3, <1>4, <2>1, <3>1, <3>2 DEF Queued
  <2>2. QED
    BY <1>3, <1>6, <2>1 DEF Follows
<1>9. QED
  BY <1>2, <1>7, <1>8

\* The call at the head ends.
LEMMA LeaveFollows ==
  ASSUME Typed, QueueIsExact, NEW s \in Slots, queue # << >>, s = Head(queue), Leave(s)
  PROVE  /\ calls' \in [Slots -> Webhook \cup Status \cup {Idle}]
         /\ QueueIsExact' /\ Follows(1, Idle)
         /\ \A n \in DOMAIN queue' : n + 1 \in DOMAIN queue /\ Queued(n)' = Queued(n + 1)
<1>1. /\ calls' = [calls EXCEPT ![s] = Idle] /\ queue' = Tail(queue)
  BY DEF Leave
<1>2. /\ calls' \in [Slots -> Webhook \cup Status \cup {Idle}]
      /\ calls'[s] = Idle /\ \A r \in Slots \ {s} : calls'[r] = calls[r]
  BY <1>1 DEF Typed
<1>3. /\ queue \in Seq(Slots) /\ Len(queue) \in Nat /\ DOMAIN queue = 1 .. Len(queue)
      /\ Len(queue) >= 1 /\ queue[1] = s
      /\ queue' \in Seq(Slots) /\ DOMAIN queue' = 1 .. Len(queue) - 1
      /\ \A n \in 1 .. Len(queue) - 1 : queue'[n] = queue[n + 1]
  BY <1>1 DEF QueueIsExact
<1>4. \A n \in DOMAIN queue \ {1} : queue[n] # s /\ queue[n] \in Slots
  BY <1>3 DEF QueueIsExact
<1>5. \A n \in DOMAIN queue' : n + 1 \in DOMAIN queue /\ Queued(n)' = Queued(n + 1)
  BY <1>2, <1>3, <1>4 DEF Queued
<1>6. QueueIsExact'
  <2>1. \A m, n \in DOMAIN queue' : queue'[m] = queue'[n] => m = n
    <3>1. ASSUME NEW m \in DOMAIN queue', NEW n \in DOMAIN queue', queue'[m] = queue'[n]
          PROVE  m = n
      <4>1. m + 1 \in DOMAIN queue /\ n + 1 \in DOMAIN queue /\ queue[m + 1] = queue[n + 1]
        BY <1>3, <3>1
      <4>2. m + 1 = n + 1
        BY <4>1 DEF QueueIsExact
      <4>3. QED
        BY <1>3, <4>2
    <3>2. QED
      BY <3>1
  <2>2. QED
    BY <1>3, <1>5, <2>1 DEF QueueIsExact
<1>7. Follows(1, Idle)
  <2>1. ASSUME NEW n \in DOMAIN queue, n > 1
        PROVE  n - 1 \in DOMAIN queue' /\ Queued(n - 1)' = Queued(n)
    <3>1. n - 1 \in 1 .. Len(queue) - 1 /\ n - 1 + 1 = n
      BY <1>3, <2>1
    <3>2. QED
      BY <1>3, <1>5, <3>1
  <2>2. QED
    BY <1>3, <1>5, <2>1 DEF Follows
<1>8. QED
  BY <1>2, <1>5, <1>6, <1>7
\* The store's connection is the only one: it sees what it has written.
LEMMA FileTyped ==
  ASSUME Typed
  PROVE  /\ Seen(file, Api) = file.work /\ Api # Nobody
         /\ Committed(file, Api) = NewFile(file.work)
         /\ Dropped(file, Api) = NewFile(file.disk)
         /\ \A content : Written(file, Api, content) =
              [disk |-> file.disk, work |-> content, owner |-> Api]
<1>1. PICK d, w, o : file = [disk |-> d, work |-> w, owner |-> o]
  BY DEF Typed
<1>2. o \in {Api, Nobody} /\ (o = Nobody => w = d) /\ Api # Nobody
  BY <1>1, BillingAssumption DEF Typed
<1>3. /\ Seen(file, Api) = file.work
      /\ Committed(file, Api) = NewFile(file.work)
      /\ Dropped(file, Api) = NewFile(file.disk)
  BY <1>1, <1>2 DEF Seen, Committed, Dropped, NewFile
<1>4. ASSUME NEW content
      PROVE  Written(file, Api, content) = [disk |-> file.disk, work |-> content, owner |-> Api]
  <2>1. [file EXCEPT !.work = content] = [disk |-> d, work |-> content, owner |-> o]
    BY <1>1
  <2>2. Written(file, Api, content) = [[file EXCEPT !.work = content] EXCEPT !.owner = Api]
    BY DEF Written
  <2>3. QED
    BY <1>1, <2>1, <2>2
<1>5. QED
  BY <1>2, <1>3, <1>4
-----------------------------------------------------------------------------
LEMMA TypesFollow ==
  ASSUME TypeInv
  PROVE  BillingTypeOK
<1> USE DEF TypeInv
<1>1. IsFile(file, {Api}) /\ file.disk \in Rows /\ file.work \in Rows
  BY DEF Typed, IsFile, Rows
<1>2. calls \in [Slots -> Webhook \cup Status \cup {Idle}] /\ queue \in Seq(Slots)
  BY DEF Typed, QueueIsExact
<1>3. \A s \in Slots : calls[s] # Idle <=> \E i \in DOMAIN queue : queue[i] = s
  BY DEF CallsWait, Waiting, QueueIsExact, Queued
<1>4. ASSUME NEW t \in Tenants
      PROVE  sent[t] \in 0 .. Len(events[t])
  <2>1. sent[t] \in Nat /\ Len(events[t]) \in Nat /\ sent[t] <= Len(events[t])
    BY DEF EventsKnown, Typed
  <2>2. QED
    BY <2>1
<1>5. QED
  BY <1>1, <1>2, <1>3, <1>4 DEF BillingTypeOK, Typed, Counters, EventsKnown

\* An event is the number of one in the list of its tenant.
LEMMA SentIs ==
  ASSUME Typed, NEW e
  PROVE  e \in Sent <=> \E t \in Tenants : \E i \in Nat \ {0} :
           i <= Len(events[t]) /\ e = <<t, i>>
<1>1. \A t \in Tenants : DOMAIN events[t] = {i \in Nat \ {0} : i <= Len(events[t])}
  BY DEF Typed
<1>2. e \in Sent <=> \E t \in Tenants : e \in {t} \X DOMAIN events[t]
  BY DEF Sent
<1>3. QED
  BY <1>1, <1>2

\* New events leave the others what they were.
LEMMA SentStays ==
  ASSUME Typed, NEW t \in Tenants, NEW p \in Given,
         events' \in {events, [events EXCEPT ![t] = Append(@, p)]}
  PROVE  /\ events' \in [Tenants -> Seq(Given)]
         /\ \A u \in Tenants : Len(events[u]) <= Len(events'[u])
         /\ \A e \in Sent : e \in Sent' /\ Means(e[1], e[2])' = Means(e[1], e[2])
<1>1. events \in [Tenants -> Seq(Given)] /\ events' \in [Tenants -> Seq(Given)]
  <2>1. events \in [Tenants -> Seq(Given)] /\ Append(events[t], p) \in Seq(Given)
    BY DEF Typed
  <2>2. QED
    BY <2>1
<1>2. ASSUME NEW u \in Tenants
      PROVE  /\ Len(events[u]) \in Nat /\ Len(events'[u]) \in Nat
             /\ Len(events[u]) <= Len(events'[u])
             /\ \A i \in Nat \ {0} : i <= Len(events[u]) => events'[u][i] = events[u][i]
  <2>1. events[u] \in Seq(Given) /\ events'[u] \in {events[u], Append(events[u], p)}
    BY <1>1
  <2>2. QED
    BY <2>1
<1>3. ASSUME NEW e \in Sent
      PROVE  e \in Sent' /\ Means(e[1], e[2])' = Means(e[1], e[2])
  <2>1. PICK u \in Tenants, i \in Nat \ {0} : i <= Len(events[u]) /\ e = <<u, i>>
    BY <1>3, SentIs
  <2>2. i \in DOMAIN events'[u]
    BY <1>1, <1>2, <2>1
  <2>3. e \in Sent'
    BY <2>1, <2>2 DEF Sent
  <2>4. QED
    BY <1>2, <2>1, <2>3 DEF Means
<1>4. QED
  BY <1>1, <1>2, <1>3

\* A call stays fit, and the calls in the queue have an event each.
LEMMA EventsStay ==
  ASSUME TypeInv, NEW t \in Tenants, NEW p \in Given,
         events' \in {events, [events EXCEPT ![t] = Append(@, p)]}
  PROVE  \A c : IsEvent(c) => IsEvent(c)'
<1> USE DEF TypeInv
<1>1. \A e \in Sent : e \in Sent' /\ Means(e[1], e[2])' = Means(e[1], e[2])
  BY SentStays
<1>2. QED
  BY <1>1 DEF IsEvent, Delivers

LEMMA SentSame ==
  ASSUME UNCHANGED events
  PROVE  /\ Sent' = Sent /\ \A t, i : Means(t, i)' = Means(t, i)
         /\ \A c : IsEvent(c)' <=> IsEvent(c)
BY DEF Sent, Means, IsEvent, Delivers

\* What Stripe is answered and what is written are events in every step but those
\* that make events or send them.
LEMMA KnownStay ==
  ASSUME TypeInv, UNCHANGED <<events, sent, late>>, answered' \subseteq Sent,
         refused' \subseteq Sent,
         \/ UNCHANGED wrote
         \/ \E t \in Tenants, e \in Sent :
              wrote' = [wrote EXCEPT ![t] = e] /\ (Live => e[1] = t)
  PROVE  EventsKnown'
<1> USE DEF TypeInv, EventsKnown
<1>1. Sent' = Sent
  BY SentSame
<1>2. CASE UNCHANGED wrote
  BY <1>1, <1>2
<1>3. CASE \E t \in Tenants, e \in Sent :
             wrote' = [wrote EXCEPT ![t] = e] /\ (Live => e[1] = t)
  <2>1. PICK t \in Tenants, e \in Sent :
          wrote' = [wrote EXCEPT ![t] = e] /\ (Live => e[1] = t)
    BY <1>3
  <2>2. /\ wrote' \in [Tenants -> Sent \cup {NoEvent}] /\ wrote'[t] = e
        /\ \A u \in Tenants \ {t} : wrote'[u] = wrote[u]
    BY <2>1
  <2>3. ASSUME Live, NEW u \in Tenants, wrote'[u] # NoEvent PROVE wrote'[u][1] = u
    BY <2>1, <2>2, <2>3
  <2>4. QED
    BY <1>1, <2>2, <2>3
<1>4. QED
  BY <1>2, <1>3

\* A step of the queue: slot s has another call, and the others wait as before.
LEMMA OthersWait ==
  ASSUME TypeInv, NEW s \in Slots, NEW call, calls' = [calls EXCEPT ![s] = call],
         call = Idle \/ Waiting(s)', IsEvent(call), UNCHANGED events,
         \A n \in DOMAIN queue : queue[n] = s \/ \E m \in DOMAIN queue' : queue'[m] = queue[n]
  PROVE  CallsWait'
<1> USE DEF TypeInv
<1>1. calls'[s] = call /\ \A r \in Slots \ {s} : calls'[r] = calls[r]
  BY DEF Typed
<1>2. ASSUME NEW r \in Slots, calls'[r] # Idle
      PROVE  Waiting(r)'
  <2>1. CASE r = s
    BY <1>1, <1>2, <2>1 DEF Waiting
  <2>2. CASE r # s
    BY <1>1, <1>2, <2>2 DEF CallsWait, Waiting
  <2>3. QED
    BY <2>1, <2>2
<1>3. ASSUME NEW r \in Slots
      PROVE  IsEvent(calls[r])'
  <2>1. IsEvent(calls'[r])
    BY <1>1 DEF CallsWait
  <2>2. QED
    BY <2>1 DEF IsEvent, Delivers, Sent, Means
<1>4. QED
  BY <1>2, <1>3 DEF CallsWait

LEMMA EnterWaits ==
  ASSUME TypeInv, NEW s \in Slots, NEW call \in Webhook \cup Status, Enter(s, call),
         IsEvent(call), UNCHANGED events
  PROVE  /\ calls' \in [Slots -> Webhook \cup Status \cup {Idle}]
         /\ QueueIsExact' /\ CallsWait'
<1> USE DEF TypeInv
<1>1. /\ calls' = [calls EXCEPT ![s] = call] /\ queue' = Append(queue, s)
      /\ queue \in Seq(Slots)
  BY DEF Enter, QueueIsExact
<1>2. /\ DOMAIN queue' = 1 .. Len(queue) + 1 /\ DOMAIN queue = 1 .. Len(queue)
      /\ queue'[Len(queue) + 1] = s /\ \A n \in DOMAIN queue : queue'[n] = queue[n]
      /\ Len(queue) \in Nat
  BY <1>1
<1>3. Waiting(s)' /\ \A n \in DOMAIN queue : \E m \in DOMAIN queue' : queue'[m] = queue[n]
  BY <1>2 DEF Waiting
<1>4. CallsWait'
  BY <1>1, <1>3, OthersWait
<1>5. QED
  BY <1>4, EnterFollows

\* What holds at the head of the queue.
LEMMA HeadIsTyped ==
  ASSUME TypeInv, NEW s \in Slots, queue # << >>, s = Head(queue)
  PROVE  /\ 1 \in DOMAIN queue /\ queue[1] = s /\ calls[s] = Queued(1)
         /\ calls[s] \in Webhook \cup Status
         /\ Delivers(calls[s]) => calls[s] \in Webhook
         /\ calls[s].pc \in {"select", "fetch"} => calls[s] \in Status
         /\ IsEvent(calls[s]) /\ calls[s].tenant \in Tenants
<1> USE DEF TypeInv
<1>1. 1 \in DOMAIN queue /\ queue[1] = s
  BY DEF QueueIsExact
<1>2. calls[s] = Queued(1)
  BY <1>1 DEF Queued
<1>3. QED
  BY <1>1, <1>2, QueuedTyped DEF CallsWait

LEMMA AwaitWaits ==
  ASSUME TypeInv, NEW s \in Slots, NEW call \in Webhook \cup Status,
         queue # << >>, s = Head(queue), Await(s, call), IsEvent(call), UNCHANGED events
  PROVE  /\ calls' \in [Slots -> Webhook \cup Status \cup {Idle}]
         /\ QueueIsExact' /\ CallsWait'
<1> USE DEF TypeInv
<1>1. /\ calls' = [calls EXCEPT ![s] = call] /\ queue' = Append(Tail(queue), s)
      /\ queue \in Seq(Slots)
  BY DEF Await, QueueIsExact
<1>2. /\ DOMAIN queue' = 1 .. Len(queue) /\ DOMAIN queue = 1 .. Len(queue)
      /\ queue'[Len(queue)] = s /\ \A n \in 1 .. Len(queue) - 1 : queue'[n] = queue[n + 1]
      /\ Len(queue) \in Nat /\ Len(queue) >= 1 /\ queue[1] = s
  BY <1>1
<1>3. ASSUME NEW n \in DOMAIN queue, queue[n] # s
      PROVE  \E m \in DOMAIN queue' : queue'[m] = queue[n]
  <2>1. n - 1 \in 1 .. Len(queue) - 1 /\ n - 1 + 1 = n
    BY <1>2, <1>3
  <2>2. QED
    BY <1>2, <2>1
<1>4. Waiting(s)'
  BY <1>2 DEF Waiting
<1>5. CallsWait'
  BY <1>1, <1>3, <1>4, OthersWait
<1>6. QED
  BY <1>5, AwaitFollows

LEMMA LeaveWaits ==
  ASSUME TypeInv, NEW s \in Slots, queue # << >>, s = Head(queue), Leave(s), UNCHANGED events
  PROVE  /\ calls' \in [Slots -> Webhook \cup Status \cup {Idle}]
         /\ QueueIsExact' /\ CallsWait'
<1> USE DEF TypeInv
<1>1. calls' = [calls EXCEPT ![s] = Idle] /\ queue' = Tail(queue) /\ queue \in Seq(Slots)
  BY DEF Leave, QueueIsExact
<1>2. /\ DOMAIN queue' = 1 .. Len(queue) - 1 /\ DOMAIN queue = 1 .. Len(queue)
      /\ \A n \in 1 .. Len(queue) - 1 : queue'[n] = queue[n + 1]
      /\ Len(queue) \in Nat /\ Len(queue) >= 1 /\ queue[1] = s
  BY <1>1
<1>3. ASSUME NEW n \in DOMAIN queue, queue[n] # s
      PROVE  \E m \in DOMAIN queue' : queue'[m] = queue[n]
  <2>1. n - 1 \in 1 .. Len(queue) - 1 /\ n - 1 + 1 = n
    BY <1>2, <1>3
  <2>2. QED
    BY <1>2, <2>1
<1>4. IsEvent(Idle)
  BY DEF IsEvent, Delivers, Idle
<1>5. CallsWait'
  BY <1>1, <1>3, <1>4, OthersWait
<1>6. QED
  BY <1>5, LeaveFollows

\* What Stripe sells and what tools are called with: no request moves on.
LEMMA BoughtTyped ==
  ASSUME TypeInv, NEW t \in Tenants, NEW p \in Given,
         events' \in {events, [events EXCEPT ![t] = Append(@, p)]},
         UNCHANGED <<file, calls, queue, answered, refused, wrote, sent, late>>,
         plan' \in Plans, bound' \in Tenants
  PROVE  Typed' /\ QueueIsExact' /\ CallsWait' /\ EventsKnown'
<1> USE DEF TypeInv
<1>1. /\ events' \in [Tenants -> Seq(Given)]
      /\ \A u \in Tenants : Len(events[u]) <= Len(events'[u])
      /\ \A e \in Sent : e \in Sent'
  BY SentStays
<1>2. Typed'
  BY <1>1 DEF Typed
<1>3. QueueIsExact' /\ \A s \in Slots : Waiting(s)' <=> Waiting(s)
  BY DEF QueueIsExact, Queued, Waiting
<1>4. ASSUME NEW s \in Slots PROVE IsEvent(calls[s])'
  <2>1. IsEvent(calls[s])
    BY DEF CallsWait
  <2>2. PICK c : c = calls[s]
    OBVIOUS
  <2>3. IsEvent(c)'
    BY <2>1, <2>2, EventsStay
  <2>4. QED
    BY <2>2, <2>3 DEF IsEvent, Delivers
<1>5. CallsWait'
  BY <1>3, <1>4 DEF CallsWait
<1>6. ASSUME NEW u \in Tenants
      PROVE  sent[u] <= Len(events'[u])
  <2>1. /\ sent[u] \in Nat /\ sent[u] <= Len(events[u]) /\ Len(events[u]) <= Len(events'[u])
        /\ Len(events[u]) \in Nat /\ Len(events'[u]) \in Nat
    BY <1>1 DEF Typed, EventsKnown
  <2>2. QED
    BY <2>1
<1>7. EventsKnown'
  BY <1>1, <1>6 DEF EventsKnown
<1>8. QED
  BY <1>2, <1>3, <1>5, <1>7

LEMMA InitTyped ==
  ASSUME BillingInit
  PROVE  TypeInv
<1>1. /\ counts = [t \in Tenants |-> 0] /\ day = 0 /\ fresh = FALSE /\ served = {bound}
      /\ bound \in Tenants /\ plan = EnvPlan /\ started = 0 /\ faults = 0
      /\ calls = [s \in Slots |-> Idle] /\ queue = << >> /\ events = [t \in Tenants |-> << >>]
      /\ file = NewFile([t \in Tenants |-> NoPlan])
      /\ answered = {} /\ refused = {} /\ wrote = [t \in Tenants |-> NoEvent]
      /\ sent = [t \in Tenants |-> 0] /\ late = {}
  BY DEF BillingInit, QuotaInit
<1>2. Typed
  <2>1. [t \in Tenants |-> NoPlan] \in [Tenants -> Given]
    BY DEF Given
  <2>2. QED
    BY <1>1, <2>1, PlanAssumption DEF Typed, NewFile
<1>3. QueueIsExact
  BY <1>1 DEF QueueIsExact
<1>4. Counters
  <2>1. fresh \in BOOLEAN
    BY <1>1
  <2>2. QED
    BY <1>1, <2>1 DEF Counters
<1>5. CallsWait
  <2>1. IsEvent(Idle)
    BY DEF IsEvent, Delivers, Idle
  <2>2. QED
    BY <1>1, <2>1 DEF CallsWait
<1>6. EventsKnown
  BY <1>1 DEF EventsKnown
<1>7. QED
  BY <1>2, <1>3, <1>4, <1>5, <1>6 DEF TypeInv

\* The counters of a step.
LEMMA StepCounts ==
  ASSUME TypeInv, [BillingNext]_billingVars
  PROVE  Counters'
<1> USE DEF TypeInv, Counters
<1>1. bound \in Tenants
  BY DEF Typed
<1>2. ASSUME NEW t \in Tenants, NEW p \in Plans, Checkout(t, p)
      PROVE  Counters'
  BY <1>2 DEF Checkout, Serves
<1>3. ASSUME NEW t \in Tenants, Subscription(t)
      PROVE  Counters'
  BY <1>3 DEF Subscription, quotaVars, planGhosts
<1>4. ASSUME NEW t \in Tenants, Gate(t)
      PROVE  Counters'
  BY <1>4 DEF Gate, RecordAndCheck, Serves, Charged
<1>5. ASSUME NEW t \in Tenants, NEW s \in Slots, BeginStatus(s, t)
      PROVE  Counters'
  BY <1>5 DEF BeginStatus, Serves
<1>6. ASSUME NEW s \in Slots, NEW t \in Tenants, NEW i \in DOMAIN events[t], BeginWebhook(s, t, i)
      PROVE  Counters'
  BY <1>6 DEF BeginWebhook, Sends, quotaVars, planGhosts
<1>7. ASSUME NEW t \in Tenants, NEW i \in DOMAIN events[t], RefuseWebhook(t, i)
      PROVE  Counters'
  BY <1>7 DEF RefuseWebhook, quotaVars, planGhosts
<1>8. ASSUME NEW s \in Slots, WriteRow(s) \/ SelectRow(s)
      PROVE  Counters'
  BY <1>8 DEF WriteRow, SelectRow, quotaVars, planGhosts
<1>9. ASSUME NEW s \in Slots, Raise(s)
      PROVE  Counters'
  <2>1. fresh' \in BOOLEAN
    BY <1>9 DEF Raise
  <2>2. QED
    BY <1>9, <2>1 DEF Raise, quotaVars
<1>10. ASSUME NEW s \in Slots, CommitRow(s) \/ Fetch(s)
      PROVE  Counters'
  <2>1. UNCHANGED <<counts, day, served, started, faults>> /\ (fresh' = TRUE \/ UNCHANGED fresh)
    BY <1>10 DEF CommitRow, Fetch
  <2>2. QED
    BY <2>1
<1>11. CASE Restart
  <2>1. fresh' \in BOOLEAN
    BY <1>11 DEF Restart
  <2>2. QED
    BY <1>11, <2>1 DEF Restart
<1>12. CASE UNCHANGED billingVars
  BY <1>12 DEF billingVars, quotaVars, planGhosts
<1>13. QED
  BY <1>2, <1>3, <1>4, <1>5, <1>6, <1>7, <1>8, <1>9, <1>10, <1>11, <1>12 DEF BillingNext

\* The rest of a step: each statement keeps the file typed, and with it the queue.
LEMMA StepWaits ==
  ASSUME TypeInv, [BillingNext]_billingVars
  PROVE  Typed' /\ QueueIsExact' /\ CallsWait' /\ EventsKnown'
<1> USE DEF TypeInv
<1> DEFINE Goal == Typed' /\ QueueIsExact' /\ CallsWait' /\ EventsKnown'
<1>1. ASSUME NEW t \in Tenants, NEW p \in Plans, Checkout(t, p)
      PROVE  Goal
  <2>1. /\ UNCHANGED <<plan, file, calls, queue, answered, refused, wrote, sent, late>>
        /\ bound' = t /\ plan \in Plans
        /\ IF p \in PaidPlans THEN Happens(t, p) \/ Happens(t, NoPlan) ELSE UNCHANGED events
    BY <1>1 DEF Checkout, storeVars, eventGhosts, Typed
  <2>2. PICK q \in Given : events' \in {events, [events EXCEPT ![t] = Append(@, q)]}
    BY <2>1 DEF Given, Happens
  <2>3. QED
    BY <2>1, <2>2, BoughtTyped
<1>2. ASSUME NEW t \in Tenants, Subscription(t)
      PROVE  Goal
  <2>1. /\ UNCHANGED <<plan, bound, file, calls, queue, answered, refused, wrote, sent, late>>
        /\ plan \in Plans /\ bound \in Tenants /\ events[t] \in Seq(Given)
    BY <1>2 DEF Subscription, quotaVars, storeVars, eventGhosts, Typed
  <2>2. PICK q \in Given : events' = [events EXCEPT ![t] = Append(@, q)]
    <3>1. PICK i \in DOMAIN events[t] : Happens(t, events[t][i]) \/ Happens(t, NoPlan)
      BY <1>2 DEF Subscription
    <3>2. events[t][i] \in Given /\ NoPlan \in Given
      BY <2>1 DEF Given
    <3>3. QED
      BY <3>1, <3>2 DEF Happens
  <2>3. QED
    BY <2>1, <2>2, BoughtTyped
<1>3. ASSUME NEW t \in Tenants, Gate(t)
      PROVE  Goal
  <2>1. /\ UNCHANGED <<plan, file, calls, queue, answered, refused, wrote, sent, late, events>>
        /\ bound' = t /\ plan \in Plans /\ NoPlan \in Given
    BY <1>3 DEF Gate, RecordAndCheck, storeVars, stripeVars, eventGhosts, Typed, Given
  <2>2. QED
    BY <2>1, BoughtTyped
<1>4. ASSUME NEW t \in Tenants, NEW s \in Slots, BeginStatus(s, t)
      PROVE  Goal
  <2>1. PICK new : new = [pc |-> "select", tenant |-> t, row |-> NoPlan]
    OBVIOUS
  <2>2. new \in Status /\ IsEvent(new)
    BY <2>1 DEF Status, IsEvent, Delivers
  <2>3. /\ UNCHANGED <<plan, file, events, answered, refused, wrote, sent, late>>
        /\ Enter(s, new) /\ bound' = t
    BY <1>4, <2>1 DEF BeginStatus, stripeVars, eventGhosts
  <2>4. /\ calls' \in [Slots -> Webhook \cup Status \cup {Idle}]
        /\ QueueIsExact' /\ CallsWait'
    BY <2>2, <2>3, EnterWaits
  <2>5. EventsKnown'
    BY <2>3, KnownStay DEF EventsKnown
  <2>6. QED
    BY <2>3, <2>4, <2>5 DEF Typed
<1>5. ASSUME NEW s \in Slots, NEW t \in Tenants, NEW i \in DOMAIN events[t], BeginWebhook(s, t, i)
      PROVE  Goal
  <2>1. events[t] \in Seq(Given) /\ bound \in Tenants /\ sent \in [Tenants -> Nat]
    BY DEF Typed, EventsKnown
  <2>2. i \in Nat \ {0} /\ i <= Len(events[t]) /\ events[t][i] \in Given /\ Pro \in Given
    BY <2>1, BillingAssumption DEF Given
  <2>3. PICK new : new = [pc |-> "write", event |-> <<t, i>>, plan |-> Means(t, i),
                          tenant |-> IF Live THEN t ELSE bound]
    OBVIOUS
  <2>4. Means(t, i) \in Given
    BY <2>2 DEF Means
  <2>5. new \in Webhook
    BY <2>1, <2>2, <2>3, <2>4 DEF Webhook
  <2>6. IsEvent(new)
    BY <2>3 DEF IsEvent, Sent
  <2>7. /\ UNCHANGED <<plan, bound, file, events, answered, refused, wrote>>
        /\ Enter(s, new) /\ Sends(t, i)
    BY <1>5, <2>3 DEF BeginWebhook, Deliver, quotaVars, stripeVars
  <2>8. sent' = [sent EXCEPT ![t] = IF i < @ THEN @ ELSE i]
        /\ late' = IF i < sent[t] THEN late \cup {t} ELSE late
    BY <2>7 DEF Sends
  <2>9. sent' \in [Tenants -> Nat] /\ \A u \in Tenants : sent'[u] <= Len(events[u])
    BY <2>1, <2>2, <2>8 DEF EventsKnown
  <2>10. /\ calls' \in [Slots -> Webhook \cup Status \cup {Idle}]
         /\ QueueIsExact' /\ CallsWait'
    BY <2>5, <2>6, <2>7, EnterWaits
  <2>11. EventsKnown'
    BY <2>7, <2>8, <2>9, SentSame DEF EventsKnown
  <2>12. QED
    BY <2>7, <2>10, <2>11 DEF Typed
<1>6. ASSUME NEW t \in Tenants, NEW i \in DOMAIN events[t], RefuseWebhook(t, i)
      PROVE  Goal
  <2>1. /\ UNCHANGED <<plan, bound, file, calls, queue, events, wrote, sent, late>>
        /\ answered' = answered \ {<<t, i>>} /\ refused' = refused \cup {<<t, i>>}
    BY <1>6 DEF RefuseWebhook, quotaVars, storeVars, eventGhosts
  <2>2. <<t, i>> \in Sent
    BY DEF Sent
  <2>3. EventsKnown'
    BY <2>1, <2>2, KnownStay DEF EventsKnown
  <2>4. QueueIsExact' /\ CallsWait' /\ Typed'
    BY <2>1, SentSame DEF QueueIsExact, Queued, CallsWait, Waiting, IsEvent, Delivers, Typed
  <2>5. QED
    BY <2>3, <2>4
<1>7. ASSUME NEW s \in Slots, WriteRow(s)
      PROVE  Goal
  <2>1. /\ queue # << >> /\ s = Head(queue) /\ Delivers(calls[s])
        /\ UNCHANGED <<plan, bound, events, answered, refused, sent, late>>
        /\ Await(s, [calls[s] EXCEPT !.pc = "commit"])
        /\ wrote' = [wrote EXCEPT ![calls[s].tenant] = calls[s].event]
    BY <1>7 DEF WriteRow, At, quotaVars, stripeVars, Delivers
  <2>2. calls[s] \in Webhook /\ IsEvent(calls[s]) /\ calls[s].tenant \in Tenants
    BY <2>1, HeadIsTyped
  <2>3. PICK new : new = [calls[s] EXCEPT !.pc = "commit"]
    OBVIOUS
  <2>4. /\ new \in Webhook /\ new.event = calls[s].event
        /\ new.plan = calls[s].plan /\ new.tenant = calls[s].tenant
    BY <2>2, <2>3 DEF Webhook
  <2>5. IsEvent(new)
    BY <2>1, <2>2, <2>4 DEF IsEvent
  <2>6. /\ calls' \in [Slots -> Webhook \cup Status \cup {Idle}]
        /\ QueueIsExact' /\ CallsWait'
    BY <2>1, <2>3, <2>4, <2>5, AwaitWaits
  <2>7. PICK row : row = [file.work EXCEPT ![calls[s].tenant] = calls[s].plan]
    OBVIOUS
  <2>8. file' = [disk |-> file.disk, work |-> row, owner |-> Api]
    BY <1>7, <2>7, FileTyped DEF WriteRow
  <2>9. row \in [Tenants -> Given]
    BY <2>2, <2>7 DEF Webhook, Typed
  <2>10. Typed'
    BY <2>1, <2>6, <2>8, <2>9, FileTyped DEF Typed
  <2>11. EventsKnown'
    <3>1. calls[s].event \in Sent /\ (Live => calls[s].event[1] = calls[s].tenant)
      BY <2>1, <2>2 DEF IsEvent
    <3>2. QED
      BY <2>1, <2>2, <3>1, KnownStay DEF EventsKnown
  <2>12. QED
    BY <2>6, <2>10, <2>11
<1>8. ASSUME NEW s \in Slots, CommitRow(s)
      PROVE  Goal
  <2>1. /\ queue # << >> /\ s = Head(queue) /\ Delivers(calls[s]) /\ Leave(s)
        /\ UNCHANGED <<bound, events, refused, wrote, sent, late>> /\ file' = NewFile(file.work)
        /\ answered' = answered \cup {calls[s].event}
        /\ plan' = plan \/ (calls[s].plan # NoPlan /\ plan' = calls[s].plan)
    BY <1>8, FileTyped DEF CommitRow, At, Delivers, eventGhosts
  <2>2. calls[s] \in Webhook /\ IsEvent(calls[s])
    BY <2>1, HeadIsTyped
  <2>3. calls[s].plan \in Given /\ calls[s].event \in Sent
    BY <2>1, <2>2 DEF Webhook, IsEvent
  <2>4. plan' \in Plans
    BY <2>1, <2>3, BillingAssumption DEF Given, Typed
  <2>5. /\ calls' \in [Slots -> Webhook \cup Status \cup {Idle}]
        /\ QueueIsExact' /\ CallsWait'
    BY <2>1, LeaveWaits
  <2>6. EventsKnown'
    BY <2>1, <2>3, KnownStay DEF EventsKnown
  <2>7. QED
    BY <2>1, <2>4, <2>5, <2>6 DEF NewFile, Typed
<1>9. ASSUME NEW s \in Slots, SelectRow(s)
      PROVE  Goal
  <2>1. /\ queue # << >> /\ s = Head(queue) /\ calls[s].pc = "select"
        /\ UNCHANGED <<plan, bound, file, events, answered, refused, wrote, sent, late>>
        /\ Await(s, [calls[s] EXCEPT !.pc = "fetch", !.row = file.work[calls[s].tenant]])
    BY <1>9, FileTyped DEF SelectRow, At, quotaVars, stripeVars, eventGhosts
  <2>2. calls[s] \in Status
    BY <2>1, HeadIsTyped
  <2>3. file.work[calls[s].tenant] \in Plans \cup {NoPlan}
    BY <2>2, BillingAssumption DEF Status, Typed, Given
  <2>4. PICK new : new = [calls[s] EXCEPT !.pc = "fetch", !.row = file.work[calls[s].tenant]]
    OBVIOUS
  <2>5. new \in Status /\ new.pc = "fetch"
    BY <2>2, <2>3, <2>4 DEF Status
  <2>6. IsEvent(new)
    BY <2>5 DEF IsEvent, Delivers
  <2>7. /\ calls' \in [Slots -> Webhook \cup Status \cup {Idle}]
        /\ QueueIsExact' /\ CallsWait'
    BY <2>1, <2>4, <2>5, <2>6, AwaitWaits
  <2>8. EventsKnown'
    BY <2>1, KnownStay DEF EventsKnown
  <2>9. QED
    BY <2>1, <2>7, <2>8 DEF Typed
<1>10. ASSUME NEW s \in Slots, Fetch(s) \/ Raise(s)
      PROVE  Goal
  <2>1. /\ queue # << >> /\ s = Head(queue) /\ Leave(s)
        /\ UNCHANGED <<bound, file, events, refused, wrote, sent, late>>
        /\ answered' \subseteq answered
        /\ \/ plan' = plan
           \/ calls[s].pc = "fetch" /\ calls[s].row # NoPlan /\ plan' = calls[s].row
    BY <1>10 DEF Fetch, Raise, At, quotaVars, stripeVars, eventGhosts
  <2>2. plan' \in Plans
    BY <2>1, HeadIsTyped DEF Status, Typed
  <2>3. /\ calls' \in [Slots -> Webhook \cup Status \cup {Idle}]
        /\ QueueIsExact' /\ CallsWait'
    BY <2>1, LeaveWaits
  <2>4. EventsKnown'
    BY <2>1, KnownStay DEF EventsKnown
  <2>5. QED
    BY <2>1, <2>2, <2>3, <2>4 DEF Typed
<1>11. CASE Restart
  <2>1. /\ calls' = [s \in Slots |-> Idle] /\ queue' = << >> /\ file' = NewFile(file.disk)
        /\ plan' = EnvPlan /\ bound' \in Tenants /\ answered' \subseteq answered
        /\ UNCHANGED <<events, refused, wrote, sent, late>>
    BY <1>11, FileTyped DEF Restart, eventGhosts
  <2>2. Typed'
    BY <2>1, PlanAssumption DEF NewFile, Typed
  <2>3. QueueIsExact'
    BY <2>1 DEF QueueIsExact
  <2>4. \A s \in Slots : calls'[s] = Idle /\ IsEvent(calls[s])'
    BY <2>1 DEF IsEvent, Delivers, Idle
  <2>5. CallsWait'
    BY <2>1, <2>4 DEF CallsWait
  <2>6. EventsKnown'
    BY <2>1, KnownStay DEF EventsKnown
  <2>7. QED
    BY <2>2, <2>3, <2>5, <2>6
<1>12. CASE UNCHANGED billingVars
  <2>1. UNCHANGED <<plan, bound, file, calls, queue, events, answered, refused, wrote, sent, late>>
    BY <1>12 DEF billingVars, quotaVars, storeVars, stripeVars, eventGhosts
  <2>2. EventsKnown'
    BY <2>1, KnownStay DEF EventsKnown
  <2>3. QED
    BY <2>1, <2>2, SentSame DEF Typed, QueueIsExact, Queued, CallsWait, Waiting, IsEvent, Delivers
<1>13. QED
  BY <1>1, <1>2, <1>3, <1>4, <1>5, <1>6, <1>7, <1>8, <1>9, <1>10, <1>11, <1>12 DEF BillingNext

LEMMA TypesStay ==
  ASSUME TypeInv, [BillingNext]_billingVars
  PROVE  TypeInv'
BY StepCounts, StepWaits DEF TypeInv

\* Type correctness, with or without metadata: the queue is of the busy slots, and
\* no event is sent, written, answered or refused that Stripe did not make.
THEOREM BillingTyped == BillingSpec => []BillingTypeOK
<1>1. BillingInit => TypeInv
  BY InitTyped
<1>2. TypeInv /\ [BillingNext]_billingVars => TypeInv'
  BY TypesStay
<1>3. TypeInv => BillingTypeOK
  BY TypesFollow
<1>4. QED
  BY <1>1, <1>2, <1>3, PTL DEF BillingSpec
-----------------------------------------------------------------------------
\* Who waits for a commit is, or is before, a delivery of the event that wrote the row
\* of its tenant last, and the row in the transaction is what that event asks for.
Meant(e) == Means(e[1], e[2])

CommitsWrote(t) ==
  \A n \in DOMAIN queue : Commits(Queued(n), t) =>
    /\ file.work[t] = Meant(wrote[t])
    /\ \E m \in DOMAIN queue : m >= n /\ Commits(Queued(m), t) /\ Queued(m).event = wrote[t]

\* The row that was written last is in the transaction, once its event is handled,
\* and in the file unless a commit is to come.
RowIsLast(t) ==
  /\ wrote[t] \in answered => /\ file.work[t] = Meant(wrote[t])
                              /\ file.disk[t] = file.work[t] \/ Committing(t)
  /\ wrote[t] = NoEvent => file.disk[t] = NoPlan /\ file.work[t] = NoPlan

\* A row on its way to a status request is an old one only if a commit of a newer one
\* is behind it.
FetchesAreCurrent(t) ==
  \A n \in DOMAIN queue : Queued(n).pc = "fetch" /\ Queued(n).tenant = t =>
    Queued(n).row = file.work[t] \/ \E m \in DOMAIN queue : m > n /\ Commits(Queued(m), t)

\* The only tenant served has the plan of its row, or a commit is to come.
IsServed(c) == c.pc \in {"select", "fetch"} => c.tenant \in served

PlanIsCurrent(t) ==
  served = {t} /\ fresh => file.work[t] \in {plan, NoPlan} \/ Committing(t)

BillingInv ==
  /\ TypeInv
  /\ bound \in served /\ \A n \in DOMAIN queue : IsServed(Queued(n))
  /\ \A t \in Tenants : CommitsWrote(t) /\ FetchesAreCurrent(t) /\ PlanIsCurrent(t)
                        /\ (Live => RowIsLast(t))

LEMMA CommittingIs ==
  \A t : Committing(t) <=> \E n \in DOMAIN queue : Commits(Queued(n), t)
BY DEF Committing, Commits, Queued

LEMMA MeantStays ==
  ASSUME UNCHANGED events
  PROVE  \A e : Meant(e)' = Meant(e)
BY DEF Meant, Means

\* The queue moves on, no commit of t enters or leaves, and the row of t stays: what
\* holds of its commits still does, and of the status requests, if the one that
\* enters has the present row.
LEMMA CommitsMove ==
  ASSUME QueueIsExact, QueueIsExact', NEW t, NEW k, NEW new, Follows(k, new),
         \A n \in DOMAIN queue : n <= k => ~Commits(Queued(n), t),
         ~Commits(new, t),
         new.pc = "fetch" /\ new.tenant = t => new.row = file.work[t],
         UNCHANGED events, wrote'[t] = wrote[t], file'.work[t] = file.work[t],
         CommitsWrote(t), FetchesAreCurrent(t)
  PROVE  CommitsWrote(t)' /\ FetchesAreCurrent(t)' /\ (Committing(t)' <=> Committing(t))
<1>1. /\ k \in {0, 1} /\ DOMAIN queue \subseteq Nat /\ DOMAIN queue' \subseteq Nat
      /\ \A n \in DOMAIN queue' : n >= 1
  BY DEF Follows, QueueIsExact
<1>2. \A n \in DOMAIN queue' :
        \/ n + k \in DOMAIN queue /\ n + k > k /\ Queued(n)' = Queued(n + k)
        \/ Queued(n)' = new
  BY <1>1 DEF Follows
<1>3. \A n \in DOMAIN queue : n > k =>
        n - k \in DOMAIN queue' /\ Queued(n - k)' = Queued(n)
  BY DEF Follows
<1>4. \A e : Meant(e)' = Meant(e)
  BY MeantStays
<1>5. CommitsWrote(t)'
  <2>1. SUFFICES ASSUME NEW n \in DOMAIN queue', Commits(Queued(n)', t)
                 PROVE  /\ file.work[t] = Meant(wrote[t])
                        /\ \E m \in DOMAIN queue' : m >= n /\ Commits(Queued(m)', t)
                                                    /\ Queued(m)'.event = wrote[t]
    BY <1>4 DEF CommitsWrote, Commits
  <2>2. n + k \in DOMAIN queue /\ Queued(n)' = Queued(n + k) /\ n \in Nat
    BY <1>1, <1>2, <2>1
  <2>3. PICK m \in DOMAIN queue : m >= n + k /\ Commits(Queued(m), t) /\ Queued(m).event = wrote[t]
    BY <2>1, <2>2 DEF CommitsWrote
  <2>4. m > k /\ m - k >= n
    BY <1>1, <2>2, <2>3
  <2>5. m - k \in DOMAIN queue' /\ Queued(m - k)' = Queued(m)
    BY <1>3, <2>4
  <2>6. QED
    BY <2>1, <2>2, <2>3, <2>4, <2>5 DEF CommitsWrote
<1>6. FetchesAreCurrent(t)'
  <2>1. SUFFICES ASSUME NEW n \in DOMAIN queue', Queued(n)'.pc = "fetch", Queued(n)'.tenant = t
                 PROVE  \/ Queued(n)'.row = file.work[t]
                        \/ \E m \in DOMAIN queue' : m > n /\ Commits(Queued(m)', t)
    BY DEF FetchesAreCurrent, Commits
  <2>2. CASE Queued(n)' = new
    BY <2>1, <2>2
  <2>3. CASE n + k \in DOMAIN queue /\ Queued(n)' = Queued(n + k)
    <3>1. CASE Queued(n + k).row = file.work[t]
      BY <2>3, <3>1
    <3>2. CASE \E m \in DOMAIN queue : m > n + k /\ Commits(Queued(m), t)
      <4>1. PICK m \in DOMAIN queue : m > n + k /\ Commits(Queued(m), t)
        BY <3>2
      <4>2. m > k /\ m - k > n
        BY <1>1, <4>1
      <4>3. QED
        BY <1>3, <4>1, <4>2
    <3>3. QED
      BY <2>1, <2>3, <3>1, <3>2 DEF FetchesAreCurrent
  <2>4. QED
    BY <1>2, <2>2, <2>3
<1>7. Committing(t)' <=> Committing(t)
  <2>1. Committing(t)' <=> \E n \in DOMAIN queue' : Commits(Queued(n)', t)
    BY DEF Committing, Commits, Queued
  <2>2. ASSUME NEW n \in DOMAIN queue, Commits(Queued(n), t)
        PROVE  \E m \in DOMAIN queue' : Commits(Queued(m)', t)
    <3>1. n > k
      BY <1>1, <2>2
    <3>2. QED
      BY <1>3, <2>2, <3>1
  <2>3. ASSUME NEW n \in DOMAIN queue', Commits(Queued(n)', t)
        PROVE  \E m \in DOMAIN queue : Commits(Queued(m), t)
    BY <1>2, <2>3
  <2>4. QED
    BY <2>1, <2>2, <2>3, CommittingIs
<1>8. QED
  BY <1>5, <1>6, <1>7

\* A delivery of t leaves from the head: what holds of the other commits of t and of
\* the status requests still does, and if it was the last one, it wrote the row.
LEMMA CommitsLeave ==
  ASSUME TypeInv, QueueIsExact', NEW t \in Tenants, Follows(1, Idle), NEW c, c = Queued(1),
         1 \in DOMAIN queue, Commits(c, t), UNCHANGED events, wrote'[t] = wrote[t],
         file'.work[t] = file.work[t], CommitsWrote(t), FetchesAreCurrent(t)
  PROVE  /\ CommitsWrote(t)' /\ FetchesAreCurrent(t)'
         /\ file.work[t] = Meant(wrote[t])
         /\ Committing(t)' \/ (c.event = wrote[t] /\ c.plan = file.work[t])
<1>1. /\ DOMAIN queue \subseteq Nat /\ DOMAIN queue' \subseteq Nat
      /\ \A n \in DOMAIN queue' : n >= 1
  BY DEF Follows, QueueIsExact, TypeInv
<1>2. \A n \in DOMAIN queue' :
        \/ n + 1 \in DOMAIN queue /\ Queued(n)' = Queued(n + 1)
        \/ Queued(n)' = Idle
  BY <1>1 DEF Follows
<1>3. \A n \in DOMAIN queue : n > 1 =>
        n - 1 \in DOMAIN queue' /\ Queued(n - 1)' = Queued(n)
  BY DEF Follows
<1>4. \A e : Meant(e)' = Meant(e)
  BY MeantStays
<1>5. ~Commits(Idle, t) /\ Idle.pc # "fetch"
  BY DEF Commits, Idle
<1>6. CommitsWrote(t)'
  <2>1. SUFFICES ASSUME NEW n \in DOMAIN queue', Commits(Queued(n)', t)
                 PROVE  /\ file.work[t] = Meant(wrote[t])
                        /\ \E m \in DOMAIN queue' : m >= n /\ Commits(Queued(m)', t)
                                                    /\ Queued(m)'.event = wrote[t]
    BY <1>4 DEF CommitsWrote, Commits
  <2>2. n + 1 \in DOMAIN queue /\ Queued(n)' = Queued(n + 1) /\ n \in Nat /\ n >= 1
    BY <1>1, <1>2, <1>5, <2>1
  <2>3. PICK m \in DOMAIN queue : m >= n + 1 /\ Commits(Queued(m), t) /\ Queued(m).event = wrote[t]
    BY <2>1, <2>2 DEF CommitsWrote
  <2>4. m > 1 /\ m - 1 >= n
    BY <1>1, <2>2, <2>3
  <2>5. m - 1 \in DOMAIN queue' /\ Queued(m - 1)' = Queued(m)
    BY <1>3, <2>4
  <2>6. QED
    BY <2>1, <2>2, <2>3, <2>4, <2>5 DEF CommitsWrote
<1>7. FetchesAreCurrent(t)'
  <2>1. SUFFICES ASSUME NEW n \in DOMAIN queue', Queued(n)'.pc = "fetch", Queued(n)'.tenant = t
                 PROVE  \/ Queued(n)'.row = file.work[t]
                        \/ \E m \in DOMAIN queue' : m > n /\ Commits(Queued(m)', t)
    BY DEF FetchesAreCurrent, Commits
  <2>2. n + 1 \in DOMAIN queue /\ Queued(n)' = Queued(n + 1) /\ n \in Nat /\ n >= 1
    BY <1>1, <1>2, <1>5, <2>1
  <2>3. CASE Queued(n + 1).row = file.work[t]
    BY <2>2, <2>3
  <2>4. CASE \E m \in DOMAIN queue : m > n + 1 /\ Commits(Queued(m), t)
    <3>1. PICK m \in DOMAIN queue : m > n + 1 /\ Commits(Queued(m), t)
      BY <2>4
    <3>2. m > 1 /\ m - 1 > n
      BY <1>1, <2>2, <3>1
    <3>3. QED
      BY <1>3, <3>1, <3>2
  <2>5. QED
    BY <2>1, <2>2, <2>3, <2>4 DEF FetchesAreCurrent
<1>8. PICK m \in DOMAIN queue : m >= 1 /\ Commits(Queued(m), t) /\ Queued(m).event = wrote[t]
                                /\ file.work[t] = Meant(wrote[t])
  BY DEF CommitsWrote
<1>9. CASE m > 1
  <2>1. Commits(Queued(m - 1)', t) /\ m - 1 \in DOMAIN queue'
    BY <1>3, <1>8, <1>9
  <2>2. Committing(t)'
    BY <2>1 DEF Committing, Commits, Queued
  <2>3. QED
    BY <1>6, <1>7, <1>8, <2>2
<1>10. CASE m = 1
  <2>1. queue[1] \in Slots /\ c = calls[queue[1]] /\ Delivers(c)
    BY DEF TypeInv, QueueIsExact, Queued, Commits, Delivers
  <2>2. c.plan = Means(c.event[1], c.event[2])
    BY <2>1 DEF TypeInv, CallsWait, IsEvent
  <2>3. QED
    BY <1>6, <1>7, <1>8, <1>10, <2>2 DEF Meant
<1>11. QED
  BY <1>1, <1>8, <1>9, <1>10
-----------------------------------------------------------------------------
\* Purchases, tool calls and refused events: no request moves on, no row changes.
LEMMA QuietKeeps ==
  ASSUME BillingInv, TypeInv', UNCHANGED <<plan, file, calls, queue, wrote, fresh>>,
         answered' \subseteq answered, served \subseteq served', bound' \in served',
         \A e \in Sent : Means(e[1], e[2])' = Means(e[1], e[2])
  PROVE  BillingInv'
<1> USE DEF BillingInv
<1>1. \A n \in DOMAIN queue : IsServed(Queued(n))'
  BY DEF IsServed, Queued
<1>2. ASSUME NEW t \in Tenants
      PROVE  CommitsWrote(t)' /\ FetchesAreCurrent(t)' /\ PlanIsCurrent(t)'
             /\ (Live => RowIsLast(t)')
  <2>1. Committing(t)' <=> Committing(t)
    BY DEF Committing
  <2>2. wrote[t] \in Sent => Meant(wrote[t])' = Meant(wrote[t])
    BY DEF Meant
  <2>3. FetchesAreCurrent(t)'
    BY DEF FetchesAreCurrent, Commits, Queued
  <2>4. Committing(t) => wrote[t] \in Sent
    <3>1. ASSUME Committing(t)
          PROVE  wrote[t] \in Sent
      <4>1. PICK m \in DOMAIN queue : Commits(Queued(m), t) /\ Queued(m).event = wrote[t]
        BY <3>1, CommittingIs DEF CommitsWrote
      <4>2. queue[m] \in Slots
        BY DEF TypeInv, QueueIsExact
      <4>3. QED
        BY <4>1, <4>2 DEF TypeInv, CallsWait, IsEvent, Delivers, Queued, Commits
    <3>2. QED
      BY <3>1
  <2>5. CommitsWrote(t)'
    BY <2>2, <2>4, CommittingIs DEF CommitsWrote, Commits, Queued
  <2>6. PlanIsCurrent(t)'
    <3>1. served' = {t} => served = {t}
      OBVIOUS
    <3>2. QED
      BY <2>1, <3>1 DEF PlanIsCurrent
  <2>7. ASSUME Live PROVE RowIsLast(t)'
    <3>1. wrote[t] \in answered => wrote[t] \in Sent
      BY DEF TypeInv, EventsKnown
    <3>2. QED
      BY <2>1, <2>2, <2>7, <3>1 DEF RowIsLast
  <2>8. QED
    BY <2>3, <2>5, <2>6, <2>7
<1>3. QED
  BY <1>1, <1>2 DEF RowIsLast

\* A request enters or a statement is executed, but those of deliveries.
LEMMA MovesKeep ==
  ASSUME BillingInv, TypeInv', NEW k, NEW new, Follows(k, new), new.pc # "commit",
         \A n \in DOMAIN queue : n <= k => Queued(n).pc # "commit",
         new.pc = "fetch" => new.row = file.work[new.tenant],
         UNCHANGED <<file, wrote, events>>, answered' \subseteq answered,
         served \subseteq served', bound' \in served',
         new.pc \in {"select", "fetch"} => new.tenant \in served',
         \A t \in Tenants : served = {t} /\ fresh' =>
           file.work[t] \in {plan', NoPlan} \/ Committing(t)
  PROVE  BillingInv'
<1> USE DEF BillingInv
<1>1. \A n \in DOMAIN queue' : IsServed(Queued(n))'
  BY DEF IsServed, Follows
<1>2. ASSUME NEW t \in Tenants
      PROVE  CommitsWrote(t)' /\ FetchesAreCurrent(t)' /\ PlanIsCurrent(t)'
             /\ (Live => RowIsLast(t)')
  <2>1. CommitsWrote(t)' /\ FetchesAreCurrent(t)' /\ (Committing(t)' <=> Committing(t))
    BY CommitsMove DEF TypeInv, Commits
  <2>2. PlanIsCurrent(t)'
    <3>1. served' = {t} => served = {t}
      OBVIOUS
    <3>2. QED
      BY <2>1, <3>1 DEF PlanIsCurrent
  <2>3. ASSUME Live PROVE RowIsLast(t)'
    BY <2>1, <2>3, MeantStays DEF RowIsLast
  <2>4. QED
    BY <2>1, <2>2, <2>3
<1>3. QED
  BY <1>1, <1>2 DEF RowIsLast

\* A delivery writes its row: it is the last one of its tenant.
LEMMA WriteKeeps ==
  ASSUME BillingInv, TypeInv', NEW s \in Slots, WriteRow(s)
  PROVE  BillingInv'
<1> USE DEF BillingInv
<1>1. PICK c, new : c = calls[s] /\ new = [c EXCEPT !.pc = "commit"]
  OBVIOUS
<1>2. /\ queue # << >> /\ s = Head(queue) /\ c.pc = "write" /\ Delivers(c)
      /\ Await(s, new) /\ wrote' = [wrote EXCEPT ![c.tenant] = c.event]
      /\ UNCHANGED <<plan, bound, events, answered, fresh, served>>
      /\ file' = [disk |-> file.disk, work |-> [file.work EXCEPT ![c.tenant] = c.plan],
                  owner |-> Api]
  BY <1>1, FileTyped DEF WriteRow, At, quotaVars, stripeVars, planGhosts, Delivers, TypeInv
<1>3. /\ 1 \in DOMAIN queue /\ c = Queued(1) /\ c \in Webhook /\ c.tenant \in Tenants
      /\ c.plan = Meant(c.event)
  BY <1>1, <1>2, HeadIsTyped DEF IsEvent, Meant
<1>4. /\ new \in Webhook /\ new.pc = "commit" /\ new.tenant = c.tenant
      /\ new.event = c.event /\ new.plan = c.plan
  BY <1>1, <1>3 DEF Webhook
<1>5. Follows(1, new) /\ QueueIsExact'
  BY <1>2, <1>4, AwaitFollows DEF TypeInv
<1>6. PICK last \in DOMAIN queue' : /\ Queued(last)' = new /\ DOMAIN queue' \subseteq Nat
                                     /\ \A n \in DOMAIN queue' : n <= last
  <2>1. queue' = Append(Tail(queue), s) /\ calls' = [calls EXCEPT ![s] = new]
        /\ queue \in Seq(Slots)
    BY <1>2 DEF Await, TypeInv, QueueIsExact
  <2>2. DOMAIN queue' = 1 .. Len(queue) /\ queue'[Len(queue)] = s /\ Len(queue) \in Nat
        /\ Len(queue) >= 1
    BY <1>2, <2>1
  <2>3. calls'[s] = new
    BY <2>1 DEF TypeInv, Typed
  <2>4. QED
    BY <2>2, <2>3 DEF Queued
<1>7. /\ wrote'[c.tenant] = c.event /\ \A t \in Tenants \ {c.tenant} : wrote'[t] = wrote[t]
      /\ file'.disk = file.disk /\ file'.work[c.tenant] = c.plan
      /\ \A t \in Tenants \ {c.tenant} : file'.work[t] = file.work[t]
  BY <1>2, <1>3 DEF TypeInv, Typed, EventsKnown
<1>8. \A e : Meant(e)' = Meant(e)
  BY <1>2, MeantStays
<1>9. \A n \in DOMAIN queue' : IsServed(Queued(n))'
  BY <1>2, <1>4, <1>5 DEF IsServed, Follows
<1>10. ASSUME NEW t \in Tenants, t # c.tenant
       PROVE  CommitsWrote(t)' /\ FetchesAreCurrent(t)' /\ PlanIsCurrent(t)'
              /\ (Live => RowIsLast(t)')
  <2>1. \A n \in DOMAIN queue : n <= 1 => ~Commits(Queued(n), t)
    <3>1. \A n \in DOMAIN queue : n <= 1 => n = 1
      BY DEF TypeInv, QueueIsExact
    <3>2. QED
      BY <1>2, <1>3, <3>1 DEF Commits
  <2>2. CommitsWrote(t)' /\ FetchesAreCurrent(t)' /\ (Committing(t)' <=> Committing(t))
    BY <1>2, <1>4, <1>5, <1>7, <1>10, <2>1, CommitsMove DEF TypeInv, Commits
  <2>3. QED
    BY <1>2, <1>7, <1>8, <1>10, <2>2 DEF PlanIsCurrent, RowIsLast
<1>11. ASSUME NEW t \in Tenants, t = c.tenant
       PROVE  CommitsWrote(t)' /\ FetchesAreCurrent(t)' /\ PlanIsCurrent(t)'
              /\ (Live => RowIsLast(t)')
  <2>1. Commits(new, t) /\ new.event = wrote'[t] /\ file'.work[t] = Meant(wrote'[t])
    BY <1>3, <1>4, <1>7, <1>11 DEF Commits
  <2>2. CommitsWrote(t)'
    BY <1>6, <1>8, <2>1 DEF CommitsWrote, Commits
  <2>3. FetchesAreCurrent(t)'
    <3>1. ASSUME NEW n \in DOMAIN queue', Queued(n)'.pc = "fetch"
          PROVE  last > n
      <4>1. Queued(last)'.pc = "commit"
        BY <1>4, <1>6
      <4>2. n # last
        BY <3>1, <4>1
      <4>3. n \in Nat /\ last \in Nat /\ n <= last
        BY <1>6
      <4>4. QED
        BY <4>2, <4>3
    <3>2. QED
      BY <1>6, <2>1, <3>1 DEF FetchesAreCurrent, Commits
  <2>4. Committing(t)'
    BY <1>6, <2>1 DEF Committing, Commits, Queued
  <2>5. wrote'[t] # NoEvent
    <3>1. c.event \in Tenants \X (Nat \ {0})
      BY <1>3 DEF Webhook
    <3>2. Len(c.event) = 2
      BY <3>1
    <3>3. Len(NoEvent) = 0
      BY DEF NoEvent
    <3>4. c.event # NoEvent
      BY <3>2, <3>3
    <3>5. QED
      BY <1>7, <1>11, <3>4
  <2>6. QED
    BY <1>8, <2>1, <2>2, <2>3, <2>4, <2>5 DEF PlanIsCurrent, RowIsLast
<1>12. QED
  BY <1>2, <1>9, <1>10, <1>11 DEF RowIsLast

\* A delivery ends with its commit.
LEMMA CommitKeeps ==
  ASSUME BillingInv, TypeInv', NEW s \in Slots, CommitRow(s)
  PROVE  BillingInv'
<1> USE DEF BillingInv
<1>1. PICK c : c = calls[s]
  OBVIOUS
<1>2. /\ queue # << >> /\ s = Head(queue) /\ c.pc = "commit" /\ Delivers(c)
      /\ Leave(s) /\ UNCHANGED <<wrote, bound, events, served>>
      /\ answered' = answered \cup {c.event} /\ file' = NewFile(file.work)
      /\ IF c.plan # NoPlan /\ c.tenant = bound THEN plan' = c.plan /\ fresh' = TRUE
                                               ELSE UNCHANGED <<plan, fresh>>
  BY <1>1, FileTyped DEF CommitRow, At, eventGhosts, Delivers, TypeInv
<1>3. /\ 1 \in DOMAIN queue /\ c = Queued(1) /\ c \in Webhook /\ c.tenant \in Tenants
      /\ (Live => c.tenant = c.event[1])
  BY <1>1, <1>2, HeadIsTyped DEF IsEvent
<1>4. Follows(1, Idle) /\ QueueIsExact'
  BY <1>2, LeaveFollows DEF TypeInv
<1>5. file'.work = file.work /\ file'.disk = file.work
  BY <1>2 DEF NewFile
<1>6. \A e : Meant(e)' = Meant(e)
  BY <1>2, MeantStays
<1>7. \A n \in DOMAIN queue' : IsServed(Queued(n))'
  BY <1>2, <1>4 DEF IsServed, Follows, Idle
<1>8. ASSUME NEW t \in Tenants, t # c.tenant
      PROVE  CommitsWrote(t)' /\ FetchesAreCurrent(t)' /\ PlanIsCurrent(t)'
             /\ (Live => RowIsLast(t)')
  <2>1. \A n \in DOMAIN queue : n <= 1 => ~Commits(Queued(n), t)
    <3>1. \A n \in DOMAIN queue : n <= 1 => n = 1
      BY DEF TypeInv, QueueIsExact
    <3>2. QED
      BY <1>3, <1>8, <3>1 DEF Commits
  <2>2. Idle.pc \notin {"fetch", "commit"}
    BY DEF Idle
  <2>3. CommitsWrote(t)' /\ FetchesAreCurrent(t)' /\ (Committing(t)' <=> Committing(t))
    BY <1>2, <1>4, <1>5, <2>1, <2>2, CommitsMove DEF TypeInv, Commits
  <2>4. PlanIsCurrent(t)'
    <3>1. served = {t} => bound = t
      OBVIOUS
    <3>2. QED
      BY <1>2, <1>5, <1>8, <2>3, <3>1 DEF PlanIsCurrent
  <2>5. ASSUME Live PROVE RowIsLast(t)'
    <3>1. wrote[t] \in answered' => wrote[t] \in answered
      <4>1. wrote[t] = c.event => wrote[t] # NoEvent /\ c.event[1] = c.tenant
        BY <1>3, <2>5 DEF Webhook, NoEvent
      <4>2. wrote[t] # NoEvent => wrote[t][1] = t
        BY <2>5 DEF TypeInv, EventsKnown
      <4>3. QED
        BY <1>2, <1>8, <4>1, <4>2
    <3>2. QED
      BY <1>2, <1>5, <1>6, <2>5, <3>1 DEF RowIsLast
  <2>6. QED
    BY <2>3, <2>4, <2>5
<1>9. ASSUME NEW t \in Tenants, t = c.tenant
      PROVE  CommitsWrote(t)' /\ FetchesAreCurrent(t)' /\ PlanIsCurrent(t)'
             /\ (Live => RowIsLast(t)')
  <2>1. /\ CommitsWrote(t)' /\ FetchesAreCurrent(t)'
        /\ file.work[t] = Meant(wrote[t])
        /\ Committing(t)' \/ (c.event = wrote[t] /\ c.plan = file.work[t])
    BY <1>2, <1>3, <1>4, <1>5, <1>9, CommitsLeave DEF Commits
  <2>2. PlanIsCurrent(t)'
    <3>1. served = {t} => bound = t
      OBVIOUS
    <3>2. QED
      BY <1>2, <1>5, <1>9, <2>1, <3>1 DEF PlanIsCurrent
  <2>3. ASSUME Live PROVE RowIsLast(t)'
    BY <1>2, <1>5, <1>6, <2>1, <2>3 DEF RowIsLast
  <2>4. QED
    BY <2>1, <2>2, <2>3
<1>10. QED
  BY <1>2, <1>7, <1>8, <1>9 DEF RowIsLast

\* A statement of a delivery raises; if it is the commit, another delivery of the
\* tenant is to commit, or nothing is claimed of its row.
LEMMA RaiseKeeps ==
  ASSUME BillingInv, TypeInv', NEW s \in Slots, Raise(s)
  PROVE  BillingInv'
<1> USE DEF BillingInv
<1>1. PICK c : c = calls[s]
  OBVIOUS
<1>2. /\ queue # << >> /\ s = Head(queue) /\ Leave(s)
      /\ UNCHANGED <<plan, bound, file, events, wrote, served>>
      /\ answered' = IF Delivers(c) THEN answered \ {c.event} ELSE answered
      /\ fresh' = (fresh /\ c.pc # "commit")
  BY <1>1 DEF Raise, quotaVars, eventGhosts, Delivers
<1>3. /\ 1 \in DOMAIN queue /\ c = Queued(1) /\ c.tenant \in Tenants
      /\ Delivers(c) => c \in Webhook
  BY <1>1, <1>2, HeadIsTyped
<1>4. Follows(1, Idle) /\ QueueIsExact'
  BY <1>2, LeaveFollows DEF TypeInv
<1>5. Idle.pc \notin {"select", "fetch", "commit"}
  BY DEF Idle
<1>6. \A n \in DOMAIN queue : n <= 1 => n = 1
  BY DEF TypeInv, QueueIsExact
<1>7. CASE c.pc # "commit"
  <2>1. fresh' => fresh
    BY <1>2, Zenon
  <2>2. \A t \in Tenants : served = {t} /\ fresh' =>
          file.work[t] \in {plan', NoPlan} \/ Committing(t)
    BY <1>2, <2>1 DEF PlanIsCurrent
  <2>3. answered' \subseteq answered /\ served \subseteq served' /\ bound' \in served'
    BY <1>2
  <2>4. QED
    BY <1>2, <1>3, <1>4, <1>5, <1>6, <1>7, <2>2, <2>3, MovesKeep
<1>8. CASE c.pc = "commit"
  <2>1. ~fresh' /\ answered' = answered \ {c.event}
    <3>1. ~fresh'
      BY <1>2, <1>8, Zenon
    <3>2. QED
      BY <1>2, <1>8, <3>1 DEF Delivers
  <2>2. \A n \in DOMAIN queue' : IsServed(Queued(n))'
    BY <1>2, <1>4, <1>5 DEF IsServed, Follows
  <2>3. \A t \in Tenants : PlanIsCurrent(t)'
    BY <2>1 DEF PlanIsCurrent
  <2>4. ASSUME NEW t \in Tenants, t # c.tenant
        PROVE  CommitsWrote(t)' /\ FetchesAreCurrent(t)' /\ (Live => RowIsLast(t)')
    <3>1. \A n \in DOMAIN queue : n <= 1 => ~Commits(Queued(n), t)
      BY <1>3, <1>6, <2>4 DEF Commits
    <3>2. CommitsWrote(t)' /\ FetchesAreCurrent(t)' /\ (Committing(t)' <=> Committing(t))
      BY <1>2, <1>4, <1>5, <3>1, CommitsMove DEF TypeInv, Commits
    <3>3. QED
      BY <1>2, <2>1, <3>2, MeantStays DEF RowIsLast
  <2>5. ASSUME NEW t \in Tenants, t = c.tenant
        PROVE  CommitsWrote(t)' /\ FetchesAreCurrent(t)' /\ (Live => RowIsLast(t)')
    <3>1. /\ CommitsWrote(t)' /\ FetchesAreCurrent(t)' /\ file.work[t] = Meant(wrote[t])
          /\ Committing(t)' \/ c.event = wrote[t]
      BY <1>2, <1>3, <1>4, <1>8, <2>5, CommitsLeave DEF Commits
    <3>2. Committing(t)
      BY <1>3, <1>8, <2>5, CommittingIs DEF Commits
    <3>3. Live => RowIsLast(t)
      OBVIOUS
    <3>4. ASSUME Live PROVE RowIsLast(t)'
      BY <1>2, <2>1, <3>1, <3>3, <3>4, MeantStays DEF RowIsLast
    <3>5. QED
      BY <3>1, <3>4
  <2>6. QED
    BY <1>2, <2>2, <2>3, <2>4, <2>5 DEF RowIsLast
<1>9. QED
  BY <1>7, <1>8

\* A status request goes on, or ends with the row it has found.
LEMMA StatusKeeps ==
  ASSUME BillingInv, TypeInv', NEW s \in Slots, SelectRow(s) \/ Fetch(s)
  PROVE  BillingInv'
<1> USE DEF BillingInv
<1>1. PICK c : c = calls[s]
  OBVIOUS
<1>2. /\ queue # << >> /\ s = Head(queue) /\ c.pc \in {"select", "fetch"}
      /\ UNCHANGED <<bound, file, events, answered, wrote, served>>
  BY <1>1 DEF SelectRow, Fetch, At, quotaVars, stripeVars, eventGhosts, planGhosts
<1>3. /\ 1 \in DOMAIN queue /\ c = Queued(1) /\ c.tenant \in Tenants /\ c \in Status
      /\ c.tenant \in served
  BY <1>1, <1>2, HeadIsTyped DEF IsServed
<1>4. \A n \in DOMAIN queue : n <= 1 => Queued(n).pc # "commit"
  <2>1. \A n \in DOMAIN queue : n <= 1 => n = 1
    BY DEF TypeInv, QueueIsExact
  <2>2. QED
    BY <1>2, <1>3, <2>1
<1>5. CASE SelectRow(s)
  <2>1. PICK new : new = [c EXCEPT !.pc = "fetch", !.row = file.work[c.tenant]]
    OBVIOUS
  <2>2. Await(s, new) /\ UNCHANGED <<plan, fresh>>
    BY <1>1, <1>5, <2>1, FileTyped DEF SelectRow, quotaVars, planGhosts, TypeInv
  <2>3. file.work[c.tenant] \in Plans \cup {NoPlan}
    BY <1>3, BillingAssumption DEF TypeInv, Typed, Given
  <2>4. /\ new \in Status /\ new.pc = "fetch" /\ new.tenant = c.tenant
        /\ new.row = file.work[c.tenant]
    BY <1>3, <2>1, <2>3 DEF Status
  <2>5. Follows(1, new)
    BY <1>2, <2>2, <2>4, AwaitFollows DEF TypeInv
  <2>6. \A t \in Tenants : served = {t} /\ fresh' =>
          file.work[t] \in {plan', NoPlan} \/ Committing(t)
    BY <2>2 DEF PlanIsCurrent
  <2>7. QED
    BY <1>2, <1>3, <1>4, <2>4, <2>5, <2>6, MovesKeep
<1>6. CASE Fetch(s)
  <2>1. /\ c.pc = "fetch" /\ Leave(s)
        /\ IF c.row = NoPlan THEN UNCHANGED <<plan, fresh>> ELSE plan' = c.row
    BY <1>1, <1>6 DEF Fetch, At
  <2>2. Follows(1, Idle) /\ Idle.pc \notin {"select", "fetch", "commit"}
    BY <1>2, <2>1, LeaveFollows DEF TypeInv, Idle
  <2>3. ASSUME NEW t \in Tenants, served = {t}, fresh'
        PROVE  file.work[t] \in {plan', NoPlan} \/ Committing(t)
    <3>1. CASE c.row = NoPlan
      <4>1. fresh /\ plan' = plan
        BY <2>1, <2>3, <3>1
      <4>2. QED
        BY <2>3, <4>1 DEF PlanIsCurrent
    <3>2. CASE c.row # NoPlan
      <4>1. c.tenant = t /\ plan' = c.row
        BY <1>3, <2>1, <2>3, <3>2
      <4>2. c.row = file.work[t] \/ \E m \in DOMAIN queue : Commits(Queued(m), t)
        BY <1>3, <2>1, <4>1 DEF FetchesAreCurrent
      <4>3. QED
        BY <4>1, <4>2, CommittingIs
    <3>3. QED
      BY <3>1, <3>2
  <2>4. QED
    BY <1>2, <1>4, <2>2, <2>3, MovesKeep
<1>7. QED
  BY <1>5, <1>6

LEMMA InitBilling ==
  ASSUME BillingInit
  PROVE  BillingInv
<1>1. /\ served = {bound} /\ queue = << >> /\ answered = {}
      /\ file = NewFile([t \in Tenants |-> NoPlan])
  BY DEF BillingInit
<1>2. \A t \in Tenants : file.disk[t] = NoPlan /\ file.work[t] = NoPlan
  BY <1>1 DEF NewFile
<1>3. DOMAIN queue = {}
  BY <1>1
<1>4. QED
  BY <1>1, <1>2, <1>3, InitTyped DEF BillingInv, CommitsWrote, FetchesAreCurrent,
     PlanIsCurrent, RowIsLast

\* The process restarts with what is in the file.
LEMMA RestartKeeps ==
  ASSUME BillingInv, TypeInv', Restart
  PROVE  BillingInv'
<1> USE DEF BillingInv
<1>1. /\ queue' = << >> /\ file' = NewFile(file.disk) /\ ~fresh' /\ bound' \in served'
      /\ answered' = answered \ Underway /\ UNCHANGED <<wrote, events>>
  <2>1. ~fresh'
    BY DEF Restart
  <2>2. QED
    BY <2>1, FileTyped DEF Restart, eventGhosts, TypeInv
<1>2. DOMAIN queue' = {}
  BY <1>1
<1>3. file'.disk = file.disk /\ file'.work = file.disk
  BY <1>1 DEF NewFile
<1>4. ASSUME Live, NEW t \in Tenants
      PROVE  RowIsLast(t)'
  <2>1. ASSUME Committing(t)
        PROVE  wrote[t] \in Underway
    <3>1. PICK m \in DOMAIN queue : Commits(Queued(m), t) /\ Queued(m).event = wrote[t]
      BY <2>1, CommittingIs DEF CommitsWrote
    <3>2. QED
      BY <3>1 DEF Underway, Commits, Queued
  <2>2. QED
    BY <1>1, <1>3, <1>4, <2>1, MeantStays DEF RowIsLast
<1>5. QED
  BY <1>1, <1>2, <1>4 DEF CommitsWrote, FetchesAreCurrent, PlanIsCurrent, RowIsLast

\* A request enters.
LEMMA EnterKeeps ==
  ASSUME BillingInv, TypeInv', NEW s \in Slots, NEW new \in Webhook \cup Status,
         Enter(s, new), new.pc \in {"select", "write"},
         UNCHANGED <<plan, file, wrote, events, answered, fresh>>,
         served \subseteq served', bound' \in served',
         new.pc = "select" => new.tenant \in served'
  PROVE  BillingInv'
<1> USE DEF BillingInv
<1>1. Follows(0, new)
  BY EnterFollows DEF TypeInv
<1>2. \A n \in DOMAIN queue : ~(n <= 0)
  BY DEF TypeInv, QueueIsExact
<1>3. \A t \in Tenants : served = {t} /\ fresh' =>
        file.work[t] \in {plan', NoPlan} \/ Committing(t)
  BY DEF PlanIsCurrent
<1>4. QED
  BY <1>1, <1>2, <1>3, MovesKeep

LEMMA StepBilling ==
  ASSUME BillingInv, [BillingNext]_billingVars
  PROVE  BillingInv'
<1>1. TypeInv /\ TypeInv' /\ bound \in served
  BY TypesStay DEF BillingInv
<1>2. ASSUME NEW t \in Tenants,
             (\E p \in Plans : Checkout(t, p)) \/ Subscription(t) \/ Gate(t)
      PROVE  BillingInv'
  <2>1. /\ UNCHANGED <<plan, file, calls, queue, wrote, fresh, answered>>
        /\ served \subseteq served' /\ bound' \in served'
    BY <1>1, <1>2 DEF Checkout, Subscription, Gate, RecordAndCheck, Serves, quotaVars, storeVars,
       stripeVars, planGhosts, eventGhosts
  <2>2. PICK p \in Given : events' \in {events, [events EXCEPT ![t] = Append(@, p)]}
    <3>1. NoPlan \in Given /\ events[t] \in Seq(Given)
      BY <1>1 DEF Given, TypeInv, Typed
    <3>2. CASE \E p \in Plans : Checkout(t, p)
      BY <3>1, <3>2 DEF Checkout, Happens, Given
    <3>3. CASE Subscription(t)
      <4>1. PICK i \in DOMAIN events[t] : Happens(t, events[t][i]) \/ Happens(t, NoPlan)
        BY <3>3 DEF Subscription
      <4>2. events[t][i] \in Given
        BY <3>1
      <4>3. QED
        BY <3>1, <4>1, <4>2 DEF Happens
    <3>4. CASE Gate(t)
      BY <3>1, <3>4 DEF Gate, stripeVars
    <3>5. QED
      BY <1>2, <3>2, <3>3, <3>4
  <2>3. \A e \in Sent : Means(e[1], e[2])' = Means(e[1], e[2])
    BY <1>1, <2>2, SentStays DEF TypeInv
  <2>4. QED
    BY <1>1, <2>1, <2>3, QuietKeeps
<1>3. ASSUME NEW t \in Tenants, NEW i \in DOMAIN events[t], RefuseWebhook(t, i)
      PROVE  BillingInv'
  <2>1. /\ UNCHANGED <<plan, bound, file, calls, queue, wrote, fresh, served, events>>
        /\ answered' \subseteq answered
    BY <1>3 DEF RefuseWebhook, quotaVars, storeVars, planGhosts, eventGhosts
  <2>2. QED
    BY <1>1, <2>1, SentSame, QuietKeeps
<1>4. ASSUME NEW t \in Tenants, NEW s \in Slots, BeginStatus(s, t)
      PROVE  BillingInv'
  <2>1. PICK new : new = [pc |-> "select", tenant |-> t, row |-> NoPlan]
    OBVIOUS
  <2>2. new \in Status /\ new.pc = "select" /\ new.tenant = t
    BY <2>1 DEF Status
  <2>3. /\ Enter(s, new) /\ UNCHANGED <<plan, file, wrote, events, answered, fresh>>
        /\ served \subseteq served' /\ bound' = t /\ t \in served'
    BY <1>4, <2>1 DEF BeginStatus, Serves, stripeVars, eventGhosts
  <2>4. QED
    BY <1>1, <2>2, <2>3, EnterKeeps
<1>5. ASSUME NEW s \in Slots, NEW t \in Tenants, NEW i \in DOMAIN events[t], BeginWebhook(s, t, i)
      PROVE  BillingInv'
  <2>1. PICK new : new = [pc |-> "write", event |-> <<t, i>>, plan |-> Means(t, i),
                          tenant |-> IF Live THEN t ELSE bound]
    OBVIOUS
  <2>2. new \in Webhook /\ new.pc = "write"
    <3>1. bound \in Tenants /\ events[t] \in Seq(Given) /\ Pro \in Given
      BY <1>1, BillingAssumption DEF TypeInv, Typed, Given
    <3>2. i \in Nat \ {0} /\ Means(t, i) \in Given
      BY <3>1 DEF Means
    <3>3. QED
      BY <2>1, <3>1, <3>2 DEF Webhook
  <2>3. /\ Enter(s, new)
        /\ UNCHANGED <<plan, bound, file, wrote, events, answered, fresh, served>>
    BY <1>5, <2>1 DEF BeginWebhook, Deliver, quotaVars, stripeVars, planGhosts
  <2>4. QED
    BY <1>1, <2>2, <2>3, EnterKeeps
<1>6. ASSUME NEW s \in Slots,
             WriteRow(s) \/ CommitRow(s) \/ SelectRow(s) \/ Fetch(s) \/ Raise(s)
      PROVE  BillingInv'
  BY <1>1, <1>6, WriteKeeps, CommitKeeps, StatusKeeps, RaiseKeeps
<1>7. CASE Restart
  BY <1>1, <1>7, RestartKeeps
<1>8. CASE UNCHANGED billingVars
  <2>1. UNCHANGED <<plan, bound, file, calls, queue, wrote, fresh, served, events, answered>>
    BY <1>8 DEF billingVars, quotaVars, storeVars, stripeVars, planGhosts, eventGhosts
  <2>2. QED
    BY <1>1, <2>1, SentSame, QuietKeeps
<1>9. QED
  BY <1>2, <1>3, <1>4, <1>5, <1>6, <1>7, <1>8 DEF BillingNext

LEMMA BillingStays == BillingSpec => []BillingInv
<1>1. BillingInv /\ [BillingNext]_billingVars => BillingInv'
  BY StepBilling
<1>2. QED
  BY <1>1, InitBilling, PTL DEF BillingSpec

\* "Stripe webhook -> plan entitlement": in whatever order events arrive, are repeated
\* and overlap, whichever statement raises and whenever the process dies, the row in
\* the file is what the event asks for that has written it last, once it is handled.
THEOREM EntitlementFollowsEvents == BillingSpec => []EntitlementIsLastWritten
<1>1. BillingInv => EntitlementIsLastWritten
  BY DEF BillingInv, RowIsLast, EntitlementIsLastWritten, Meant
<1>2. QED
  BY <1>1, BillingStays, PTL

\* A status request that overlaps webhooks, in whatever order they arrive, or a webhook
\* of another tenant, never brings an old plan back for the only tenant a process
\* serves, with or without metadata.
THEOREM PlanStaysCurrent == BillingSpec => []PlanFollowsEntitlement
<1>1. BillingInv => PlanFollowsEntitlement
  <2>1. ASSUME BillingInv, NEW t \in Tenants, served = {t}, fresh, queue = << >>
        PROVE  Seen(file, Api)[t] \in {plan, NoPlan}
    <3>1. ~Committing(t)
      BY <2>1 DEF Committing
    <3>2. file.work[t] \in {plan, NoPlan}
      BY <2>1, <3>1 DEF BillingInv, PlanIsCurrent
    <3>3. QED
      BY <2>1, <3>2, FileTyped DEF BillingInv, TypeInv
  <2>2. QED
    BY <2>1 DEF PlanFollowsEntitlement
<1>2. QED
  BY <1>1, BillingStays, PTL
=============================================================================
