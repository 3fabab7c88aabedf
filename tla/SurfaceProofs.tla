--------------------------- MODULE SurfaceProofs ---------------------------
(***************************************************************************)
(* What the HTTP surface lets pass, what an operator may believe of it,    *)
(* and which skills are served: proofs of RateIsBounded, AnswersStayTrue   *)
(* and StartedSkillsAreServed, for any headers, keys, rates and clocks,    *)
(* any number of requests in flight and of restarts, and any roots,        *)
(* directories and files.                                                  *)
(***************************************************************************)
EXTENDS Surface, FiniteSetTheorems, WellFoundedInduction, TLAPS

LogRecord == [client : Clients, at : Int, passed : BOOLEAN]

\* The requests of the client of request i that passed since, it included, and the
\* tokens that are left in its bucket together were there when i came, or have
\* come with the clock.
Paid(i) ==
  LET k == BucketKey(log[i].client) IN
  /\ k \in DOMAIN buckets
  /\ 60 * Cardinality(Between(i, Len(log))) + buckets[k].tokens
       <= Full + Rpm * (buckets[k].last - log[i].at)

RateInv == /\ RateTypeOK
           /\ \A i \in DOMAIN log : Paid(i)
           /\ RateIsBounded
-----------------------------------------------------------------------------
\* The requests of a client use one bucket.
LEMMA SameBucket ==
  ASSUME NEW c, NEW d, Same(c, d)
  PROVE  BucketKey(c) = BucketKey(d)
BY DEF Same, BucketKey, Counted

\* A refill brings Rpm for a second, or takes as much if the clock was set back,
\* and never fills a bucket beyond Full.
LEMMA RefilledTyped ==
  ASSUME NEW b \in [tokens : Int, last : Int], now \in Int
  PROVE  /\ Rpm \in Int /\ Full \in Int /\ 60 <= Full
         /\ Refilled(b) \in Int /\ Refilled(b) <= Full
         /\ Refilled(b) <= b.tokens + (now - b.last) * Rpm
         /\ Kept(b) \in [tokens : Int, last : Int]
         /\ Kept(b).tokens = Spent(Refilled(b)) /\ Kept(b).last = now
         /\ Kept(b).tokens <= Full
         /\ Refilled(b) >= 60 => Kept(b).tokens = Refilled(b) - 60 /\ Kept(b).tokens >= 0
         /\ Refilled(b) < 60 => Kept(b).tokens = Refilled(b)
<1>1. Rpm \in Int /\ Full \in Int /\ 60 <= Full
  BY RateAssumption DEF Full
<1>2. (now - b.last) * Rpm \in Int /\ b.tokens \in Int
  BY <1>1
<1>3. /\ Refilled(b) \in Int /\ Refilled(b) <= Full
      /\ Refilled(b) <= b.tokens + (now - b.last) * Rpm
  BY <1>1, <1>2 DEF Refilled
<1>4. QED
  BY <1>1, <1>3 DEF Kept, Spent

\* The counted requests are finitely many.
LEMMA BetweenTyped ==
  ASSUME RateTypeOK, NEW i \in DOMAIN log, NEW j \in Int
  PROVE  IsFiniteSet(Between(i, j)) /\ Cardinality(Between(i, j)) \in Nat
<1>1. i \in Int /\ IsFiniteSet(i .. j)
  BY FS_Interval DEF RateTypeOK
<1>2. IsFiniteSet(Between(i, j))
  BY <1>1, FS_Subset DEF Between
<1>3. QED
  BY <1>2, FS_CardinalityType

\* A request that meets a bucket: n passed before, and with this one m.
LEMMA Paying ==
  ASSUME NEW n \in Nat, NEW m \in Nat, NEW tokens \in Int, NEW left \in Int,
         NEW refilled \in Int, NEW last \in Int, NEW at \in Int, NEW x \in Int,
         NEW rate \in Int, NEW full \in Int,
         60 * n + tokens <= full + rate * (last - at),
         refilled <= tokens + (x - last) * rate,
         60 * m + left <= 60 * n + refilled
  PROVE  60 * m + left <= full + rate * (x - at)
<1>1. rate * (x - at) = rate * (last - at) + (x - last) * rate
  OBVIOUS
<1>2. rate * (last - at) \in Int /\ (x - last) * rate \in Int /\ rate * (x - at) \in Int
  OBVIOUS
<1>3. QED
  BY <1>1, <1>2

\* A request finds the bucket of its client as the earlier ones have left it.
LEMMA DispatchKeeps ==
  ASSUME RateInv, NEW c \in Clients, Dispatch(c)
  PROVE  RateInv'
<1>1. PICK k, b, L : k = BucketKey(c) /\ b = Bucket(k) /\ L = Len(log) + 1
  OBVIOUS
<1>2. PICK r : r = [client |-> c, at |-> now, passed |-> Refilled(b) >= 60]
  OBVIOUS
<1>3. RateTypeOK /\ RateIsBounded /\ \A i \in DOMAIN log : Paid(i)
  BY DEF RateInv
<1>4. /\ buckets' = [j \in DOMAIN buckets \cup {k} |-> IF j = k THEN Kept(b) ELSE buckets[j]]
      /\ log' = Append(log, r) /\ now' = now /\ backs' = backs
  BY <1>1, <1>2 DEF Dispatch
<1>5. /\ now \in Int /\ backs \in Nat /\ log \in Seq(LogRecord) /\ r \in LogRecord
      /\ r.client = c /\ r.at = now /\ r.passed = (Refilled(b) >= 60)
  BY <1>2, <1>3 DEF RateTypeOK, LogRecord
<1>6. /\ log' \in Seq(LogRecord) /\ DOMAIN log' = DOMAIN log \cup {L} /\ L \notin DOMAIN log
      /\ DOMAIN log = 1 .. Len(log) /\ Len(log) \in Nat /\ Len(log') = L /\ L \in Nat
      /\ log'[L] = r /\ \A i \in DOMAIN log : log'[i] = log[i]
  BY <1>1, <1>4, <1>5
<1>7. \A i \in DOMAIN log : log[i].at \in Int /\ log'[i].at = log[i].at
  <2>1. \A i \in DOMAIN log : log[i] \in LogRecord
    BY <1>5
  <2>2. QED
    BY <1>6, <2>1 DEF LogRecord
<1>8. b \in [tokens : Int, last : Int] /\ b.tokens <= Full
  BY <1>1, <1>3, RateAssumption DEF Bucket, RateTypeOK, Full
<1>9. PICK kept : kept = Kept(b)
  OBVIOUS
<1>10. /\ Rpm \in Int /\ Full \in Int /\ 60 <= Full /\ Refilled(b) \in Int /\ Refilled(b) <= Full
       /\ Refilled(b) <= b.tokens + (now - b.last) * Rpm
       /\ kept \in [tokens : Int, last : Int] /\ kept.last = now /\ kept.tokens <= Full
       /\ r.passed => kept.tokens = Refilled(b) - 60 /\ kept.tokens >= 0
       /\ ~r.passed => kept.tokens = Refilled(b)
  <2>1. \A x \in [tokens : Int, last : Int] :
          /\ Refilled(x) \in Int /\ Refilled(x) <= Full
          /\ Refilled(x) <= x.tokens + (now - x.last) * Rpm
          /\ Kept(x) \in [tokens : Int, last : Int] /\ Kept(x).last = now /\ Kept(x).tokens <= Full
          /\ Refilled(x) >= 60 => Kept(x).tokens = Refilled(x) - 60 /\ Kept(x).tokens >= 0
          /\ Refilled(x) < 60 => Kept(x).tokens = Refilled(x)
    BY <1>5, RefilledTyped
  <2>2. Rpm \in Int /\ Full \in Int /\ 60 <= Full
    BY RateAssumption DEF Full
  <2>3. Refilled(b) >= 60 \/ Refilled(b) < 60
    BY <1>8, <2>1
  <2>4. QED
    BY <1>5, <1>8, <1>9, <2>1, <2>2, <2>3
<1>11. /\ k \in DOMAIN buckets' /\ DOMAIN buckets \subseteq DOMAIN buckets' /\ buckets'[k] = kept
       /\ \A j \in DOMAIN buckets \ {k} : buckets'[j] = buckets[j]
       /\ DOMAIN buckets' = DOMAIN buckets \cup {k}
  BY <1>4, <1>9
<1>12. RateTypeOK'
  BY <1>3, <1>4, <1>5, <1>6, <1>10, <1>11 DEF RateTypeOK, LogRecord, Full
<1>13. \A i, j \in DOMAIN log : Between(i, j)' = Between(i, j)
  BY <1>6 DEF Between
<1>14. ASSUME NEW i \in DOMAIN log
       PROVE  Between(i, L)' = IF r.passed /\ Same(c, log[i].client) THEN Between(i, Len(log)) \cup {L}
                                                                  ELSE Between(i, Len(log))
  <2>1. i .. L = (i .. Len(log)) \cup {L} /\ i .. Len(log) \subseteq DOMAIN log
    BY <1>1, <1>6
  <2>2. Between(i, L)' = {n \in i .. L : log'[n].passed /\ Same(log'[n].client, log[i].client)}
    BY <1>6 DEF Between
  <2>3. \A n \in i .. Len(log) : log'[n] = log[n]
    BY <1>6, <2>1
  <2>4. QED
    BY <1>5, <1>6, <2>1, <2>2, <2>3 DEF Between
<1>15. ASSUME NEW i \in DOMAIN log PROVE Paid(i)'
  <2>0. PICK h, n, m : /\ h = BucketKey(log[i].client)
                       /\ n = Cardinality(Between(i, Len(log)))
                       /\ m = Cardinality(Between(i, L)')
    OBVIOUS
  <2>1. /\ h \in DOMAIN buckets
        /\ 60 * n + buckets[h].tokens <= Full + Rpm * (buckets[h].last - log[i].at)
    BY <1>3, <2>0 DEF Paid
  <2>2. n \in Nat /\ IsFiniteSet(Between(i, Len(log))) /\ log[i].at \in Int
    <3>1. IsFiniteSet(Between(i, Len(log))) /\ Cardinality(Between(i, Len(log))) \in Nat
      BY <1>3, <1>6, BetweenTyped
    <3>2. QED
      BY <1>7, <2>0, <3>1
  <2>3. L \notin Between(i, Len(log))
    BY <1>1, <1>6 DEF Between
  <2>4. m = n + (IF r.passed /\ Same(c, log[i].client) THEN 1 ELSE 0)
    <3>1. Cardinality(Between(i, Len(log)) \cup {L}) = n + 1
      BY <2>0, <2>2, <2>3, FS_AddElement
    <3>2. CASE r.passed /\ Same(c, log[i].client)
      <4>1. Between(i, L)' = Between(i, Len(log)) \cup {L}
        BY <1>14, <3>2
      <4>2. QED
        BY <2>0, <3>1, <3>2, <4>1
    <3>3. CASE ~(r.passed /\ Same(c, log[i].client))
      <4>1. Between(i, L)' = Between(i, Len(log))
        BY <1>14, <3>3
      <4>2. QED
        BY <2>0, <2>2, <3>3, <4>1
    <3>4. QED
      BY <3>2, <3>3
  <2>5. CASE h # k
    <3>1. ~Same(c, log[i].client)
      BY <1>1, <2>5, <2>0, SameBucket
    <3>2. m = n /\ buckets'[h] = buckets[h]
      BY <1>11, <2>1, <2>2, <2>4, <2>5, <3>1
    <3>3. /\ h \in DOMAIN buckets'
          /\ 60 * m + buckets'[h].tokens <= Full + Rpm * (buckets'[h].last - log[i].at)
      BY <1>11, <2>1, <3>2
    <3>4. QED
      BY <1>6, <2>0, <3>3 DEF Paid, Full
  <2>6. CASE h = k
    <3>1. b = buckets[h]
      BY <1>1, <2>1, <2>6 DEF Bucket
    <3>2. 60 * n + b.tokens <= Full + Rpm * (b.last - log[i].at)
      BY <2>1, <3>1
    <3>3. m \in Nat /\ 60 * m + kept.tokens <= 60 * n + Refilled(b)
      BY <1>10, <2>2, <2>4
    <3>4. b.tokens \in Int /\ b.last \in Int /\ kept.tokens \in Int
      BY <1>8, <1>10
    <3>5. 60 * m + kept.tokens <= Full + Rpm * (now - log[i].at)
      <4>1. PICK tokens, last, left, refilled, at :
              /\ tokens = b.tokens /\ last = b.last /\ left = kept.tokens
              /\ refilled = Refilled(b) /\ at = log[i].at
        OBVIOUS
      <4>2. PICK x, rate, full : x = now /\ rate = Rpm /\ full = Full
        OBVIOUS
      <4>3. {tokens, last, left, refilled, at, x, rate, full} \subseteq Int /\ {n, m} \subseteq Nat
        BY <1>5, <1>10, <2>2, <3>3, <3>4, <4>1, <4>2
      <4>4. /\ 60 * n + tokens <= full + rate * (last - at)
            /\ refilled <= tokens + (x - last) * rate
            /\ 60 * m + left <= 60 * n + refilled
        BY <1>10, <3>2, <3>3, <4>1, <4>2
      <4>5. 60 * m + left <= full + rate * (x - at)
        BY <4>3, <4>4, Paying
      <4>6. QED
        BY <4>1, <4>2, <4>5
    <3>6. QED
      BY <1>6, <1>10, <1>11, <2>0, <2>6, <3>5 DEF Paid, Full
  <2>7. QED
    BY <2>5, <2>6
<1>16. /\ Paid(L)' /\ Cardinality(Between(L, L)') = IF r.passed THEN 1 ELSE 0
  <2>1. L .. L = {L}
    BY <1>6
  <2>2. Between(L, L)' = {n \in L .. L : log'[n].passed /\ Same(log'[n].client, log'[L].client)}
    BY DEF Between
  <2>3. Between(L, L)' = IF r.passed THEN {L} ELSE {}
    BY <1>6, <2>1, <2>2 DEF Same
  <2>4. Cardinality(Between(L, L)') = IF r.passed THEN 1 ELSE 0
    BY <2>3, FS_EmptySet, FS_Singleton
  <2>5. Rpm * (now - now) = 0
    BY <1>5, <1>10
  <2>6. 60 * Cardinality(Between(L, L)') + kept.tokens <= Full + Rpm * (now - now)
    BY <1>10, <2>4, <2>5
  <2>7. QED
    <3>1. BucketKey(log'[L].client) = k /\ log'[L].at = now
      BY <1>1, <1>5, <1>6
    <3>2. Full' = Full
      BY DEF Full
    <3>3. Paid(L)'
      BY <1>6, <1>10, <1>11, <2>6, <3>1, <3>2 DEF Paid
    <3>4. QED
      BY <2>4, <3>3
<1>17. RateIsBounded'
  <2> SUFFICES ASSUME NEW i \in DOMAIN log', NEW j \in DOMAIN log',
                      i <= j, Same(log'[j].client, log'[i].client), log'[j].passed
               PROVE  60 * Cardinality(Between(i, j)') <= Full' + Rpm * (log'[j].at - log'[i].at)
    BY DEF RateIsBounded
  <2>1. Full' = Full
    BY DEF Full
  <2>2. CASE j # L
    <3>1. i \in DOMAIN log /\ j \in DOMAIN log
      BY <1>1, <1>6, <2>2
    <3>2. QED
      BY <1>3, <1>6, <1>13, <2>1, <3>1 DEF RateIsBounded
  <2>3. CASE j = L
    <3>1. Paid(i)'
      BY <1>6, <1>15, <1>16
    <3>2. BucketKey(log'[i].client) = k /\ r.passed
      BY <1>1, <1>5, <1>6, <2>3, SameBucket
    <3>3. 60 * Cardinality(Between(i, L)') + kept.tokens <= Full + Rpm * (now - log'[i].at)
      BY <1>6, <1>10, <1>11, <2>1, <3>1, <3>2 DEF Paid
    <3>4. Cardinality(Between(i, L)') \in Nat
      <4>1. RateTypeOK' => Cardinality(Between(i, L)') \in Nat
        <5>1. i \in Int /\ L \in Int
          BY <1>6
        <5>2. IsFiniteSet(i .. L)
          BY <5>1, FS_Interval
        <5>3. IsFiniteSet(Between(i, L)')
          BY <5>2, FS_Subset DEF Between
        <5>4. QED
          BY <5>3, FS_CardinalityType
      <4>2. QED
        BY <1>12, <4>1
    <3>5. log'[i].at \in Int /\ Rpm * (now - log'[i].at) \in Int
      <4>1. log'[i].at \in Int
        BY <1>5, <1>6, <1>7
      <4>2. QED
        BY <1>5, <1>10, <4>1
    <3>6. kept.tokens >= 0 /\ kept.tokens \in Int
      BY <1>10, <3>2
    <3>7. 60 * Cardinality(Between(i, L)') <= Full + Rpm * (now - log'[i].at)
      <4>1. PICK x, y, t, f : /\ x = Cardinality(Between(i, L)') /\ y = Rpm * (now - log'[i].at)
                              /\ t = kept.tokens /\ f = Full
        OBVIOUS
      <4>2. x \in Nat /\ y \in Int /\ t \in Int /\ f \in Int /\ t >= 0 /\ 60 * x + t <= f + y
        BY <1>10, <3>3, <3>4, <3>5, <3>6, <4>1
      <4>3. 60 * x <= f + y
        BY <4>2
      <4>4. QED
        BY <4>1, <4>3
    <3>8. QED
      BY <1>5, <1>6, <2>1, <2>3, <3>7
  <2>4. QED
    BY <2>2, <2>3
<1>18. QED
  BY <1>6, <1>12, <1>15, <1>16, <1>17 DEF RateInv

\* The clock, however it is set, moves no token.
LEMMA ClockKeeps ==
  ASSUME RateInv, Tick \/ SetBack
  PROVE  RateInv'
<1>1. UNCHANGED <<buckets, log>> /\ now' \in Int /\ backs' \in Nat
  BY RateAssumption DEF Tick, SetBack, RateInv, RateTypeOK
<1>2. RateTypeOK' /\ RateIsBounded'
  BY <1>1 DEF RateInv, RateTypeOK, RateIsBounded, Between, Full
<1>3. \A i \in DOMAIN log : Paid(i) => Paid(i)'
  BY <1>1 DEF Paid, Between, Full
<1>4. QED
  BY <1>1, <1>2, <1>3 DEF RateInv

\* A process starts with no request counted and every bucket full.
LEMMA EmptyKeeps ==
  ASSUME buckets = [k \in {} |-> 0], now \in Int, backs \in Nat, log = << >>
  PROVE  RateInv
BY DEF RateInv, RateTypeOK, RateIsBounded

LEMMA RestartKeeps ==
  ASSUME RateInv, RateRestart
  PROVE  RateInv'
<1>1. buckets' = [k \in {} |-> 0] /\ log' = << >> /\ now' \in Int /\ backs' \in Nat
  BY DEF RateRestart, RateInv, RateTypeOK
<1>2. QED
  BY <1>1 DEF RateInv, RateTypeOK, RateIsBounded

LEMMA UnchangedKeeps ==
  ASSUME RateInv, UNCHANGED rateVars
  PROVE  RateInv'
<1>1. UNCHANGED <<buckets, log, now, backs>>
  BY DEF rateVars
<1>2. RateTypeOK' /\ RateIsBounded'
  BY <1>1 DEF RateInv, RateTypeOK, RateIsBounded, Between, Full
<1>3. \A i \in DOMAIN log : Paid(i) => Paid(i)'
  BY <1>1 DEF Paid, Between, Full
<1>4. QED
  BY <1>1, <1>2, <1>3 DEF RateInv
-----------------------------------------------------------------------------
Item == [tenant : Tenants, tool : {"sandbox_exec"}, status : Queue!Statuses,
         created : Int, decided : Int, by : ApiKeyIds \cup {Queue!Nobody}]

\* The requests and the tasks are what they seem.
StoresAreSound ==
  /\ inflight \in Seq([client : Clients, op : Ops])
  /\ board \in Seq(Tenants)
  /\ items \in [DOMAIN items -> Item]

\* Answers are of requests that exist, and whoever gave a verdict was told of it.
AnswersAreBacked ==
  /\ \A a \in told : a.request \in DOMAIN items
  /\ \A r \in DOMAIN items : items[r].status \in {"approved", "denied"} =>
       \E b \in told : /\ b.request = r /\ b.who = items[r].by
                       /\ b.verdict = items[r].status /\ b.status = items[r].status

SurfaceInv == RateInv /\ StoresAreSound /\ AnswersAreBacked /\ AnswersStayTrue

\* Requests are looked at and listed: those that are not pending keep their status and
\* their name, and no other gets a verdict.
ItemsLast ==
  /\ DOMAIN items \subseteq DOMAIN items' /\ items' \in [DOMAIN items' -> Item]
  /\ \A r \in DOMAIN items : items[r].status # "pending" =>
       items'[r].status = items[r].status /\ items'[r].by = items[r].by
  /\ \A r \in DOMAIN items' : items'[r].status \in {"approved", "denied"} =>
       /\ r \in DOMAIN items
       /\ items'[r].status = items[r].status /\ items'[r].by = items[r].by

\* Waiting requests come and go, tasks are made.
LineIsSound == inflight' \in Seq([client : Clients, op : Ops]) /\ board' \in Seq(Tenants)

\* What was said before stays true, if nothing new is said.
LEMMA SilenceKeeps ==
  ASSUME StoresAreSound, AnswersAreBacked, AnswersStayTrue, ItemsLast, LineIsSound, told' = told
  PROVE  StoresAreSound' /\ AnswersAreBacked' /\ AnswersStayTrue'
<1>1. StoresAreSound'
  BY DEF StoresAreSound, ItemsLast, LineIsSound
<1>2. AnswersAreBacked'
  BY DEF AnswersAreBacked, ItemsLast
<1>3. \A a \in told : /\ items'[a.request].status = a.status /\ items'[a.request].by = a.by
                      /\ a.status # "pending"
  BY DEF AnswersAreBacked, AnswersStayTrue, ItemsLast
<1>4. AnswersStayTrue'
  BY <1>3 DEF AnswersStayTrue
<1>5. QED
  BY <1>1, <1>2, <1>4

\* A request in the line.
LEMMA WaitingTyped ==
  ASSUME StoresAreSound, NEW i \in DOMAIN inflight
  PROVE  inflight[i].client \in Clients /\ inflight[i].op \in Ops
<1> DEFINE S == [client : Clients, op : Ops]
<1>1. inflight \in Seq(S)
  BY DEF StoresAreSound
<1> HIDE DEF S
<1>2. inflight[i] \in S
  BY <1>1
<1>3. QED
  BY <1>2 DEF S

\* A request leaves the line.
LEMMA LeavesKeeps ==
  ASSUME StoresAreSound, NEW i \in DOMAIN inflight, Leaves(i)
  PROVE  inflight' \in Seq([client : Clients, op : Ops])
<1> DEFINE S == [client : Clients, op : Ops]
<1>1. inflight \in Seq(S) /\ i \in 1 .. Len(inflight) /\ Len(inflight) \in Nat
  BY DEF StoresAreSound
<1> HIDE DEF S
<1>2. SubSeq(inflight, 1, i - 1) \in Seq(S) /\ SubSeq(inflight, i + 1, Len(inflight)) \in Seq(S)
  BY <1>1
<1>3. SubSeq(inflight, 1, i - 1) \o SubSeq(inflight, i + 1, Len(inflight)) \in Seq(S)
  BY <1>2
<1>4. QED
  BY <1>3 DEF Leaves, RemoveAt, S

\* What decide() makes of a request: it is typed, not pending any more, and the same
\* as before if it was not; if it has just got a verdict, it is the operator's.
LEMMA DecidedIsSound ==
  ASSUME StoresAreSound, now \in Int, NEW r, NEW approve, NEW by \in ApiKeyIds,
         Queue!Decide(r, approve, by)
  PROVE  /\ r \in DOMAIN items /\ DOMAIN items' = DOMAIN items
         /\ \A x \in DOMAIN items \ {r} : items'[x] = items[x]
         /\ items'[r] \in Item /\ items'[r].status # "pending"
         /\ items[r].status # "pending" => items'[r] = items[r]
         /\ items[r].status = "pending" /\ items'[r].status # "expired" =>
              /\ items'[r].by = by
              /\ items'[r].status = IF approve THEN "approved" ELSE "denied"
         /\ now' = now
<1>1. r \in DOMAIN items /\ now' = now
  BY DEF Queue!Decide, Queue!Used
<1>2. items[r] \in Item
  BY <1>1 DEF StoresAreSound
<1>3. /\ Queue!Looked(r) \in Item
      /\ \/ Queue!Looked(r) = items[r]
         \/ items[r].status = "pending" /\ Queue!Looked(r).status = "expired"
  BY <1>2 DEF Queue!Looked, Item, Queue!Statuses
<1>4. CASE Queue!Looked(r).status # "pending"
  <2>1. items' = [items EXCEPT ![r] = Queue!Looked(r)]
    BY <1>4 DEF Queue!Decide
  <2>2. QED
    BY <1>1, <1>3, <1>4, <2>1
<1>5. CASE Queue!Looked(r).status = "pending"
  <2>1. PICK verdict : verdict = IF approve THEN "approved" ELSE "denied"
    OBVIOUS
  <2>2. PICK to : to = [items[r] EXCEPT !.status = verdict, !.decided = now, !.by = by]
    OBVIOUS
  <2>3. items' = [items EXCEPT ![r] = to]
    BY <1>5, <2>1, <2>2 DEF Queue!Decide
  <2>4. verdict \in {"approved", "denied"}
    BY <2>1
  <2>5. to \in Item /\ to.status = verdict /\ to.by = by
    BY <1>2, <2>2, <2>4 DEF Item, Queue!Statuses
  <2>6. items[r].status = "pending"
    BY <1>3, <1>5
  <2>7. to.status # "pending"
    BY <2>4, <2>5
  <2>8. QED
    BY <1>1, <2>1, <2>3, <2>5, <2>6, <2>7
<1>6. QED
  BY <1>4, <1>5

\* The answer to an operator is what the request has become; if this has just got a
\* verdict, it is the one asked for, under the name of the operator.
LEMMA DecideKeeps ==
  ASSUME SurfaceInv, NEW i \in DOMAIN inflight, Decide(i)
  PROVE  SurfaceInv'
<1>0. RateInv /\ StoresAreSound /\ AnswersAreBacked /\ AnswersStayTrue
  BY DEF SurfaceInv
<1>1. PICK r, approve, id, verdict :
        /\ r = inflight[i].op.request /\ approve = inflight[i].op.approve
        /\ id = ApiKeyId(inflight[i].client)
        /\ verdict = IF approve THEN "approved" ELSE "denied"
  OBVIOUS
<1>2. PICK a : /\ a = [request |-> r, who |-> id, verdict |-> verdict,
                       status |-> items'[r].status, by |-> items'[r].by]
  OBVIOUS
<1>3. /\ Queue!Decide(r, approve, id) /\ told' = told \cup {a} /\ Leaves(i)
      /\ Accepted(inflight[i].client) /\ UNCHANGED <<buckets, backs, log, board>>
  BY <1>1, <1>2 DEF Decide, Meets, Answer
<1>4. now \in Int /\ id \in ApiKeyIds
  BY <1>0, <1>1, <1>3 DEF RateInv, RateTypeOK, Accepted, ApiKeyId, ApiKeyIds
<1>5. /\ r \in DOMAIN items /\ DOMAIN items' = DOMAIN items
      /\ \A x \in DOMAIN items \ {r} : items'[x] = items[x]
      /\ items'[r] \in Item /\ items'[r].status # "pending"
      /\ items[r].status # "pending" => items'[r] = items[r]
      /\ items[r].status = "pending" /\ items'[r].status # "expired" =>
           items'[r].by = id /\ items'[r].status = verdict
      /\ now' = now
  BY <1>0, <1>1, <1>3, <1>4, DecidedIsSound
<1>6. RateInv'
  BY <1>0, <1>3, <1>5, UnchangedKeeps DEF rateVars
<1>7. items' \in [DOMAIN items -> Item]
  BY <1>0, <1>3, <1>5 DEF StoresAreSound, Queue!Decide
<1>8. StoresAreSound'
  <2>1. inflight' \in Seq([client : Clients, op : Ops])
    BY <1>0, <1>3, LeavesKeeps
  <2>2. QED
    BY <1>0, <1>3, <1>5, <1>7, <2>1 DEF StoresAreSound
<1>9. /\ a.request = r /\ a.who = id /\ a.verdict = verdict
      /\ a.status = items'[r].status /\ a.by = items'[r].by
  BY <1>2
<1>10. ASSUME NEW x \in DOMAIN items', items'[x].status \in {"approved", "denied"}
       PROVE  \E b \in told' : /\ b.request = x /\ b.who = items'[x].by
                               /\ b.verdict = items'[x].status /\ b.status = items'[x].status
  <2>1. CASE items'[x] = items[x]
    BY <1>0, <1>3, <1>5, <1>10, <2>1 DEF AnswersAreBacked
  <2>2. CASE items'[x] # items[x]
    <3>1. x = r /\ items[r].status = "pending" /\ items'[r].status # "expired"
      BY <1>5, <1>10, <2>2
    <3>2. QED
      BY <1>3, <1>5, <1>9, <3>1
  <2>3. QED
    BY <2>1, <2>2
<1>11. AnswersAreBacked'
  BY <1>0, <1>3, <1>5, <1>9, <1>10 DEF AnswersAreBacked
<1>12. ASSUME NEW b \in told'
       PROVE  /\ items'[b.request].status = b.status /\ items'[b.request].by = b.by
              /\ b.status # "pending"
  <2>1. CASE b = a
    BY <1>5, <1>9, <2>1
  <2>2. CASE b \in told
    <3>1. /\ b.request \in DOMAIN items /\ items[b.request].status = b.status
          /\ items[b.request].by = b.by /\ b.status # "pending"
      BY <1>0, <2>2 DEF AnswersAreBacked, AnswersStayTrue
    <3>2. items'[b.request] = items[b.request]
      BY <1>5, <3>1
    <3>3. QED
      BY <3>1, <3>2
  <2>3. QED
    BY <1>3, <2>1, <2>2
<1>13. ASSUME NEW b \in told', b.status # "expired"
       PROVE  \E d \in told' : /\ d.request = b.request /\ d.who = b.by
                               /\ d.verdict = b.status /\ d.status = b.status
  <2>1. b.request \in DOMAIN items' /\ items'[b.request].status \in Queue!Statuses
    BY <1>7, <1>11 DEF AnswersAreBacked, Item
  <2>2. items'[b.request].status \in {"approved", "denied"}
    BY <1>12, <1>13, <2>1 DEF Queue!Statuses
  <2>3. QED
    BY <1>10, <1>12, <2>1, <2>2
<1>14. AnswersStayTrue'
  BY <1>12, <1>13 DEF AnswersStayTrue
<1>15. QED
  BY <1>6, <1>8, <1>11, <1>14 DEF SurfaceInv

\* Listing expires requests that nobody has decided.
LEMMA PendingKeeps ==
  ASSUME SurfaceInv, NEW i \in DOMAIN inflight, Pending(i)
  PROVE  SurfaceInv'
<1>1. /\ Queue!ListPending(inflight[i].client.tenant, 1) /\ Leaves(i)
      /\ UNCHANGED <<buckets, backs, log, board, told>>
  BY DEF Pending, Meets
<1>2. StoresAreSound /\ AnswersAreBacked /\ AnswersStayTrue /\ RateInv
  BY DEF SurfaceInv
<1>3. now' = now /\ \/ items' = items
                    \/ items' = [r \in DOMAIN items |->
                                   IF items[r].status = "pending" /\ Queue!Late(r)
                                   THEN [items[r] EXCEPT !.status = "expired"] ELSE items[r]]
  BY <1>1 DEF Queue!ListPending, Queue!Used
<1>4. ItemsLast
  <2>1. CASE items' = items
    BY <1>2, <2>1 DEF ItemsLast, StoresAreSound
  <2>2. CASE items' # items
    <3> DEFINE to(r) == IF items[r].status = "pending" /\ Queue!Late(r)
                        THEN [items[r] EXCEPT !.status = "expired"] ELSE items[r]
    <3>1. items' = [r \in DOMAIN items |-> to(r)]
      BY <1>3, <2>2
    <3>2. ASSUME NEW r \in DOMAIN items
          PROVE  /\ to(r) \in Item /\ to(r).by = items[r].by
                 /\ items[r].status # "pending" => to(r) = items[r]
                 /\ to(r).status = items[r].status \/ to(r).status = "expired"
      <4>1. items[r] \in Item
        BY <1>2 DEF StoresAreSound
      <4>2. QED
        BY <4>1 DEF Item, Queue!Statuses
    <3> HIDE DEF to
    <3>3. QED
      BY <1>2, <3>1, <3>2 DEF ItemsLast, StoresAreSound
  <2>3. QED
    BY <2>1, <2>2
<1>5. LineIsSound
  BY <1>1, <1>2, LeavesKeeps DEF LineIsSound, StoresAreSound
<1>6. RateInv'
  BY <1>1, <1>2, <1>3, UnchangedKeeps DEF rateVars
<1>7. QED
  BY <1>1, <1>2, <1>4, <1>5, <1>6, SilenceKeeps DEF SurfaceInv

\* A task of a tenant is one more on the board.
LEMMA TaskKeeps ==
  ASSUME SurfaceInv, NEW i \in DOMAIN inflight, NEW t \in Tenants,
         Leaves(i), board' = Append(board, t), UNCHANGED <<rateVars, items, told>>
  PROVE  SurfaceInv'
<1>1. RateInv /\ StoresAreSound /\ AnswersAreBacked /\ AnswersStayTrue
  BY DEF SurfaceInv
<1>2. board' \in Seq(Tenants)
  BY <1>1 DEF StoresAreSound
<1>3. inflight' \in Seq([client : Clients, op : Ops])
  BY <1>1, LeavesKeeps
<1>4. ItemsLast /\ LineIsSound
  BY <1>1, <1>2, <1>3 DEF StoresAreSound, ItemsLast, LineIsSound
<1>5. RateInv'
  BY <1>1, UnchangedKeeps
<1>6. QED
  BY <1>1, <1>4, <1>5, SilenceKeeps DEF SurfaceInv

\* The task is of a tenant, its caller's or that of its metadata.
LEMMA CreateKeeps ==
  ASSUME SurfaceInv, NEW i \in DOMAIN inflight, Message(i) \/ Create(i)
  PROVE  SurfaceInv'
<1>1. /\ Leaves(i) /\ UNCHANGED <<rateVars, items, told>>
      /\ inflight[i].client \in Clients /\ inflight[i].op \in Ops
  BY WaitingTyped DEF SurfaceInv, Message, Create, Meets
<1>2. CASE Message(i)
  <2>1. inflight[i].client.tenant \in Tenants
    BY <1>1, SurfaceAssumption
  <2>2. QED
    BY <1>1, <1>2, <2>1, TaskKeeps DEF Message
<1>3. CASE Create(i)
  <2>1. inflight[i].op \in Ops /\ inflight[i].op.op = "task"
    BY <1>1, <1>3 DEF Create, Meets
  <2>2. inflight[i].op \in [op : {"task"}, tenant : Tenants]
    BY <2>1 DEF Ops
  <2>3. QED
    BY <1>1, <1>3, <2>2, TaskKeeps DEF Create
<1>4. QED
  BY <1>2, <1>3

\* A new request for approval disturbs no other.
LEMMA AskKeeps ==
  ASSUME SurfaceInv, NEW t \in Tenants, Ask(t)
  PROVE  SurfaceInv'
<1>1. /\ Queue!Enqueue(t, "sandbox_exec")
      /\ UNCHANGED <<rateVars, inflight, board, told>>
  BY DEF Ask
<1>2. StoresAreSound /\ AnswersAreBacked /\ AnswersStayTrue /\ RateInv
  BY DEF SurfaceInv
<1>3. PICK fresh : fresh = [tenant |-> t, tool |-> "sandbox_exec", status |-> "pending",
                            created |-> now, decided |-> 0, by |-> Queue!Nobody]
  OBVIOUS
<1>4. fresh \in Item /\ fresh.status = "pending"
  BY <1>2, <1>3 DEF Item, Queue!Statuses, RateInv, RateTypeOK
<1>5. items' = [x \in DOMAIN items \cup {Queue!NewId} |->
                  IF x \in DOMAIN items THEN items[x] ELSE fresh]
  BY <1>1, <1>3 DEF Queue!Enqueue, Queue!Used
<1>6. ItemsLast
  BY <1>2, <1>4, <1>5 DEF ItemsLast, StoresAreSound
<1>7. LineIsSound
  BY <1>1, <1>2 DEF LineIsSound, StoresAreSound
<1>8. RateInv'
  BY <1>1, <1>2, UnchangedKeeps
<1>9. QED
  BY <1>1, <1>2, <1>6, <1>7, <1>8, SilenceKeeps DEF SurfaceInv

\* A step that touches no store.
LEMMA StoresStay ==
  ASSUME StoresAreSound, UNCHANGED <<items, board>>,
         inflight' \in Seq([client : Clients, op : Ops])
  PROVE  ItemsLast /\ LineIsSound
BY DEF StoresAreSound, ItemsLast, LineIsSound

LEMMA StepSurface == SurfaceInv /\ [Next]_vars => SurfaceInv'
<1> SUFFICES ASSUME SurfaceInv, [Next]_vars PROVE SurfaceInv'
  OBVIOUS
<1> DEFINE Line == Seq([client : Clients, op : Ops])
<1>1. StoresAreSound /\ AnswersAreBacked /\ AnswersStayTrue /\ RateInv /\ inflight \in Line
  BY DEF SurfaceInv, StoresAreSound
<1>2. UNCHANGED <<items, board, told>> /\ inflight' \in Line /\ RateInv' => SurfaceInv'
  BY <1>1, StoresStay, SilenceKeeps DEF SurfaceInv
<1> HIDE DEF Line
<1>3. CASE StartUp \/ Install
  <2>1. UNCHANGED <<rateVars, inflight, items, board, told>>
    BY <1>3 DEF StartUp, Install
  <2>2. QED
    BY <1>1, <1>2, <2>1, UnchangedKeeps
<1>4. CASE Stop
  <2>1. /\ RateRestart /\ inflight' = << >> /\ items' = NoItems /\ board' = << >> /\ told' = {}
    BY <1>4 DEF Stop
  <2>2. RateInv'
    BY <1>1, <2>1, RestartKeeps
  <2>3. DOMAIN items' = {}
    BY <2>1 DEF NoItems
  <2>4. StoresAreSound'
    BY <2>1, <2>3 DEF StoresAreSound, NoItems
  <2>5. AnswersAreBacked' /\ AnswersStayTrue'
    BY <2>1, <2>3 DEF AnswersAreBacked, AnswersStayTrue
  <2>6. QED
    BY <2>2, <2>4, <2>5 DEF SurfaceInv
<1>5. CASE Clock
  <2>1. (Tick \/ SetBack) /\ UNCHANGED <<inflight, items, board, told>>
    BY <1>5 DEF Clock
  <2>2. QED
    BY <1>1, <1>2, <2>1, ClockKeeps
<1>6. ASSUME NEW c \in Clients, NEW op \in Ops, Arrive(c, op) PROVE SurfaceInv'
  <2>1. /\ Dispatch(c) /\ UNCHANGED <<items, board, told>>
        /\ inflight' = inflight \/ inflight' = Append(inflight, [client |-> c, op |-> op])
    BY <1>6 DEF Arrive
  <2>2. inflight' \in Line
    <3> DEFINE S == [client : Clients, op : Ops]
    <3>1. [client |-> c, op |-> op] \in S /\ inflight \in Seq(S)
      BY <1>1 DEF Line
    <3> HIDE DEF S
    <3>2. inflight' \in Seq(S)
      BY <2>1, <3>1
    <3>3. QED
      BY <3>2 DEF S, Line
  <2>3. QED
    BY <1>1, <1>2, <2>1, <2>2, DispatchKeeps
<1>7. ASSUME NEW i \in DOMAIN inflight, Reject(i) \/ NotFound(i) PROVE SurfaceInv'
  <2>1. Leaves(i) /\ UNCHANGED <<rateVars, items, board, told>>
    BY <1>7 DEF Reject, NotFound, Meets
  <2>2. inflight' \in Line
    BY <1>1, <2>1, LeavesKeeps DEF Line
  <2>3. QED
    BY <1>1, <1>2, <2>1, <2>2, UnchangedKeeps
<1>8. CASE UNCHANGED vars
  <2>1. UNCHANGED <<rateVars, inflight, items, board, told>>
    BY <1>8 DEF vars
  <2>2. QED
    BY <1>1, <1>2, <2>1, UnchangedKeeps
<1>9. QED
  BY <1>3, <1>4, <1>5, <1>6, <1>7, <1>8, DecideKeeps, PendingKeeps, CreateKeeps, AskKeeps
     DEF Next

LEMMA InitSurface == Init => SurfaceInv
<1> SUFFICES ASSUME Init PROVE SurfaceInv
  OBVIOUS
<1>1. RateInv
  BY EmptyKeeps DEF Init, RateInit
<1>2. DOMAIN items = {} /\ inflight = << >> /\ board = << >> /\ told = {}
  BY DEF Init, NoItems
<1>3. StoresAreSound
  BY <1>2 DEF StoresAreSound, Init, NoItems
<1>4. AnswersAreBacked /\ AnswersStayTrue
  BY <1>2 DEF AnswersAreBacked, AnswersStayTrue
<1>5. QED
  BY <1>1, <1>3, <1>4 DEF SurfaceInv

LEMMA SurfaceInvariant == Spec => []SurfaceInv
BY InitSurface, StepSurface, PTL DEF Spec
-----------------------------------------------------------------------------
\* The rate limiter holds whatever it counts by one header (security/rate_limit.py) to
\* the rate, whatever that is, however often and far the clock is set and however many
\* of the requests are still being served.
THEOREM RateStaysBounded == Spec => []RateIsBounded
<1>1. SurfaceInv => RateIsBounded
  BY DEF SurfaceInv, RateInv
<1>2. QED
  BY <1>1, SurfaceInvariant, PTL

\* What operators are told of decisions (api/app.py) stays true until the process ends,
\* and every verdict they are told is one that somebody of that name has asked for.
THEOREM AnswersRemainTrue == Spec => []AnswersStayTrue
<1>1. SurfaceInv => AnswersStayTrue
  BY DEF SurfaceInv
<1>2. QED
  BY <1>1, SurfaceInvariant, PTL
-----------------------------------------------------------------------------
\* Induction, for what can be written as a set of numbers.
LEMMA Induction ==
  ASSUME NEW S, 0 \in S, \A n \in Nat : n \in S => n + 1 \in S
  PROVE  Nat \subseteq S
<1> DEFINE Before == {x \in Nat \X Nat : x[1] < x[2]}
           Rest == Nat \ S
<1>1. SUFFICES ASSUME Rest # {} PROVE FALSE
  OBVIOUS
<1>2. IsWellFoundedOn(Before, Nat)
  BY NatLessThanWellFounded, Zenon DEF OpToRel
<1>3. PICK n \in Rest : \A m \in Rest : <<m, n>> \notin Before
  BY <1>1, <1>2, WFMin
<1>4. n \in Nat /\ n \notin S /\ n # 0
  OBVIOUS
<1>5. n - 1 \in Nat /\ n - 1 < n /\ (n - 1) + 1 = n
  BY <1>4
<1>6. n - 1 \in S
  BY <1>3, <1>4, <1>5
<1>7. QED
  BY <1>4, <1>5, <1>6

\* A set of numbers has a least one.
LEMMA FirstOf ==
  ASSUME NEW T, T \subseteq Nat, T # {}
  PROVE  \E i \in T : \A j \in T : i <= j
<1> DEFINE Before == {x \in Nat \X Nat : x[1] < x[2]}
<1>1. IsWellFoundedOn(Before, Nat)
  BY NatLessThanWellFounded, Zenon DEF OpToRel
<1>2. PICK i \in T : \A j \in T : <<j, i>> \notin Before
  BY <1>1, WFMin
<1>3. \A j \in T : ~ (j < i)
  BY <1>2
<1>4. QED
  BY <1>3

\* The registry once directory d of root r is loaded, from what it was before.
Loaded(before, r, d) ==
  IF IsSkill(r, d) THEN Registered(before, disk[r][d], <<r, d>>) ELSE before

\* f lists the registries before and after each directory up to m.
Loads(f, registry, r, m) ==
  f = [d \in 0 .. m |-> IF d = 0 THEN registry ELSE Loaded(f[d - 1], r, d)]

\* The loop over the directories comes to an end.
LEMMA LoadsExist ==
  ASSUME NEW registry, NEW r, NEW m \in Nat
  PROVE  \E f : Loads(f, registry, r, m)
<1> DEFINE S == {k \in Nat : \E f : Loads(f, registry, r, k)}
<1>1. 0 \in S
  <2>1. Loads([d \in 0 .. 0 |-> registry], registry, r, 0)
    BY DEF Loads
  <2>2. QED
    BY <2>1
<1>2. ASSUME NEW k \in Nat, k \in S
      PROVE  k + 1 \in S
  <2>1. PICK f : Loads(f, registry, r, k)
    BY <1>2
  <2>2. PICK g : g = [d \in 0 .. k + 1 |-> IF d <= k THEN f[d] ELSE Loaded(f[k], r, d)]
    OBVIOUS
  <2>3. \A d \in 0 .. k + 1 : g[d] = IF d = 0 THEN registry ELSE Loaded(g[d - 1], r, d)
    <3>1. ASSUME NEW d \in 0 .. k
          PROVE  g[d] = IF d = 0 THEN registry ELSE Loaded(g[d - 1], r, d)
      <4>1. g[d] = f[d] /\ (d # 0 => g[d - 1] = f[d - 1])
        BY <2>2
      <4>2. f[d] = IF d = 0 THEN registry ELSE Loaded(f[d - 1], r, d)
        BY <2>1 DEF Loads
      <4>3. QED
        BY <4>1, <4>2
    <3>2. g[k + 1] = Loaded(g[k], r, k + 1)
      BY <2>2
    <3>3. QED
      BY <3>1, <3>2
  <2>4. Loads(g, registry, r, k + 1)
    BY <2>2, <2>3 DEF Loads
  <2>5. QED
    BY <2>4
<1>3. m \in S
  <2> HIDE DEF S
  <2>1. QED
    BY <1>1, <1>2, Induction
<1>4. QED
  BY <1>3

\* What the first k directories of root r make of a registry.
Serves(new, registry, r, k) ==
  /\ DOMAIN new = DOMAIN registry \cup {n \in Names : \E d \in 1 .. k : disk[r][d] = n}
  /\ \A n \in Names :
       \/ \E d \in 1 .. k : /\ disk[r][d] = n /\ new[n] = <<r, d>>
                            /\ \A e \in 1 .. k : disk[r][e] = n => e <= d
       \/ /\ n \in DOMAIN registry => new[n] = registry[n]
          /\ \A e \in 1 .. k : disk[r][e] # n

LEMMA LoadServes ==
  ASSUME NEW registry, NEW r
  PROVE  Serves(Load(registry, r), registry, r, Dirs)
<1>1. Dirs \in Nat
  BY SkillsAssumption
<1>2. PICK f : Loads(f, registry, r, Dirs) /\ Load(registry, r) = f[Dirs]
  <2> DEFINE f == CHOOSE g : Loads(g, registry, r, Dirs)
  <2>1. Loads(f, registry, r, Dirs)
    BY <1>1, LoadsExist
  <2>2. Load(registry, r) = f[Dirs]
    BY DEF Load, Loads, Loaded
  <2>3. QED
    BY <2>1, <2>2
<1> DEFINE S == {k \in Nat : k <= Dirs => Serves(f[k], registry, r, k)}
<1>3. 0 \in S
  <2>1. f[0] = registry
    BY <1>1, <1>2 DEF Loads
  <2>2. QED
    BY <2>1 DEF Serves
<1>4. ASSUME NEW k \in Nat, k \in S
      PROVE  k + 1 \in S
  <2>1. SUFFICES ASSUME k + 1 <= Dirs
                 PROVE  Serves(f[k + 1], registry, r, k + 1)
    OBVIOUS
  <2>2. k + 1 \in 1 .. Dirs /\ (k + 1) - 1 = k
    BY <1>1, <2>1
  <2>3. f[k + 1] = Loaded(f[k], r, k + 1)
    BY <1>1, <1>2, <2>2 DEF Loads
  <2>4. PICK old : old = f[k] /\ Serves(old, registry, r, k)
    BY <1>1, <1>4, <2>1
  <2>5. PICK name : name = disk[r][k + 1]
    OBVIOUS
  <2>6. \A e \in 1 .. k + 1 : e \in 1 .. k \/ e = k + 1
    OBVIOUS
  <2>7. CASE name \in Names
    <3>1. PICK new : /\ new = f[k + 1]
                     /\ new = [n \in DOMAIN old \cup {name} |-> IF n = name THEN <<r, k + 1>> ELSE old[n]]
      BY <2>3, <2>4, <2>5, <2>7 DEF Loaded, IsSkill, Registered
    <3>2. DOMAIN new = DOMAIN registry \cup {n \in Names : \E d \in 1 .. k + 1 : disk[r][d] = n}
      BY <2>4, <2>5, <2>6, <2>7, <3>1 DEF Serves
    <3>3. ASSUME NEW n \in Names, n # name
          PROVE  \/ \E d \in 1 .. k + 1 : /\ disk[r][d] = n /\ new[n] = <<r, d>>
                                          /\ \A e \in 1 .. k + 1 : disk[r][e] = n => e <= d
                 \/ /\ n \in DOMAIN registry => new[n] = registry[n]
                    /\ \A e \in 1 .. k + 1 : disk[r][e] # n
      <4>1. CASE \A e \in 1 .. k : disk[r][e] # n
        <5>1. n \in DOMAIN registry => n \in DOMAIN old /\ old[n] = registry[n]
          BY <2>4, <4>1 DEF Serves
        <5>2. QED
          BY <2>5, <2>6, <3>1, <3>3, <4>1, <5>1
      <4>2. CASE \E e \in 1 .. k : disk[r][e] = n
        <5>1. PICK d \in 1 .. k : /\ disk[r][d] = n /\ old[n] = <<r, d>>
                                  /\ \A e \in 1 .. k : disk[r][e] = n => e <= d
          BY <2>4, <4>2 DEF Serves
        <5>2. n \in DOMAIN old /\ d \in 1 .. k + 1
          BY <2>4, <5>1 DEF Serves
        <5>3. new[n] = <<r, d>>
          BY <3>1, <3>3, <5>1, <5>2
        <5>4. \A e \in 1 .. k + 1 : disk[r][e] = n => e <= d
          BY <2>5, <2>6, <3>3, <5>1
        <5>5. QED
          BY <5>1, <5>2, <5>3, <5>4
      <4>3. QED
        BY <4>1, <4>2
    <3>4. new[name] = <<r, k + 1>>
      BY <3>1
    <3>5. disk[r][k + 1] = name /\ k + 1 \in 1 .. k + 1 /\ \A e \in 1 .. k + 1 : e <= k + 1
      BY <2>5
    <3>6. ASSUME NEW n \in Names
          PROVE  \/ \E d \in 1 .. k + 1 : /\ disk[r][d] = n /\ new[n] = <<r, d>>
                                          /\ \A e \in 1 .. k + 1 : disk[r][e] = n => e <= d
                 \/ /\ n \in DOMAIN registry => new[n] = registry[n]
                    /\ \A e \in 1 .. k + 1 : disk[r][e] # n
      <4>1. CASE n # name
        BY <3>3, <4>1
      <4>2. CASE n = name
        BY <3>4, <3>5, <4>2
      <4>3. QED
        BY <4>1, <4>2
    <3>7. Serves(new, registry, r, k + 1)
      BY <3>2, <3>6 DEF Serves
    <3>8. QED
      BY <3>1, <3>7
  <2>8. CASE name \notin Names
    <3>1. f[k + 1] = old
      BY <2>3, <2>4, <2>5, <2>8 DEF Loaded, IsSkill
    <3>2. QED
      BY <2>4, <2>5, <2>6, <2>8, <3>1 DEF Serves
  <2>9. QED
    BY <2>7, <2>8
<1>5. Dirs \in S
  <2> HIDE DEF S
  <2>1. QED
    BY <1>1, <1>3, <1>4, Induction
<1>6. QED
  BY <1>1, <1>2, <1>5

\* What a process serves after its start.
LEMMA StartServes ==
  ASSUME Start, disk \in Disks
  PROVE  SkillsAreServed'
<1>1. skills' = LoadDiskSkills /\ disk' = disk /\ {Roots, Dirs} \subseteq Nat /\ Builtin \subseteq Names
  BY SkillsAssumption DEF Start
<1> SUFFICES ASSUME NEW n \in Names
             PROVE  LET best == ReadUri(n)' IN
                    \/ \E r \in 1 .. Roots :
                         /\ \A q \in 1 .. r - 1, d \in 1 .. Dirs : ~IsSkill(q, d)
                         /\ \E d \in Named(r, n) : best = <<r, d>> /\ \A e \in Named(r, n) : e <= d
                    \/ /\ best = IF n \in Builtin THEN "builtin" ELSE "not found"
                       /\ \A r \in 1 .. Roots : Named(r, n) # {} =>
                            \E q \in 1 .. r - 1, d \in 1 .. Dirs : IsSkill(q, d)
  BY <1>1 DEF SkillsAreServed, ReadUri, Named, IsSkill
<1>2. ReadUri(n)' = IF n \in DOMAIN LoadDiskSkills THEN LoadDiskSkills[n] ELSE "not found"
  BY <1>1 DEF ReadUri
<1>3. DOMAIN BuiltinSkills = Builtin /\ \A b \in Builtin : BuiltinSkills[b] = "builtin"
  BY DEF BuiltinSkills
<1>4. CASE Filled \cap Read = {}
  <2>1. Filled = {}
    <3>1. SUFFICES ASSUME Filled # {} PROVE FALSE
      OBVIOUS
    <3>2. Filled \subseteq Nat
      BY DEF Filled
    <3>3. PICK r \in Filled : \A q \in Filled : r <= q
      BY <3>1, <3>2, FirstOf
    <3>4. r \in Read
      BY <1>1, <3>2, <3>3 DEF Read, Filled
    <3>5. QED
      BY <1>4, <3>3, <3>4
  <2>2. ReadUri(n)' = IF n \in Builtin THEN "builtin" ELSE "not found"
    BY <1>2, <1>3, <1>4 DEF LoadDiskSkills
  <2>3. \A r \in 1 .. Roots : Named(r, n) = {}
    BY <2>1 DEF Filled, Named, IsSkill
  <2>4. QED
    BY <2>2, <2>3
<1>5. CASE Filled \cap Read # {}
  <2>1. PICK r \in Filled \cap Read : LoadDiskSkills = Load(BuiltinSkills, r)
    BY <1>5 DEF LoadDiskSkills
  <2>2. /\ r \in 1 .. Roots /\ \E d \in 1 .. Dirs : IsSkill(r, d)
        /\ \A q \in 1 .. r - 1, d \in 1 .. Dirs : ~IsSkill(q, d)
    BY <1>1, <2>1 DEF Filled, Read
  <2>3. PICK new : new = LoadDiskSkills /\ Serves(new, BuiltinSkills, r, Dirs)
    BY <2>1, LoadServes
  <2>4. CASE Named(r, n) # {}
    <3>1. PICK d \in Named(r, n) : new[n] = <<r, d>> /\ \A e \in Named(r, n) : e <= d
      BY <2>3, <2>4 DEF Serves, Named
    <3>2. n \in DOMAIN new
      BY <2>3, <2>4 DEF Serves, Named
    <3>3. ReadUri(n)' = <<r, d>>
      BY <1>2, <2>3, <3>1, <3>2
    <3>4. QED
      BY <2>2, <3>1, <3>3
  <2>5. CASE Named(r, n) = {}
    <3>1. /\ n \in DOMAIN new <=> n \in Builtin
          /\ n \in Builtin => new[n] = "builtin"
      BY <1>3, <2>3, <2>5 DEF Serves, Named
    <3>2. ReadUri(n)' = IF n \in Builtin THEN "builtin" ELSE "not found"
      BY <1>2, <2>3, <3>1
    <3>3. ASSUME NEW s \in 1 .. Roots, Named(s, n) # {}
          PROVE  \E q \in 1 .. s - 1, d \in 1 .. Dirs : IsSkill(q, d)
      <4>1. s # r /\ \E d \in 1 .. Dirs : IsSkill(s, d)
        BY <2>5, <3>3 DEF Named, IsSkill
      <4>2. r < s
        BY <1>1, <2>2, <4>1
      <4>3. QED
        BY <1>1, <2>2, <4>2
    <3>4. QED
      BY <3>2, <3>3
  <2>6. QED
    BY <2>4, <2>5
<1>6. QED
  BY <1>4, <1>5

ServedInv == disk \in Disks /\ StartedSkillsAreServed

LEMMA StepServed == ServedInv /\ [Next]_vars => ServedInv'
<1> SUFFICES ASSUME disk \in Disks, StartedSkillsAreServed, [Next]_vars
             PROVE  disk' \in Disks /\ StartedSkillsAreServed'
  BY DEF ServedInv
<1>1. CASE UNCHANGED <<skillsVars, up>>
  BY <1>1 DEF skillsVars, StartedSkillsAreServed, SkillsAreServed, ReadUri, Named, IsSkill
<1>2. CASE StartUp
  BY <1>2, StartServes DEF StartUp, Start, StartedSkillsAreServed
<1>3. CASE Stop \/ Install
  BY <1>3 DEF Stop, Install, StartedSkillsAreServed
<1>4. CASE ~ (StartUp \/ Stop \/ Install)
  BY <1>1, <1>4 DEF Next, vars, Clock, Arrive, Reject, Decide, NotFound, Pending, Message, Create,
                          Ask
<1>5. QED
  BY <1>2, <1>3, <1>4

\* A process that has started serves the skills of its disk, for any roots,
\* directories, names and files, whenever it starts again.
THEOREM StartedSkillsStayServed == Spec => []StartedSkillsAreServed
<1>1. Init => ServedInv
  BY DEF Init, StartedSkillsAreServed, ServedInv
<1>2. ServedInv => StartedSkillsAreServed
  BY DEF ServedInv
<1>3. QED
  BY <1>1, <1>2, StepServed, PTL DEF Spec

LEMMA BuiltinTyped == DOMAIN BuiltinSkills = Builtin /\ Builtin \subseteq Names
  BY SkillsAssumption DEF BuiltinSkills

\* The start keeps the built-in skills and takes names from files only.
LEMMA StartTyped ==
  ASSUME Start
  PROVE  DOMAIN skills' \subseteq Names /\ Builtin \subseteq DOMAIN skills'
<1>1. skills' = LoadDiskSkills /\ DOMAIN BuiltinSkills = Builtin /\ Builtin \subseteq Names
  BY BuiltinTyped DEF Start
<1>2. CASE LoadDiskSkills = BuiltinSkills
  BY <1>1, <1>2
<1>3. ASSUME NEW r, LoadDiskSkills = Load(BuiltinSkills, r)
      PROVE  DOMAIN skills' \subseteq Names /\ Builtin \subseteq DOMAIN skills'
  <2>1. PICK new : new = skills' /\ Serves(new, BuiltinSkills, r, Dirs)
    BY <1>1, <1>3, LoadServes
  <2>2. DOMAIN new = DOMAIN BuiltinSkills \cup {n \in Names : \E d \in 1 .. Dirs : disk[r][d] = n}
    BY <2>1 DEF Serves
  <2>3. QED
    BY <1>1, <2>1, <2>2
<1>4. QED
  BY <1>2, <1>3 DEF LoadDiskSkills

ProcessTyped == /\ up \in BOOLEAN /\ restarts \in Nat
                /\ DOMAIN skills \subseteq Names /\ Builtin \subseteq DOMAIN skills

LEMMA StepTyped == ProcessTyped /\ [Next]_vars => ProcessTyped'
<1> SUFFICES ASSUME ProcessTyped, [Next]_vars PROVE ProcessTyped'
  OBVIOUS
<1>1. CASE UNCHANGED <<skillsVars, up, restarts>>
  BY <1>1 DEF skillsVars, ProcessTyped
<1>2. CASE StartUp
  BY <1>2, StartTyped DEF StartUp, ProcessTyped
<1>3. CASE Stop
  <2>1. up' \in BOOLEAN
    BY <1>3, Zenon DEF Stop
  <2>2. restarts' \in Nat
    BY <1>3 DEF Stop, ProcessTyped
  <2>3. DOMAIN skills' \subseteq Names /\ Builtin \subseteq DOMAIN skills'
    BY <1>3, BuiltinTyped DEF Stop
  <2>4. QED
    BY <2>1, <2>2, <2>3 DEF ProcessTyped
<1>4. CASE Install
  BY <1>4 DEF Install, ProcessTyped
<1>5. CASE ~ (StartUp \/ Stop \/ Install)
  BY <1>1, <1>5 DEF Next, vars, Clock, Arrive, Reject, Decide, NotFound, Pending, Message, Create,
                          Ask
<1>6. QED
  BY <1>2, <1>3, <1>4, <1>5

\* The buckets, the requests in flight, the stores and the skills are of their types.
THEOREM SurfaceTyped == Spec => []TypeOK
<1>1. Init => ProcessTyped
  <2>1. SUFFICES ASSUME Init PROVE ProcessTyped
    OBVIOUS
  <2>2. up \in BOOLEAN
    BY <2>1, Zenon DEF Init
  <2>3. restarts \in Nat /\ DOMAIN skills \subseteq Names /\ Builtin \subseteq DOMAIN skills
    BY <2>1, BuiltinTyped DEF Init
  <2>4. QED
    BY <2>2, <2>3 DEF ProcessTyped
<1>2. Init => ServedInv
  BY DEF Init, StartedSkillsAreServed, ServedInv
<1>3. SurfaceInv /\ ProcessTyped /\ ServedInv => TypeOK
  BY DEF SurfaceInv, RateInv, StoresAreSound, ProcessTyped, ServedInv, TypeOK
<1>4. QED
  BY <1>1, <1>2, <1>3, StepTyped, StepServed, SurfaceInvariant, PTL DEF Spec
=============================================================================
