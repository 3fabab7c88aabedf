----------------------------- MODULE RateLimit -----------------------------
(***************************************************************************)
(* RateLimitMiddleware (src/src/yodmcp/security/rate_limit.py): a token    *)
(* bucket per client key, refilled by the wall clock, which may be set     *)
(* back.  dispatch() awaits nothing before its verdict: a request is one   *)
(* step.  Times are seconds and tokens are counted in sixtieths, so that   *)
(* a second brings Rpm of them and a request costs 60.  Requests to exempt *)
(* paths, and all of them if Rpm is not positive, touch no bucket.         *)
(***************************************************************************)
EXTENDS Integers, Sequences, FiniteSets, Auth

CONSTANTS
  LongKeys,     \* keys of twelve characters and more; no two end alike
  Rpm,          \* requests per minute
  Jumps,        \* how far the clock is set at once
  MaxTime,      \* bound: latest reading of the clock
  MaxBack,      \* bound: times the clock is set back
  MaxRequests   \* bound: requests

ASSUME RateAssumption == /\ Rpm \in Nat \ {0} /\ Jumps \subseteq Nat
                         /\ {MaxTime, MaxBack, MaxRequests} \subseteq Nat

VARIABLES
  buckets,  \* _buckets: a function from the keys that have one
  now,      \* time.time()
  backs,    \* how often the clock was set back
  log       \* the requests since the start of the process, and whether they
            \* passed; not in the program

rateVars == <<buckets, now, backs, log>>

Full == 60 * Rpm

RateInit == /\ buckets = [k \in {} |-> 0]
            /\ now = 0 /\ backs = 0
            /\ log = << >>
-----------------------------------------------------------------------------
\* The key that a request is counted by: any Authorization goes before X-API-Key.
Counted(c) == IF c.auth # NoKey THEN c.auth ELSE c.xkey

\* Mutant of BucketKey: the whole header is the key.
HeaderKey(c) == IF Counted(c) = NoKey THEN <<"ip">> ELSE <<c.bearer, Counted(c)>>

\* _key(): the last twelve characters of the header, which are those of the key if it
\* is long; with a short one they show the word Bearer.  Requests without a header
\* come from one address.
BucketKey(c) == IF Counted(c) = NoKey THEN <<"ip">>
                ELSE IF Counted(c) \in LongKeys THEN <<Counted(c)>>
                ELSE <<c.bearer, Counted(c)>>

\* The bucket of k as the request finds it; a new one is full.
Bucket(k) == IF k \in DOMAIN buckets THEN buckets[k] ELSE [tokens |-> Full, last |-> now]

\* The tokens after the refill: fewer than before if the clock was set back.
Refilled(b) == LET tokens == b.tokens + (now - b.last) * Rpm
               IN IF tokens < Full THEN tokens ELSE Full

Spent(tokens) == IF tokens < 60 THEN tokens ELSE tokens - 60

\* The bucket the request leaves.
Kept(b) == [tokens |-> Spent(Refilled(b)), last |-> now]

\* dispatch(): a request without a token raises HTTPException(429).
Dispatch(c) ==
  LET k == BucketKey(c) IN
  /\ Len(log) < MaxRequests
  /\ buckets' = [j \in DOMAIN buckets \cup {k} |->
                   IF j = k THEN Kept(Bucket(k)) ELSE buckets[j]]
  /\ log' = Append(log, [client |-> c, at |-> now, passed |-> Refilled(Bucket(k)) >= 60])
  /\ UNCHANGED <<now, backs>>

Tick == /\ \E d \in Jumps : now' = now + d /\ now' <= MaxTime
        /\ UNCHANGED <<buckets, backs, log>>

SetBack == /\ backs < MaxBack /\ backs' = backs + 1
           /\ \E d \in Jumps : now' = now - d
           /\ UNCHANGED <<buckets, log>>

\* The buckets of a new process are full.
RateRestart == /\ buckets' = [k \in {} |-> 0] /\ log' = << >>
               /\ UNCHANGED <<now, backs>>
-----------------------------------------------------------------------------
RateTypeOK == /\ \A k \in DOMAIN buckets : /\ buckets[k] \in [tokens : Int, last : Int]
                                           /\ buckets[k].tokens <= Full
              /\ now \in Int /\ backs \in Nat
              /\ log \in Seq([client : Clients, at : Int, passed : BOOLEAN])

\* Requests that the limit counts together: the same headers, or the same long key
\* in the header it looks at.
Same(c, d) == \/ c.auth = d.auth /\ c.bearer = d.bearer /\ c.xkey = d.xkey
              \/ Counted(c) = Counted(d) /\ Counted(c) \in LongKeys

Between(i, j) == {n \in i .. j : log[n].passed /\ Same(log[n].client, log[i].client)}

\* Nothing that the limiter counts exceeds its rate: the requests with one long key
\* in the header it looks at, or with the same headers, that pass between any two
\* of them are at most Rpm and Rpm more per minute of the clock between them, however
\* often and far the clock is set, whichever header the key is in, whatever tenants
\* they name, and however many of them are still being served.
RateIsBounded ==
  \A i, j \in DOMAIN log : i <= j /\ Same(log[j].client, log[i].client) /\ log[j].passed =>
    60 * Cardinality(Between(i, j)) <= Full + Rpm * (log[j].at - log[i].at)

\* The rate is that of an API key, as the comments of the module say (rate_limit.py
\* lines 3 and 38): it is not, as a key that authenticates by X-API-Key gets a new
\* bucket with every other Authorization.
KeysAreLimited ==
  \A k \in Keys, i, j \in DOMAIN log :
    LET ofKey == {n \in i .. j : log[n].passed /\ Provided(log[n].client) = k} IN
    i <= j /\ {i, j} \subseteq ofKey =>
      60 * Cardinality(ofKey) <= Full + Rpm * (log[j].at - log[i].at)
=============================================================================
