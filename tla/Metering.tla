------------------------------ MODULE Metering ------------------------------
(***************************************************************************)
(* UsageMeter with the sqlite backend                                      *)
(* (src/src/yodmcp/monetization/metering.py): counters in memory, which    *)
(* the quota is checked against, and durable ones, which a task in the     *)
(* background updates for every event.  One metric; every event has        *)
(* quantity 1.  The event of a call has the number of the call.            *)
(***************************************************************************)
EXTENDS Background, Tenancy

CONSTANT MaxDays    \* bound: days

ASSUME MeterAssumption == MaxDays \in Nat

VARIABLES
  usage,    \* _events: the key <<tenant, day>> of each call that was metered
  counts,   \* counts[p][<<t, d>>]: _counts of process p
  day

meterVars == <<usage, counts, day>>

Keys == Tenants \X (0 .. MaxDays)
NoCounts == [k \in Keys |-> 0]

MeterInit == /\ usage = [c \in {} |-> <<>>]
             /\ counts = [p \in Procs |-> NoCounts]
             /\ day = 0

Plus(c, k) == [c EXCEPT ![k] = @ + 1]

\* record() up to the creation of its task: the event is counted at once.
Meter(p, t, call) ==
  /\ usage' = [c \in DOMAIN usage \cup {call} |-> IF c = call THEN <<t, day>> ELSE usage[c]]
  /\ counts' = [counts EXCEPT ![p] = Plus(@, <<t, day>>)]
  /\ UNCHANGED day

\* The statements of _record_async(): the upsert of usage_daily, ...
InsertDaily(n) ==
  /\ Execute(n, "daily", [Sees(n) EXCEPT !.daily = Plus(@, usage[tasks[n].call])], "row")
  /\ UNCHANGED meterVars

\* ... and the INSERT INTO usage_events.
InsertRow(n) ==
  /\ Execute(n, "row", [Sees(n) EXCEPT !.rows = @ \cup {tasks[n].call}], "commit")
  /\ UNCHANGED meterVars

\* The counters of a new process are empty.
MeterEnded(p) == counts' = [counts EXCEPT ![p] = NoCounts] /\ UNCHANGED <<usage, day>>

\* An event keeps the day of its timestamp.
NextDay == day < MaxDays /\ day' = day + 1 /\ UNCHANGED <<usage, counts>>
-----------------------------------------------------------------------------
MeteredOf(k, calls) == Cardinality({c \in calls : usage[c] = k})

\* No tenant is billed twice: however tasks of one connection write into each
\* other's transaction, raise and die, the durable counter of a day lies between
\* the events stored for it and the events recorded.
NothingIsOvercounted ==
  \A k \in Keys : /\ MeteredOf(k, file.disk.rows) <= file.disk.daily[k]
                  /\ file.disk.daily[k] <= MeteredOf(k, DOMAIN usage)

\* "Supports in-memory and SQLite durable counters so daily quotas survive
\* restarts": what the sole process checks a quota against is no less than what is
\* stored.
QuotasSurviveRestarts ==
  \A t \in Tenants, p \in Procs : counts[p][<<t, day>>] >= file.disk.daily[<<t, day>>]
=============================================================================
