----------------------------- MODULE PlanCache -----------------------------
(***************************************************************************)
(* The tools plan_cache_put, plan_cache_get and plan_cache_delete          *)
(* (src/src/yodmcp/tools/register.py) on the cache.                        *)
(***************************************************************************)
EXTENDS Cache

CONSTANTS
  Tasks,          \* task descriptions
  PlanValues      \* plan templates

ASSUME TasksAssumption == Tasks \subseteq Payloads

VARIABLE answer         \* what the last call of a tool answered

planVars == <<cacheVars, answer>>

NoAnswer == [tool |-> "none"]

PlanKey(task) == KeyOf("plan", task)

PlanInit == answer = NoAnswer

PlanCachePut(task, plan) ==
  /\ Put(PlanKey(task), plan)
  /\ answer' = [tool |-> "put", task |-> task, number |-> Len(objs) + 1]

\* A lookup that finds nothing near changes nothing.
PlanCacheGet(task) ==
  \/ /\ GetSemantic("plan", task)
     /\ answer' = [tool |-> "get", task |-> task,
                   number |-> CHOOSE n \in Listed : IsNearest(n, "plan", task)]
  \/ /\ ~ \E n \in Listed : IsNearest(n, "plan", task)
     /\ answer' = [tool |-> "get", task |-> task, number |-> 0]
     /\ UNCHANGED cacheVars

PlanCacheDelete(task) ==
  /\ DeletePlan(PlanKey(task))
  /\ answer' = [tool |-> "delete", task |-> task,
                deleted |-> PlanKey(task) \in DOMAIN exact]

PlanNext == \E task \in Tasks :
  \/ \E plan \in PlanValues : PlanCachePut(task, plan)
  \/ PlanCacheGet(task) \/ PlanCacheDelete(task)
-----------------------------------------------------------------------------
PlanTypeOK ==
  answer \in {NoAnswer}
    \cup [tool : {"put", "get"}, task : Tasks, number : 0 .. Len(objs)]
    \cup [tool : {"delete"}, task : Tasks, deleted : BOOLEAN]

\* A plan that was put for this very description is found while it is in the
\* list, by itself or in another version or by an equally similar one: similarity
\* never prefers a less similar description.
ExactDescriptionWins ==
  /\ answer.tool = "get" /\ Score[<<answer.task, answer.task>>] >= Threshold
  /\ \E n \in Listed : objs[n].key = PlanKey(answer.task)
  => /\ answer.number # 0
     /\ Score[<<answer.task, objs[answer.number].key.payload>>]
          = Score[<<answer.task, answer.task>>]
-----------------------------------------------------------------------------
\* "same task_description overwrites the exact key": a lookup of a description
\* that finds a plan stored for it finds the one stored last.
PutOverwrites ==
  /\ answer.tool = "get" /\ answer.number # 0
  /\ objs[answer.number].key = PlanKey(answer.task)
  => answer.number = last[PlanKey(answer.task)]

\* plan_cache_put answers "cached": True: the plan is in the cache.
CachedIsCached == answer.tool = "put" => answer.number \in Listed

\* "missing keys return deleted=false": deleted=false is answered only when no
\* plan of the description could have been found.
NotDeletedWasMissing ==
  [][\A task \in Tasks : PlanCacheDelete(task) /\ ~answer'.deleted =>
       ~ \E n \in Listed : objs[n].key = PlanKey(task)]_planVars
=============================================================================
