---------------------------- MODULE ApprovalDesk ----------------------------
(***************************************************************************)
(* What the human-in-the-loop queue promises its operators: a request is   *)
(* open for TTL ticks, an open request may be approved or denied once, and *)
(* the moment it is older than that it is expired, whether or not anybody  *)
(* looks at it.                                                            *)
(***************************************************************************)
EXTENDS Naturals

CONSTANTS Requests, TTL

VARIABLES
  status,   \* status[r], "unknown" before the request is made
  opened,   \* opened[r]: when r was made
  now

deskVars == <<status, opened, now>>

Overdue(r, t) == t > opened[r] + TTL

Init == /\ status = [r \in Requests |-> "unknown"]
        /\ opened = [r \in Requests |-> 0]
        /\ now = 0

Open(r) == /\ status[r] = "unknown"
           /\ status' = [status EXCEPT ![r] = "pending"]
           /\ opened' = [opened EXCEPT ![r] = now]
           /\ UNCHANGED now

Decide(r, verdict) == /\ status[r] = "pending"
                      /\ status' = [status EXCEPT ![r] = verdict]
                      /\ UNCHANGED <<opened, now>>

\* Time passes and takes every overdue request with it.
Tick == /\ now' = now + 1
        /\ status' = [r \in Requests |->
                        IF status[r] = "pending" /\ Overdue(r, now')
                        THEN "expired" ELSE status[r]]
        /\ UNCHANGED opened

Next == \/ \E r \in Requests : Open(r)
        \/ \E r \in Requests, verdict \in {"approved", "denied"} : Decide(r, verdict)
        \/ Tick

Spec == Init /\ [][Next]_deskVars
=============================================================================
