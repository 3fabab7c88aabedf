---------------------------- MODULE MCTaskStore ----------------------------
\* TaskStore with two coroutines of one process and one of another.
EXTENDS TaskStore, TLC

CONSTANTS s1, s2, s3, p1, p2

TwoAndOne == (s1 :> p1) @@ (s2 :> p1) @@ (s3 :> p2)
=============================================================================
