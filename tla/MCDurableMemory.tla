-------------------------- MODULE MCDurableMemory --------------------------
\* The durable memory under one coroutine in each of two processes, and under
\* two coroutines of one process and one of another.
EXTENDS DurableMemory, TLC

CONSTANTS s1, s2, s3, p1, p2

OneEach == (s1 :> p1) @@ (s2 :> p2)
Together == (s1 :> p1) @@ (s2 :> p1)
=============================================================================
