------------------------------ MODULE MCTrails ------------------------------
\* A process that attests in software and one that simulates a TEE without a key
\* of its own, as docker-compose.yml sets it up.
EXTENDS Trails

TwoModes == [x \in Procs |->
  [mode |-> IF x = "p" THEN "software" ELSE "simulated_tee", pem |-> FALSE, enclave |-> FALSE]]
=============================================================================
