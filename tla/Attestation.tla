---------------------------- MODULE Attestation ----------------------------
(***************************************************************************)
(* AttestationService and its providers                                    *)
(* (src/src/yodmcp/security/attestation.py).  A signature is modelled as   *)
(* the pair of the key and what is signed: it verifies if both are the     *)
(* same.  The HMAC key and a private key in YODMCP_TEE_KEY_PEM come from   *)
(* the environment; without the latter a provider draws a key of its own   *)
(* for every start of the process.  Time stamp and arguments hash are      *)
(* signed and read like the tool; actor, session, mode and public key are  *)
(* not signed.                                                             *)
(***************************************************************************)
EXTENDS Naturals, Sequences, Deployment

CONSTANT
  Environment   \* of each process: mode, pem (is a key given?), enclave (is it in one?)

Modes == {"software", "simulated_tee", "tee_nitro", "tee_sgx"}

ASSUME EnvironmentAssumption ==
  Environment \in [Procs -> [mode : Modes, pem : BOOLEAN, enclave : BOOLEAN]]

VARIABLES
  starts,   \* starts[p]: how often process p has started
  claims    \* the claims of all processes, as the clients hold them

attestVars == <<starts, claims>>

AttestInit == starts = [p \in Procs |-> 1] /\ claims = << >>

Decisions == {"allowed", "denied"}
-----------------------------------------------------------------------------
\* Mutant of KeyOf: a software secret is drawn at every start.
KeyOfStart(p) ==
  IF Environment[p].pem THEN <<"pem">> ELSE <<p, starts[p]>>

\* The key of the provider of process p, made by build_tee_provider().
KeyOf(p) ==
  IF Environment[p].mode = "software" THEN <<"secret">>
  ELSE IF Environment[p].pem THEN <<"pem">> ELSE <<p, starts[p]>>

\* What the provider says of the code it runs, live or of its fallback.
MeasurementOf(p) ==
  IF Environment[p].mode \in {"tee_nitro", "tee_sgx"}
  THEN <<Environment[p].mode, Environment[p].enclave>>
  ELSE <<Environment[p].mode>>

\* _body(): the fields of the claim and the verifier's measurement; the policy
\* bundle is the same in every process.
Body(p, claim) == <<claim.id, claim.tool, claim.decision, MeasurementOf(p)>>

Sign(p, body) == <<KeyOf(p), body>>

\* issue()
NewClaim(p, id, tool, decision) ==
  LET claim == [id |-> id, tool |-> tool, decision |-> decision]
  IN [fields |-> claim, signature |-> Sign(p, Body(p, claim)), by |-> <<p, starts[p]>>]

Issue(p, id, tool, decision) ==
  /\ claims' = Append(claims, NewClaim(p, id, tool, decision))
  /\ UNCHANGED starts

\* verify() by process p, of the fields and the signature a client presents.
Verify(p, fields, signature) == Sign(p, Body(p, fields)) = signature

Restarted(p) == starts' = [starts EXCEPT ![p] = @ + 1] /\ UNCHANGED claims
-----------------------------------------------------------------------------
\* Two processes attest alike if they have the same mode and are both inside an
\* enclave or both outside, and the environment gives both the key.
Alike(p, q) ==
  /\ MeasurementOf(p) = MeasurementOf(q)
  /\ Environment[p].mode = "software" \/ (Environment[p].pem /\ Environment[q].pem)

\* Claims outlive restarts: at any time a process verifies the claims it has
\* issued since its start, and those of the processes that attest alike, itself
\* included, however often any of them restarted; it verifies no others, and
\* none of them with another decision.
ClaimsVerify ==
  \A i \in DOMAIN claims, p \in Procs, d \in Decisions :
    LET c == claims[i] IN
    Verify(p, [c.fields EXCEPT !.decision = d], c.signature) <=>
      d = c.fields.decision /\ (c.by = <<p, starts[p]>> \/ Alike(p, c.by[1]))
=============================================================================
