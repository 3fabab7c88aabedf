---------------------------- MODULE MCToolGate ----------------------------
\* The tool gate with a plan of one call a day and one without a limit.
EXTENDS ToolGate, TLC

OneCall == ("free" :> 1) @@ ("enterprise" :> -1)
TwoCalls == ("free" :> 2) @@ ("enterprise" :> -1)

\* Tenants are interchangeable in the invariants.
TenantSymmetry == Permutations(Tenants)
=============================================================================
