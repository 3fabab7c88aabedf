----------------------------- MODULE MCBilling -----------------------------
\* Billing with one call a day on the free plan and no limit on the others.
EXTENDS Billing

OneFreeCall == [p \in Plans |-> IF p = "free" THEN 1 ELSE -1]
=============================================================================
