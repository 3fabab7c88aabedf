---------------------------- MODULE MCConnection ----------------------------
EXTENDS Connection, TLC

\* Coroutines are interchangeable in the invariants.
SlotSymmetry == Permutations(Slots)
=============================================================================
