----------------------------- MODULE MCJobStore -----------------------------
EXTENDS JobStore, TLC

\* Identifiers are random: nothing in the store orders jobs.
Symmetry == Permutations(Jobs)
=============================================================================
