---------------------------- MODULE MCSelfUpdate ----------------------------
EXTENDS SelfUpdate, TLC

\* Requests are interchangeable, and so are jobs: nothing orders either.
Symmetry == Permutations(Requests) \cup Permutations(Jobs)
=============================================================================
