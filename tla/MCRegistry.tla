----------------------------- MODULE MCRegistry -----------------------------
EXTENDS Registry, TLC

\* The tasks are interchangeable; a run that checks liveness does not use this.
Symmetry == Permutations(Tasks)
=============================================================================
