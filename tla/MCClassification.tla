--------------------------- MODULE MCClassification ---------------------------
EXTENDS Classification, TLC

\* Attempts and worker processes are interchangeable.
Symmetric == Permutations(Job) \cup Permutations(Worker)
===============================================================================
