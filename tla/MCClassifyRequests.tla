-------------------------- MODULE MCClassifyRequests --------------------------
EXTENDS ClassifyRequests, TLC

\* Jobs and requests are interchangeable.
Symmetric == Permutations(Job) \cup Permutations(Request)
===============================================================================
