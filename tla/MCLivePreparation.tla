------------------------- MODULE MCLivePreparation -------------------------
(* LivePreparation on small instances.                                      *)
EXTENDS LivePreparation, TLC

\* Preparations, and the client request ids, are interchangeable.
Symmetry == Permutations(Preps) \cup Permutations(RequestIds)
=============================================================================
