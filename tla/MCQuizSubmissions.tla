------------------------- MODULE MCQuizSubmissions -------------------------
(* QuizSubmissions on small instances.                                      *)
EXTENDS QuizContract, TLC

\* The server processes, and the client request ids, are interchangeable.
Symmetry == Permutations(Procs) \cup Permutations(Requests)
=============================================================================
