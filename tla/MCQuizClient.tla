---------------------------- MODULE MCQuizClient ----------------------------
(* QuizClient on small instances.                                           *)
EXTENDS QuizClient
=============================================================================
