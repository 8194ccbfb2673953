---------------------------- MODULE MCClientFlow ----------------------------
(* ClientFlow on small instances.                                           *)
EXTENDS ClientFlow
=============================================================================
