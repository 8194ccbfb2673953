--------------------------- MODULE MCModelProcess ---------------------------
(* ModelProcess on small instances; constants get their values in the cfg.  *)
EXTENDS ModelProcess
=============================================================================
