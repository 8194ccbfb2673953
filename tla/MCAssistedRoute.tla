-------------------------- MODULE MCAssistedRoute --------------------------
(* AssistedRoute on small instances.                                        *)
EXTENDS AssistedRoute
=============================================================================
