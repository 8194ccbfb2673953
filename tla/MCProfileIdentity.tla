------------------------- MODULE MCProfileIdentity -------------------------
(* ProfileIdentity on small instances.                                      *)
EXTENDS ProfileIdentity, TLC

Symmetry == Permutations(Servers)
=============================================================================
