--------------------------- MODULE MCCacheRelease ---------------------------
(* CacheRelease with two manifests of one runtime and one of another.        *)
EXTENDS CacheRelease, TLC

CONSTANTS a, b, c

ThreeManifests == {a, b, c}

TwoRuntimes == [m \in {a, b, c} |-> IF m = c THEN "newer" ELSE "shipped"]

\* Publishers differ in nothing, nor do manifests of one runtime.
Symmetry == Permutations(Publishers) \cup Permutations({a, b})
=============================================================================
