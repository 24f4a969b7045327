---------------------------- MODULE MCNamespace ------------------------------
(***************************************************************************)
(* Namespace and its sealed image on small tables.  Names are only ever    *)
(* compared, so the ordinary ones are symmetric.                           *)
(***************************************************************************)
EXTENDS SealedNames, TLC

CONSTANTS a, b

Symmetry == Permutations({a, b})
==============================================================================
