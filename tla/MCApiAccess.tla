----------------------------- MODULE MCApiAccess -----------------------------
(***************************************************************************)
(* Values of ApiAccess's constants for TLC: two of the three keys share    *)
(* their prefix.                                                           *)
(***************************************************************************)
EXTENDS ApiAccess, TLC

CONSTANTS k1, k2, k3

MCKeys == {k1, k2, k3}
MCKeyPrefix == (k1 :> 1) @@ (k2 :> 1) @@ (k3 :> 2)
MCSymmetry == Permutations(Clients) \cup Permutations({k1, k2})
=============================================================================
