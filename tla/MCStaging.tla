------------------------------- MODULE MCStaging -------------------------------
(***************************************************************************)
(* A small instance of Staging for TLC: two volumes on two devices, which  *)
(* discovery numbers in either order, or of which it finds one only; a     *)
(* container that mounts both volumes, and one that mounts one of them.    *)
(***************************************************************************)
EXTENDS Staging, TLC

CONSTANTS v1, v2, d1, d2, id1, id2, c1

MCFound == {id1 :> d1 @@ id2 :> d2, id1 :> d2}

MCContextID == v1 :> id1 @@ v2 :> id2

MCMounts == c1 :> <<v1, v2>>

MCSymmetry == Permutations(Handler)
=============================================================================
