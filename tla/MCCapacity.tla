------------------------------ MODULE MCCapacity ------------------------------
(***************************************************************************)
(* A small instance of Capacity: two nodes that share a lock come and go   *)
(* while one query runs.                                                   *)
(***************************************************************************)
EXTENDS Capacity, TLC

CONSTANTS b1, n1, n2

MCBucketOf == (n1 :> b1) @@ (n2 :> b1)
=============================================================================
