--------------------------- MODULE MCRegistryServer ---------------------------
(***************************************************************************)
(* Small instances of RegistryServer for TLC.                              *)
(***************************************************************************)
EXTENDS RegistryServer, TLC

CONSTANTS b1, n1, n2

\* Both nodes hash to the same lock.
MCBucketOf == (n1 :> b1) @@ (n2 :> b1)
=============================================================================
