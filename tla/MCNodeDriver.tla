----------------------------- MODULE MCNodeDriver -----------------------------
(***************************************************************************)
(* A small instance of NodeDriver for TLC.                                 *)
(***************************************************************************)
EXTENDS NodeDriver

\* Enough for a loss that is noticed and two more while it is dealt with.
MCMaxFaults == 3
=============================================================================
