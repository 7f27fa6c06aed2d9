--------------------------- MODULE MCVolumeListing ---------------------------
(***************************************************************************)
(* A node that reports again and again, or comes back after it was         *)
(* unregistered: one volume fills its GPU, so that a second one is         *)
(* remembered only on the device of a later report.  Or, in                *)
(* MCQuietListingShowsAll.cfg, a node with two GPUs and a volume on each.  *)
(***************************************************************************)
EXTENDS VolumeListing, TLC

CONSTANT n1

MCText == {Gpu, Fpga, Intel}

\* A request for the whole GPU, as discovery reports it.
MCRequest == {[params |-> GpuDevice, preferred |-> <<>>]}
=============================================================================
