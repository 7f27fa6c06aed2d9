-------------------------------- MODULE MCCDI --------------------------------
(***************************************************************************)
(* Small instances of CDI for TLC: one node with a GPU and an FPGA port,   *)
(* whose discovery may number the two in either order.                     *)
(***************************************************************************)
EXTENDS CDI, TLC

CONSTANTS Region, Afu, n1

MCText == {Gpu, Fpga, Intel, Region, Afu}

MCRegions == {<<Region, Afu>>}

MCHardware == n1 :> [gpus |-> 1, regions |-> <<<<Region, Afu>>>>]

\* A request for the whole GPU, as discovery reports it.
MCRequestGpu == {[params |-> GpuDevice, preferred |-> <<>>]}

\* Requests for the device of either type: a volume may move from one to the other.
MCRequestEither ==
    {[params |-> device, preferred |-> <<>>] : device \in DeviceParams}

\* Bound: once a call was given up, no node is told to end, nor ends.
MCUndisturbed == givenUp => stopping = {} /\ ended = {}

MCSymmetry == Permutations(Volume) \cup Permutations(Caller) \cup Permutations(Handler)
=============================================================================
