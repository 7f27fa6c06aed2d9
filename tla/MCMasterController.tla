-------------------------- MODULE MCMasterController --------------------------
(***************************************************************************)
(* Small instances of MasterController for TLC.                            *)
(***************************************************************************)
EXTENDS MasterController, TLC

CONSTANTS Region, Afu, n1, n2

MCText == {Gpu, Fpga, Intel, Region, Afu}

MCRegions == {<<Region, Afu>>}

NoParams == [p \in ParamName |-> Absent]

GpuRequest(memory, millicores) ==
    [NoParams EXCEPT !["deviceType"] = Gpu, !["vendor"] = Intel,
                     !["memory"] = memory, !["millicores"] = millicores]

FpgaRequest ==
    [NoParams EXCEPT !["deviceType"] = Fpga, !["vendor"] = Intel,
                     !["interfaceID"] = Region, !["afuID"] = Afu]

To(params, preferred) == [params |-> params, preferred |-> preferred]

\* GPU devices have 2 units of memory: small requests share one, large do not.
Small == GpuRequest(1, 1)
Large == GpuRequest(2, 1)

MCRequestCluster == {To(Small, <<>>), To(Large, <<n2, n1>>), To(FpgaRequest, <<n1>>)}

MCSymmetry == Permutations(Volume) \cup Permutations(Caller)
=============================================================================
