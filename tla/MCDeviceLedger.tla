---------------------------- MODULE MCDeviceLedger ----------------------------
(***************************************************************************)
(* An instance of DeviceLedger with requests of every kind: amounts that   *)
(* fit, do not fit, are negative, are no quantity, or are a quantity that  *)
(* does not fit an int64.                                                  *)
(***************************************************************************)
EXTENDS DeviceLedger, TLC

CONSTANTS Region, Afu

MCText == {Gpu, Fpga, Intel, Region, Afu}

MCRegions == {<<Region, Afu>>}

NoParams == [p \in ParamName |-> Absent]

GpuRequest(memory, millicores) ==
    [NoParams EXCEPT !["deviceType"] = Gpu, !["vendor"] = Intel,
                     !["memory"] = memory, !["millicores"] = millicores]

FpgaRequest ==
    [NoParams EXCEPT !["deviceType"] = Fpga, !["vendor"] = Intel,
                     !["interfaceID"] = Region, !["afuID"] = Afu]

MCParams ==
    {GpuRequest(m, 1) : m \in {-1, 1, 2, 4, Unrepresentable, Afu}}
      \cup {GpuRequest(m, 2) : m \in {1, 3}}
      \cup {FpgaRequest, NoParams}

MCSymmetry == Permutations(Volume) \cup Permutations(Address)
===============================================================================
