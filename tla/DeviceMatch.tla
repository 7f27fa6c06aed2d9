----------------------------- MODULE DeviceMatch -----------------------------
(***************************************************************************)
(* How the driver decides whether a device satisfies a request:            *)
(* DeviceInfo.Match of pkg/device-manager/dmanager.go and the checkParams  *)
(* of the two device type managers it dispatches to.                       *)
(*                                                                         *)
(* A Go map[string]string of parameters is a function on ParamName whose   *)
(* value is Absent where the map has no such key.  A string is either a    *)
(* Text, that resource.ParseQuantity rejects, or a quantity: an integer,   *)
(* or Unrepresentable, a quantity that parses but that AsInt64 cannot      *)
(* represent.  The volumes of a device are a function on Volume giving the *)
(* VolumeContext, Absent for a volume the device does not hold.            *)
(***************************************************************************)
EXTENDS Integers, FiniteSetsExt

CONSTANTS
    Volume,           \* volume names
    Text,             \* parameter values that are not quantities
    Gpu, Fpga,        \* the texts "gpu" and "fpga", the two device types
    Intel,            \* the text "0x8086", the vendor discovery looks for
    Regions,          \* pairs <<interfaceID, afuID>> an FPGA port can report
    GpuMemory,        \* gpuDefaultMemory
    GpuMillicores,    \* gpuDefaultMillicores
    Unrepresentable,  \* a quantity too large, or too fine, for an int64
    Absent            \* no such key

ASSUME VolumeAssumption == IsFiniteSet(Volume) /\ Absent \notin Volume

ASSUME ValueAssumption ==
    /\ Gpu \in Text /\ Fpga \in Text /\ Intel \in Text /\ Gpu # Fpga
    /\ Regions \subseteq Text \X Text
    /\ \A t \in Text : t \notin Int /\ t # Unrepresentable
    /\ Unrepresentable \notin Int
    /\ Absent \notin Int /\ Absent \notin Text /\ Absent # Unrepresentable

ASSUME GpuAssumption == GpuMemory \in Nat /\ GpuMillicores \in Nat

ParamName ==
    {"deviceType", "vendor", "memory", "millicores", "interfaceID", "afuID"}

Value == Text \cup Int \cup {Unrepresentable}

ParamMap == [ParamName -> Value \cup {Absent}]

ASSUME ParamMapAssumption == Absent \notin ParamMap

VolumeMap == [Volume -> ParamMap \cup {Absent}]

NoVolumes == [v \in Volume |-> Absent]

Code == {"OK", "NotFound", "ResourceExhausted", "InvalidArgument",
         "OutOfRange", "Internal"}

-----------------------------------------------------------------------------
(***************************************************************************)
(* What discoverDevices reports: every GPU with the same default memory    *)
(* and millicores, every FPGA port with its region and accelerator.        *)
(***************************************************************************)
GpuDevice ==
    [p \in ParamName |->
        CASE p = "vendor"     -> Intel
          [] p = "deviceType" -> Gpu
          [] p = "memory"     -> GpuMemory
          [] p = "millicores" -> GpuMillicores
          [] OTHER            -> Absent]

FpgaDevice(region) ==
    [p \in ParamName |->
        CASE p = "vendor"      -> Intel
          [] p = "deviceType"  -> Fpga
          [] p = "interfaceID" -> region[1]
          [] p = "afuID"       -> region[2]
          [] OTHER             -> Absent]

DeviceParams == {GpuDevice} \cup {FpgaDevice(r) : r \in Regions}

\* The memory at an address where no DeviceInfo was ever allocated.
NoDevice == [Parameters |-> [p \in ParamName |-> Absent], Volumes |-> NoVolumes]

DeviceInfo ==
    [Parameters : DeviceParams \cup {NoDevice.Parameters}, Volumes : VolumeMap]

-----------------------------------------------------------------------------
(***************************************************************************)
(* resource.ParseQuantity and Quantity.AsInt64: the second result of       *)
(* AsInt64 is dropped everywhere, so that a quantity it cannot represent   *)
(* counts as zero.                                                         *)
(***************************************************************************)
ParsesAsQuantity(value) == value \notin Text \cup {Absent}

AsInt64(value) == IF value = Unrepresentable THEN 0 ELSE value

(***************************************************************************)
(* totalUsedParam adds up the amounts of the volumes of a device, those    *)
(* that parse and are positive.                                            *)
(***************************************************************************)
Counted(volumes, p) ==
    {v \in Volume : /\ volumes[v] # Absent
                    /\ ParsesAsQuantity(volumes[v][p])
                    /\ AsInt64(volumes[v][p]) > 0}

\* Mutant: negative amounts are added, and so make room.
totalUsedSigned(volumes, p) ==
    MapThenSumSet(LAMBDA v : AsInt64(volumes[v][p]),
                  {v \in Volume : /\ volumes[v] # Absent
                                  /\ ParsesAsQuantity(volumes[v][p])})

totalUsedParam(volumes, p) ==
    MapThenSumSet(LAMBDA v : AsInt64(volumes[v][p]), Counted(volumes, p))

\* Mutant: what the volumes use is forgotten.
checkParamFitsUnused(device, volumes, params, p) ==
    IF ~ParsesAsQuantity(params[p]) \/ ~ParsesAsQuantity(device[p])
    THEN "InvalidArgument"
    ELSE IF AsInt64(params[p]) <= AsInt64(device[p]) THEN "OK" ELSE "NotFound"

\* Mutant: an amount larger than the device also waits for room.
checkParamFitsLater(device, volumes, params, p) ==
    IF ~ParsesAsQuantity(params[p]) \/ ~ParsesAsQuantity(device[p])
    THEN "InvalidArgument"
    ELSE IF AsInt64(params[p]) <= AsInt64(device[p]) - totalUsedParam(volumes, p)
         THEN "OK"
         ELSE "ResourceExhausted"

(***************************************************************************)
(* checkParamFits: OK if the amount fits what is free, ResourceExhausted   *)
(* if it would fit an unused device, NotFound if it never does.            *)
(***************************************************************************)
checkParamFits(device, volumes, params, p) ==
    IF ~ParsesAsQuantity(params[p]) \/ ~ParsesAsQuantity(device[p])
    THEN "InvalidArgument"
    ELSE LET amount   == AsInt64(params[p])
             capacity == AsInt64(device[p])
         IN  CASE amount <= capacity - totalUsedParam(volumes, p) -> "OK"
               [] /\ amount > capacity - totalUsedParam(volumes, p)
                  /\ amount <= capacity                          -> "ResourceExhausted"
               [] OTHER                                          -> "NotFound"

checkParam(device, params, p) ==
    CASE params[p] = Absent \/ device[p] = Absent -> "InvalidArgument"
      [] /\ params[p] # Absent /\ device[p] # Absent
         /\ params[p] # device[p]                 -> "OutOfRange"
      [] OTHER                                    -> "OK"

\* checkParams over a list of two required names: the first code that is not OK.
checkBoth(device, params, p, q) ==
    IF checkParam(device, params, p) # "OK"
    THEN checkParam(device, params, p)
    ELSE checkParam(device, params, q)

gpuCheckParams(device, volumes, params) ==
    LET memory     == checkParamFits(device, volumes, params, "memory")
        millicores == checkParamFits(device, volumes, params, "millicores")
    IN  CASE memory = "OK" /\ millicores = "OK"     -> "OK"
          [] "ResourceExhausted" \in {memory, millicores} -> "ResourceExhausted"
          [] OTHER                                  -> "NotFound"

fpgaCheckParams(device, params) ==
    checkBoth(device, params, "afuID", "interfaceID")

(***************************************************************************)
(* DeviceInfo.Match: the common parameters, then those of the type.        *)
(***************************************************************************)
Match(device, volumes, params) ==
    LET common == checkBoth(device, params, "deviceType", "vendor")
    IN  CASE common # "OK" -> common
          [] common = "OK" /\ params["deviceType"] = Gpu ->
                 gpuCheckParams(device, volumes, params)
          [] common = "OK" /\ params["deviceType"] = Fpga ->
                 fpgaCheckParams(device, params)
          [] OTHER -> "InvalidArgument"

(***************************************************************************)
(* What Match is for: the volumes of a GPU never use more of a resource    *)
(* than it has.                                                            *)
(***************************************************************************)
WithinCapacity(device, volumes) ==
    device["deviceType"] = Gpu =>
        \A p \in {"memory", "millicores"} :
            totalUsedParam(volumes, p) <= AsInt64(device[p])
=============================================================================
