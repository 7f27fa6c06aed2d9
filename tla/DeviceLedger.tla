----------------------------- MODULE DeviceLedger -----------------------------
(***************************************************************************)
(* What the controller promises about the devices it hands out, without    *)
(* its locks, its calls to nodes and its indexes: a volume is charged to a *)
(* device in one step, and only if the device matches the request at that  *)
(* moment.                                                                 *)
(***************************************************************************)
EXTENDS DeviceMatch

CONSTANTS
    Address,  \* where DeviceInfos are allocated
    Params    \* the parameters of the requests made

ASSUME LedgerAssumption ==
    /\ Params \subseteq ParamMap
    /\ Absent \notin Address

VARIABLES
    devices,  \* the DeviceInfo at every address
    deviceOf  \* the address of the device of a volume, or Absent

ledgerVars == <<devices, deviceOf>>

Init ==
    /\ devices = [a \in Address |-> NoDevice]
    /\ deviceOf = [v \in Volume |-> Absent]

\* A volume created again is charged again, to the same or another device.
Charge(v, a, params) ==
    /\ Match(devices[a].Parameters, devices[a].Volumes, params) = "OK"
    /\ devices' = [devices EXCEPT ![a].Volumes[v] = params]
    /\ deviceOf' = [deviceOf EXCEPT ![v] = a]

\* A volume is forgotten, and the charge of one device for it is taken back.
Release(v, a) ==
    /\ devices' = [devices EXCEPT ![a].Volumes[v] = Absent]
    /\ deviceOf' = [deviceOf EXCEPT ![v] = Absent]

\* Devices that are reported are new, even if they were reported before.
Discover(fresh) ==
    /\ \A a \in fresh : devices[a] = NoDevice
    /\ \E reported \in [fresh -> DeviceParams] :
           devices' = [a \in Address |->
               IF a \in fresh
               THEN [Parameters |-> reported[a], Volumes |-> NoVolumes]
               ELSE devices[a]]
    /\ UNCHANGED deviceOf

Reset ==
    /\ devices' = [a \in Address |-> NoDevice]
    /\ deviceOf' = [v \in Volume |-> Absent]

Next ==
    \/ \E v \in Volume, a \in Address :
           \/ \E params \in Params : Charge(v, a, params)
           \/ Release(v, a)
    \/ \E fresh \in SUBSET Address : Discover(fresh)
    \/ Reset

Spec == Init /\ [][Next]_ledgerVars

-----------------------------------------------------------------------------
\* Every variable has its type.
LedgerTypeOK ==
    /\ devices \in [Address -> DeviceInfo]
    /\ deviceOf \in [Volume -> Address \cup {Absent}]

(***************************************************************************)
(* No GPU is charged with more memory or millicores than it has, whatever  *)
(* amounts (negative, zero, unrepresentable) the requests ask for.         *)
(***************************************************************************)
LedgerCapacity ==
    \A a \in Address : WithinCapacity(devices[a].Parameters, devices[a].Volumes)

(***************************************************************************)
(* Match answers ResourceExhausted only for a device in use: there is a    *)
(* volume on it that asked for a positive amount.                          *)
(***************************************************************************)
ExhaustedMeansInUse ==
    \A a \in Address, params \in Params :
        Match(devices[a].Parameters, devices[a].Volumes, params) = "ResourceExhausted"
        => \E p \in {"memory", "millicores"} : Counted(devices[a].Volumes, p) # {}

(***************************************************************************)
(* Taking a volume away never makes a device that matched stop matching.   *)
(***************************************************************************)
ReleaseNeverHurts ==
    \A a \in Address, params \in Params, v \in Volume :
        Match(devices[a].Parameters, devices[a].Volumes, params) = "OK"
        => Match(devices[a].Parameters, [devices[a].Volumes EXCEPT ![v] = Absent],
                 params) = "OK"
=============================================================================
