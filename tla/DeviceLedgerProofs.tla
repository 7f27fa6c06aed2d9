-------------------------- MODULE DeviceLedgerProofs --------------------------
(***************************************************************************)
(* Proofs about DeviceLedger: its capacity invariant, for any number of    *)
(* devices and volumes and any amounts, and what the answers of Match mean.*)
(***************************************************************************)
EXTENDS DeviceLedger, DeviceMatchProofs

-----------------------------------------------------------------------------
(***************************************************************************)
(* The variables keep their types.                                         *)
(***************************************************************************)
THEOREM LedgerTyping == Spec => []LedgerTypeOK
<1>1. Init => LedgerTypeOK
  BY NoDeviceType DEF Init, LedgerTypeOK
<1>2. LedgerTypeOK /\ [Next]_ledgerVars => LedgerTypeOK'
  <2> SUFFICES ASSUME LedgerTypeOK, [Next]_ledgerVars
               PROVE  LedgerTypeOK'
    OBVIOUS
  <2> USE DEF LedgerTypeOK
  <2>1. ASSUME NEW v \in Volume, NEW a \in Address, NEW params \in Params,
               Charge(v, a, params)
        PROVE  LedgerTypeOK'
    <3>1. devices' \in [Address -> DeviceInfo]
      <4>1. params \in ParamMap \cup {Absent}
        BY LedgerAssumption
      <4>2. [devices EXCEPT ![a].Volumes[v] = params] \in [Address -> DeviceInfo]
        BY <4>1, VolumesUpdate
      <4> QED
        BY <2>1, <4>2 DEF Charge
    <3>2. deviceOf' \in [Volume -> Address \cup {Absent}]
      BY <2>1 DEF Charge
    <3> QED
      BY <3>1, <3>2
  <2>2. ASSUME NEW v \in Volume, NEW a \in Address, Release(v, a)
        PROVE  LedgerTypeOK'
    <3>1. devices' \in [Address -> DeviceInfo]
      <4>1. Absent \in ParamMap \cup {Absent}
        OBVIOUS
      <4>2. [devices EXCEPT ![a].Volumes[v] = Absent] \in [Address -> DeviceInfo]
        BY <4>1, VolumesUpdate
      <4> QED
        BY <2>2, <4>2 DEF Release
    <3>2. deviceOf' \in [Volume -> Address \cup {Absent}]
      BY <2>2 DEF Release
    <3> QED
      BY <3>1, <3>2
  <2>3. ASSUME NEW fresh \in SUBSET Address, Discover(fresh)
        PROVE  LedgerTypeOK'
    BY <2>3, EmptyWithinCapacity DEF Discover, DeviceInfo
  <2>4. CASE Reset
    BY <2>4, NoDeviceType DEF Reset
  <2>5. CASE UNCHANGED ledgerVars
    BY <2>5 DEF ledgerVars
  <2> QED
    BY <2>1, <2>2, <2>3, <2>4, <2>5 DEF Next
<1> QED
  BY <1>1, <1>2, PTL DEF Spec

-----------------------------------------------------------------------------
(***************************************************************************)
(* Initially no device exceeds its capacity.                               *)
(***************************************************************************)
LEMMA LedgerCapacityInit == Init => LedgerCapacity
  BY NoDeviceCapacity DEF Init, LedgerCapacity

(***************************************************************************)
(* A charge is the only step that can raise a total, and its guard is      *)
(* enough.                                                                 *)
(***************************************************************************)
LEMMA LedgerCapacityStep ==
    LedgerTypeOK /\ LedgerCapacity /\ [Next]_ledgerVars => LedgerCapacity'
<1> SUFFICES ASSUME LedgerTypeOK, LedgerCapacity, [Next]_ledgerVars
             PROVE  LedgerCapacity'
  OBVIOUS
<1> USE DEF LedgerTypeOK
<1>1. ASSUME NEW v \in Volume, NEW a \in Address, NEW params \in Params,
             Charge(v, a, params)
      PROVE  LedgerCapacity'
  <2>1. params \in ParamMap
    BY LedgerAssumption
  <2>2. devices[a].Parameters \in DeviceParams \cup {NoDevice.Parameters}
        /\ devices[a].Volumes \in VolumeMap
    BY DEF DeviceInfo
  <2>3. WithinCapacity(devices[a].Parameters, [devices[a].Volumes EXCEPT ![v] = params])
    BY <1>1, <2>1, <2>2, ChargeKeepsCapacity DEF Charge, LedgerCapacity
  <2> QED
    BY <1>1, <2>1, <2>3, VolumesUpdate DEF Charge, LedgerCapacity
<1>2. ASSUME NEW v \in Volume, NEW a \in Address, Release(v, a)
      PROVE  LedgerCapacity'
  <2>1. devices[a].Parameters \in DeviceParams \cup {NoDevice.Parameters}
        /\ devices[a].Volumes \in VolumeMap
    BY DEF DeviceInfo
  <2>2. WithinCapacity(devices[a].Parameters, [devices[a].Volumes EXCEPT ![v] = Absent])
    BY <2>1, ReleaseKeepsCapacity DEF LedgerCapacity
  <2> QED
    BY <1>2, <2>2, VolumesUpdate DEF Release, LedgerCapacity
<1>3. ASSUME NEW fresh \in SUBSET Address, Discover(fresh)
      PROVE  LedgerCapacity'
  BY <1>3, EmptyWithinCapacity DEF Discover, LedgerCapacity
<1>4. CASE Reset
  BY <1>4, NoDeviceCapacity DEF Reset, LedgerCapacity
<1>5. CASE UNCHANGED ledgerVars
  BY <1>5 DEF ledgerVars, LedgerCapacity
<1> QED
  BY <1>1, <1>2, <1>3, <1>4, <1>5 DEF Next

(***************************************************************************)
(* No device is ever charged with more than it has.                        *)
(***************************************************************************)
THEOREM LedgerCapacityHolds == Spec => []LedgerCapacity
  BY LedgerCapacityInit, LedgerCapacityStep, LedgerTyping, PTL DEF Spec

-----------------------------------------------------------------------------
(***************************************************************************)
(* ResourceExhausted is answered for a device in use only.                 *)
(***************************************************************************)
THEOREM ExhaustedMeansInUseHolds == Spec => []ExhaustedMeansInUse
<1>1. LedgerTypeOK => ExhaustedMeansInUse
  <2> SUFFICES ASSUME LedgerTypeOK, NEW a \in Address, NEW params \in Params,
                      Match(devices[a].Parameters, devices[a].Volumes, params)
                          = "ResourceExhausted"
               PROVE  \E p \in {"memory", "millicores"} :
                          Counted(devices[a].Volumes, p) # {}
    BY DEF ExhaustedMeansInUse
  <2>1. /\ devices[a].Parameters \in DeviceParams \cup {NoDevice.Parameters}
        /\ devices[a].Volumes \in VolumeMap /\ params \in ParamMap
    BY LedgerAssumption DEF LedgerTypeOK, DeviceInfo
  <2> QED
    BY <2>1, ExhaustedMeansCounted
<1> QED
  BY <1>1, LedgerTyping, PTL

(***************************************************************************)
(* Taking a volume away never makes a match fail.                          *)
(***************************************************************************)
THEOREM ReleaseNeverHurtsHolds == Spec => []ReleaseNeverHurts
<1>1. LedgerTypeOK => ReleaseNeverHurts
  <2> SUFFICES ASSUME LedgerTypeOK, NEW a \in Address, NEW params \in Params,
                      NEW v \in Volume,
                      Match(devices[a].Parameters, devices[a].Volumes, params) = "OK"
               PROVE  Match(devices[a].Parameters,
                            [devices[a].Volumes EXCEPT ![v] = Absent], params) = "OK"
    BY DEF ReleaseNeverHurts
  <2> DEFINE device  == devices[a].Parameters
             volumes == devices[a].Volumes
             after   == [volumes EXCEPT ![v] = Absent]
  <2>1. device \in DeviceParams \cup {NoDevice.Parameters}
        /\ volumes \in VolumeMap /\ params \in ParamMap
    BY LedgerAssumption DEF LedgerTypeOK, DeviceInfo
  <2>2. after \in VolumeMap
    BY <2>1, VolumeMapUpdate
  <2>3. \A p \in ParamName : totalUsedParam(after, p) <= totalUsedParam(volumes, p)
    BY <2>1, ReleaseLowersTotal
  <2>4. Match(device, volumes, params) = "OK"
    OBVIOUS
  <2> HIDE DEF device, volumes, after
  <2>5. device["deviceType"] = Gpu =>
            \A p \in {"memory", "millicores"} :
                checkParamFits(device, volumes, params, p) = "OK"
                => checkParamFits(device, after, params, p) = "OK"
    <3> SUFFICES ASSUME device["deviceType"] = Gpu,
                        NEW p \in {"memory", "millicores"},
                        checkParamFits(device, volumes, params, p) = "OK"
                 PROVE  checkParamFits(device, after, params, p) = "OK"
      OBVIOUS
    <3>1. p \in ParamName
      BY DEF ParamName
    <3>2. /\ ParsesAsQuantity(params[p]) /\ ParsesAsQuantity(device[p])
          /\ AsInt64(params[p]) <= AsInt64(device[p]) - totalUsedParam(volumes, p)
      BY DEF checkParamFits
    <3>3. AsInt64(params[p]) \in Int /\ AsInt64(device[p]) \in Nat
          /\ totalUsedParam(volumes, p) \in Nat /\ totalUsedParam(after, p) \in Nat
      BY <2>1, <2>2, <3>1, <3>2, AmountIsInt, GpuHasResources, TotalIsNat DEF ParamMap
    <3>4. AsInt64(params[p]) <= AsInt64(device[p]) - totalUsedParam(after, p)
      BY <2>3, <3>1, <3>2, <3>3
    <3> QED
      BY <3>2, <3>3, <3>4 DEF checkParamFits
  <2>6. CASE device["deviceType"] = Gpu
    <3>1. gpuCheckParams(device, volumes, params) = "OK"
      BY <2>1, <2>4, <2>6, GpuMatchMeansFits
    <3>2. gpuCheckParams(device, after, params) = "OK"
      BY <2>5, <2>6, <3>1 DEF gpuCheckParams
    <3> QED
      BY <2>4, <2>6, <3>2, ValueAssumption
         DEF Match, checkBoth, checkParam, device, volumes, after
  <2>7. CASE device["deviceType"] # Gpu
    BY <2>4, <2>7 DEF Match, checkBoth, checkParam, device, volumes, after
  <2> QED
    BY <2>6, <2>7
<1> QED
  BY <1>1, LedgerTyping, PTL

===============================================================================
