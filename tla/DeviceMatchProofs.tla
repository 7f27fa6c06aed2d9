--------------------------- MODULE DeviceMatchProofs ---------------------------
(***************************************************************************)
(* What charging a volume to a device, and taking it away, does to the     *)
(* totals that Match compares with the device.                             *)
(***************************************************************************)
EXTENDS DeviceMatch, FiniteSetTheorems, TLAPS

-----------------------------------------------------------------------------
\* Amounts and devices.

\* The amount of a value that is a quantity is an integer.
LEMMA AmountIsInt ==
    ASSUME NEW value \in Value \cup {Absent}, ParsesAsQuantity(value)
    PROVE  AsInt64(value) \in Int
  BY DEF Value, ParsesAsQuantity, AsInt64

\* A GPU has natural amounts of both resources.
LEMMA GpuHasResources ==
    ASSUME NEW device \in DeviceParams \cup {NoDevice.Parameters},
           device["deviceType"] = Gpu,
           NEW p \in {"memory", "millicores"}
    PROVE  AsInt64(device[p]) \in Nat /\ ParsesAsQuantity(device[p])
<1>1. device = GpuDevice
  <2>1. NoDevice.Parameters["deviceType"] = Absent
    BY DEF NoDevice, ParamName
  <2>2. \A r \in Regions : FpgaDevice(r)["deviceType"] = Fpga
    BY DEF FpgaDevice, ParamName
  <2>3. Gpu # Fpga /\ Gpu # Absent
    BY ValueAssumption
  <2> QED
    BY <2>1, <2>2, <2>3 DEF DeviceParams
<1>2. device[p] \in Nat
  BY <1>1, GpuAssumption DEF GpuDevice, ParamName
<1>3. device[p] \notin Text \cup {Absent} /\ device[p] # Unrepresentable
  BY <1>2, ValueAssumption
<1> QED
  BY <1>2, <1>3 DEF AsInt64, ParsesAsQuantity

-----------------------------------------------------------------------------
\* The units a volume map charges: volume v holds <<v, 1>> .. <<v, amount>>.
\* They turn sums into cardinalities of sets, which the library speaks about.

UnitsOver(volumes, s, p) ==
    UNION {{v} \X (1 .. AsInt64(volumes[v][p])) : v \in s}

Units(volumes, p) == UnitsOver(volumes, Counted(volumes, p), p)

\* A volume that counts has an integer amount.
LEMMA CountedAmount ==
    ASSUME NEW volumes \in VolumeMap, NEW p \in ParamName,
           NEW v \in Counted(volumes, p)
    PROVE  AsInt64(volumes[v][p]) \in Int
<1>1. volumes[v] \in ParamMap /\ ParsesAsQuantity(volumes[v][p])
  BY DEF Counted, VolumeMap
<1>2. volumes[v][p] \in Value \cup {Absent}
  BY <1>1 DEF ParamMap
<1> QED
  BY <1>1, <1>2, AmountIsInt

\* n units of one volume are n in number, none if n is negative.
LEMMA BlockCardinality ==
    ASSUME NEW v, NEW n \in Int
    PROVE  /\ IsFiniteSet({v} \X (1 .. n))
           /\ Cardinality({v} \X (1 .. n)) = IF n > 0 THEN n ELSE 0
<1>1. IsFiniteSet({v}) /\ Cardinality({v}) = 1
  BY FS_Singleton
<1>2. IsFiniteSet(1 .. n) /\ Cardinality(1 .. n) = IF 1 > n THEN 0 ELSE n - 1 + 1
  BY FS_Interval
<1>3. IsFiniteSet({v} \X (1 .. n))
      /\ Cardinality({v} \X (1 .. n)) = Cardinality({v}) * Cardinality(1 .. n)
  BY <1>1, <1>2, FS_Product
<1> QED
  BY <1>1, <1>2, <1>3

\* The units that some of the volumes hold are finitely many.
LEMMA UnitsFinite ==
    ASSUME NEW volumes \in VolumeMap, NEW p \in ParamName,
           NEW S \in SUBSET Counted(volumes, p)
    PROVE  IsFiniteSet(UnitsOver(volumes, S, p))
<1> DEFINE T == {{v} \X (1 .. AsInt64(volumes[v][p])) : v \in S}
           f == [v \in S |-> {v} \X (1 .. AsInt64(volumes[v][p]))]
<1>1. IsFiniteSet(S)
  BY VolumeAssumption, FS_Subset DEF Counted
<1>2. f \in Surjection(S, T)
  BY DEF Surjection
<1>3. IsFiniteSet(T)
  BY <1>1, <1>2, FS_Surjection
<1>4. \A B \in T : IsFiniteSet(B)
  BY CountedAmount, BlockCardinality
<1>5. IsFiniteSet(UNION T)
  <2> HIDE DEF T
  <2> QED
    BY <1>3, <1>4, FS_UNION
<1> QED
  BY <1>5 DEF UnitsOver

-----------------------------------------------------------------------------
(***************************************************************************)
(* totalUsedParam walks over the volumes of a device and adds up.  The     *)
(* induction is over the sets of volumes: their strict inclusion is well   *)
(* founded, so that a set on which two sums differ can be taken minimal.   *)
(***************************************************************************)

\* The volume that the sum over a set takes first.
First(s) == CHOOSE v \in s : TRUE

\* The equation that defines the sum of weights over the subsets of S.
IsSumOf(sum, weight, S) ==
    sum = [s \in SUBSET S |->
              IF s = {} THEN 0 ELSE weight[First(s)] + sum[s \ {First(s)}]]

(***************************************************************************)
(* One equation has one solution: two that differ would differ on a        *)
(* smallest set, from which both take the same volume.                     *)
(***************************************************************************)
LEMMA SumIsUnique ==
    ASSUME NEW S, IsFiniteSet(S), NEW weight, NEW sum, NEW total,
           IsSumOf(sum, weight, S), IsSumOf(total, weight, S)
    PROVE  sum = total
<1> DEFINE differ == {s \in SUBSET S : sum[s] # total[s]}
<1>1. ASSUME differ # {} PROVE FALSE
  <2>1. IsWellFoundedOn(StrictSubsetOrdering(S), SUBSET S)
    BY FS_StrictSubsetOrderingWellFounded, FS_FiniteSubsetsOfFinite
  <2>2. PICK s \in differ : \A r \in differ : <<r, s>> \notin StrictSubsetOrdering(S)
    BY <1>1, <2>1, WFMin
  <2>3. /\ sum[s] = IF s = {} THEN 0 ELSE weight[First(s)] + sum[s \ {First(s)}]
        /\ total[s] = IF s = {} THEN 0
                      ELSE weight[First(s)] + total[s \ {First(s)}]
    BY DEF IsSumOf
  <2>4. s # {}
    BY <2>3
  <2>5. First(s) \in s
    BY <2>4 DEF First
  <2>6. <<s \ {First(s)}, s>> \in StrictSubsetOrdering(S)
    BY <2>5 DEF StrictSubsetOrdering
  <2>7. s \ {First(s)} \notin differ
    BY <2>2, <2>6
  <2>8. sum[s \ {First(s)}] = total[s \ {First(s)}]
    BY <2>7
  <2> QED
    BY <2>3, <2>4, <2>8
<1>2. \A s \in SUBSET S : sum[s] = total[s]
  BY <1>1
<1>3. /\ sum = [s \in SUBSET S |-> sum[s]]
      /\ total = [s \in SUBSET S |-> total[s]]
  BY DEF IsSumOf
<1> QED
  BY <1>2, <1>3

\* What adds up the amounts over every subset is what the fold computes.
LEMMA FoldIsSum ==
    ASSUME NEW volumes, NEW p, IsFiniteSet(Counted(volumes, p)), NEW total,
           IsSumOf(total, [v \in Counted(volumes, p) |-> AsInt64(volumes[v][p])],
                   Counted(volumes, p))
    PROVE  totalUsedParam(volumes, p) = total[Counted(volumes, p)]
<1> DEFINE S == Counted(volumes, p)
           weight == [v \in S |-> AsInt64(volumes[v][p])]
           rest(sum) == [s \in SUBSET S |->
               IF s = {} THEN 0
               ELSE AsInt64(volumes[First(s)][p]) + sum[s \ {First(s)}]]
           fold == CHOOSE sum : sum = rest(sum)
<1>1. totalUsedParam(volumes, p) = fold[S]
  BY DEF totalUsedParam, MapThenSumSet, MapThenFoldSet, First
<1> HIDE DEF S
<1>2. ASSUME NEW sum
      PROVE  IsSumOf(sum, weight, S) <=> sum = rest(sum)
  <2>1. \A s \in SUBSET S :
            s # {} => weight[First(s)] = AsInt64(volumes[First(s)][p])
    BY DEF First
  <2> HIDE DEF weight
  <2>2. [s \in SUBSET S |->
            IF s = {} THEN 0 ELSE weight[First(s)] + sum[s \ {First(s)}]]
          = rest(sum)
    BY <2>1
  <2> QED
    BY <2>2 DEF IsSumOf
<1>3. fold = rest(fold)
  <2>1. total = rest(total)
    BY <1>2 DEF S
  <2> HIDE DEF rest
  <2> QED
    BY <2>1
<1>4. IsSumOf(fold, weight, S)
  BY <1>2, <1>3
<1> HIDE DEF fold, weight
<1>5. fold = total
  BY <1>4, SumIsUnique DEF weight, S
<1> QED
  BY <1>1, <1>5 DEF S

\* The units of a set of volumes are one block more than without one of them.
LEMMA OneMoreBlock ==
    ASSUME NEW volumes \in VolumeMap, NEW p \in ParamName,
           NEW s \in SUBSET Counted(volumes, p), NEW v \in s
    PROVE  Cardinality(UnitsOver(volumes, s, p))
               = AsInt64(volumes[v][p]) + Cardinality(UnitsOver(volumes, s \ {v}, p))
<1> DEFINE block == {v} \X (1 .. AsInt64(volumes[v][p]))
           rest  == UnitsOver(volumes, s \ {v}, p)
<1>1. AsInt64(volumes[v][p]) \in Int /\ AsInt64(volumes[v][p]) > 0
  BY CountedAmount DEF Counted
<1>2. IsFiniteSet(block) /\ Cardinality(block) = AsInt64(volumes[v][p])
  BY <1>1, BlockCardinality
<1>3. IsFiniteSet(rest) /\ Cardinality(rest) \in Nat
  <2>1. IsFiniteSet(rest)
    BY UnitsFinite
  <2> QED
    BY <2>1, FS_CardinalityType
<1>4. UnitsOver(volumes, s, p) = rest \cup block
  BY DEF UnitsOver
<1>5. rest \cap block = {}
  BY DEF UnitsOver
<1> HIDE DEF block, rest
<1>6. Cardinality(rest \cup block) = Cardinality(rest) + Cardinality(block) - 0
  BY <1>2, <1>3, <1>5, FS_Union, FS_EmptySet
<1> QED
  BY <1>1, <1>2, <1>3, <1>4, <1>6 DEF rest

(***************************************************************************)
(* The sum of the amounts is the number of units, for any finite number of *)
(* volumes.                                                                *)
(***************************************************************************)
LEMMA TotalCountsUnits ==
    ASSUME NEW volumes \in VolumeMap, NEW p \in ParamName
    PROVE  totalUsedParam(volumes, p) = Cardinality(Units(volumes, p))
<1> DEFINE S      == Counted(volumes, p)
           total  == [s \in SUBSET S |-> Cardinality(UnitsOver(volumes, s, p))]
           weight == [v \in S |-> AsInt64(volumes[v][p])]
<1>1. IsFiniteSet(S)
  BY VolumeAssumption, FS_Subset DEF Counted
<1>2. total[{}] = 0
  <2>1. UnitsOver(volumes, {}, p) = {}
    BY DEF UnitsOver
  <2> QED
    BY <2>1, FS_EmptySet
<1>3. ASSUME NEW s \in SUBSET S, s # {}
      PROVE  total[s] = weight[First(s)] + total[s \ {First(s)}]
  <2>1. First(s) \in s
    BY <1>3 DEF First
  <2>2. Cardinality(UnitsOver(volumes, s, p))
            = AsInt64(volumes[First(s)][p])
                  + Cardinality(UnitsOver(volumes, s \ {First(s)}, p))
    BY <2>1, OneMoreBlock
  <2> QED
    BY <2>1, <2>2
<1>4. IsSumOf(total, weight, S)
  <2> total = [s \in SUBSET S |-> total[s]]
    OBVIOUS
  <2> HIDE DEF total, weight, S
  <2> QED
    BY <1>2, <1>3 DEF IsSumOf
<1> HIDE DEF total
<1>5. totalUsedParam(volumes, p) = total[S]
  BY <1>1, <1>4, FoldIsSum
<1> QED
  BY <1>5 DEF Units, total

-----------------------------------------------------------------------------
\* The total is a natural number.
LEMMA TotalIsNat ==
    ASSUME NEW volumes \in VolumeMap, NEW p \in ParamName
    PROVE  totalUsedParam(volumes, p) \in Nat
<1>1. IsFiniteSet(Units(volumes, p))
  BY UnitsFinite DEF Units
<1> QED
  BY <1>1, TotalCountsUnits, FS_CardinalityType

-----------------------------------------------------------------------------
\* Charging and taking away.

\* A volume map stays one when a volume is charged or taken away.
LEMMA VolumeMapUpdate ==
    ASSUME NEW volumes \in VolumeMap, NEW v \in Volume,
           NEW params \in ParamMap \cup {Absent}
    PROVE  [volumes EXCEPT ![v] = params] \in VolumeMap
  BY DEF VolumeMap

\* Taking a volume away does not raise a total.
LEMMA ReleaseLowersTotal ==
    ASSUME NEW volumes \in VolumeMap, NEW v \in Volume, NEW p \in ParamName
    PROVE  totalUsedParam([volumes EXCEPT ![v] = Absent], p)
               <= totalUsedParam(volumes, p)
<1> DEFINE after == [volumes EXCEPT ![v] = Absent]
<1>1. after \in VolumeMap
  BY VolumeMapUpdate
<1>2. Units(after, p) \subseteq Units(volumes, p)
  <2>1. \A w \in Counted(after, p) :
            w \in Counted(volumes, p) /\ after[w] = volumes[w]
    BY DEF Counted, VolumeMap
  <2> HIDE DEF after
  <2> QED
    BY <2>1 DEF Units, UnitsOver
<1>3. IsFiniteSet(Units(volumes, p))
  BY UnitsFinite DEF Units
<1>4. Cardinality(Units(after, p)) <= Cardinality(Units(volumes, p))
  BY <1>2, <1>3, FS_Subset
<1>5. /\ totalUsedParam(volumes, p) = Cardinality(Units(volumes, p))
      /\ totalUsedParam(after, p) = Cardinality(Units(after, p))
  BY <1>1, TotalCountsUnits
<1> QED
  BY <1>4, <1>5

\* Charging a volume raises a total by the amount asked for at most.
LEMMA ChargeBoundsTotal ==
    ASSUME NEW volumes \in VolumeMap, NEW v \in Volume, NEW params \in ParamMap,
           NEW p \in ParamName, ParsesAsQuantity(params[p])
    PROVE  LET amount == AsInt64(params[p])
           IN  totalUsedParam([volumes EXCEPT ![v] = params], p)
                   <= totalUsedParam(volumes, p) + (IF amount > 0 THEN amount ELSE 0)
<1> DEFINE after == [volumes EXCEPT ![v] = params]
           block == {v} \X (1 .. AsInt64(params[p]))
<1>1. AsInt64(params[p]) \in Int
  BY AmountIsInt DEF ParamMap
<1>2. Units(after, p) \subseteq Units(volumes, p) \cup block
  <2>1. \A w \in Counted(after, p) \ {v} :
            w \in Counted(volumes, p) /\ after[w] = volumes[w]
    BY DEF Counted, VolumeMap
  <2>2. after[v] = params
    BY DEF VolumeMap
  <2>3. \A w \in Counted(after, p) :
            ({w} \X (1 .. AsInt64(after[w][p]))) \subseteq Units(volumes, p) \cup block
    <3> HIDE DEF after
    <3> TAKE w \in Counted(after, p)
    <3>1. CASE w = v
      BY <3>1, <2>2
    <3>2. CASE w # v
      BY <3>2, <2>1 DEF Units, UnitsOver
    <3> QED
      BY <3>1, <3>2
  <2> HIDE DEF after, block
  <2> QED
    BY <2>3 DEF Units, UnitsOver
<1>3. IsFiniteSet(Units(volumes, p))
  BY UnitsFinite DEF Units
<1>4. IsFiniteSet(block)
      /\ Cardinality(block) = IF AsInt64(params[p]) > 0 THEN AsInt64(params[p]) ELSE 0
  BY <1>1, BlockCardinality
<1> HIDE DEF after, block
<1>5. IsFiniteSet(Units(volumes, p) \cup block)
      /\ Cardinality(Units(volumes, p) \cup block)
           = Cardinality(Units(volumes, p)) + Cardinality(block)
             - Cardinality(Units(volumes, p) \cap block)
  BY <1>3, <1>4, FS_Union
<1>6. Cardinality(Units(volumes, p)) \in Nat /\ Cardinality(block) \in Nat
  BY <1>3, <1>4, FS_CardinalityType
<1>7. Cardinality(Units(volumes, p) \cap block) \in Nat
  BY <1>3, FS_Intersection, FS_CardinalityType
<1>8. Cardinality(Units(after, p)) <= Cardinality(Units(volumes, p) \cup block)
  BY <1>2, <1>5, FS_Subset
<1>9. Cardinality(Units(after, p)) \in Nat
  <2>1. IsFiniteSet(Units(after, p))
    BY <1>2, <1>5, FS_Subset
  <2> QED
    BY <2>1, FS_CardinalityType
<1>10. Cardinality(Units(after, p)) <= Cardinality(Units(volumes, p)) + Cardinality(block)
  BY <1>5, <1>6, <1>7, <1>8, <1>9
<1>11. /\ totalUsedParam(volumes, p) = Cardinality(Units(volumes, p))
       /\ totalUsedParam(after, p) = Cardinality(Units(after, p))
  BY VolumeMapUpdate, TotalCountsUnits DEF after
<1> QED
  BY <1>4, <1>10, <1>11 DEF after

-----------------------------------------------------------------------------
\* What a match of a GPU guarantees.

\* An amount that fits leaves room for itself.
LEMMA FitsMeansRoom ==
    ASSUME NEW device \in DeviceParams \cup {NoDevice.Parameters},
           NEW volumes \in VolumeMap, NEW params \in ParamMap, NEW p \in ParamName,
           checkParamFits(device, volumes, params, p) = "OK"
    PROVE  /\ ParsesAsQuantity(params[p])
           /\ AsInt64(params[p]) <= AsInt64(device[p]) - totalUsedParam(volumes, p)
  BY DEF checkParamFits

\* A GPU that matches has room for both amounts asked for.
LEMMA GpuMatchMeansFits ==
    ASSUME NEW device \in DeviceParams \cup {NoDevice.Parameters},
           NEW volumes \in VolumeMap, NEW params \in ParamMap,
           device["deviceType"] = Gpu,
           Match(device, volumes, params) = "OK"
    PROVE  gpuCheckParams(device, volumes, params) = "OK"
<1>1. checkBoth(device, params, "deviceType", "vendor") = "OK"
  BY DEF Match
<1>2. params["deviceType"] = Gpu
  BY <1>1 DEF checkBoth, checkParam
<1> QED
  BY <1>1, <1>2, ValueAssumption DEF Match

(***************************************************************************)
(* Charging a volume to a device that matches keeps the device within what *)
(* it has, for every amount the request may name.                          *)
(***************************************************************************)
LEMMA ChargeKeepsCapacity ==
    ASSUME NEW device \in DeviceParams \cup {NoDevice.Parameters},
           NEW volumes \in VolumeMap, NEW params \in ParamMap, NEW v \in Volume,
           WithinCapacity(device, volumes),
           Match(device, volumes, params) = "OK"
    PROVE  WithinCapacity(device, [volumes EXCEPT ![v] = params])
<1> SUFFICES ASSUME device["deviceType"] = Gpu, NEW p \in {"memory", "millicores"}
             PROVE  totalUsedParam([volumes EXCEPT ![v] = params], p)
                        <= AsInt64(device[p])
  BY DEF WithinCapacity
<1> DEFINE amount   == AsInt64(params[p])
           capacity == AsInt64(device[p])
           before   == totalUsedParam(volumes, p)
           after    == totalUsedParam([volumes EXCEPT ![v] = params], p)
<1>1. p \in ParamName
  BY DEF ParamName
<1>2. checkParamFits(device, volumes, params, p) = "OK"
  BY GpuMatchMeansFits DEF gpuCheckParams
<1>3. ParsesAsQuantity(params[p]) /\ amount <= capacity - before
  BY <1>1, <1>2, FitsMeansRoom
<1>4. amount \in Int
  BY <1>1, <1>3, AmountIsInt DEF ParamMap
<1>5. capacity \in Nat
  BY GpuHasResources
<1>6. before \in Nat /\ before <= capacity
  BY <1>1, TotalIsNat DEF WithinCapacity
<1>7. after \in Nat
  BY <1>1, VolumeMapUpdate, TotalIsNat
<1>8. after <= before + (IF amount > 0 THEN amount ELSE 0)
  BY <1>1, <1>3, ChargeBoundsTotal
<1> HIDE DEF amount, capacity, before, after
<1>9. after <= capacity
  BY <1>3, <1>4, <1>5, <1>6, <1>7, <1>8
<1> QED
  BY <1>9 DEF after, capacity

(***************************************************************************)
(* So does taking a volume away.                                           *)
(***************************************************************************)
LEMMA ReleaseKeepsCapacity ==
    ASSUME NEW device \in DeviceParams \cup {NoDevice.Parameters},
           NEW volumes \in VolumeMap, NEW v \in Volume,
           WithinCapacity(device, volumes)
    PROVE  WithinCapacity(device, [volumes EXCEPT ![v] = Absent])
<1> SUFFICES ASSUME device["deviceType"] = Gpu, NEW p \in {"memory", "millicores"}
             PROVE  totalUsedParam([volumes EXCEPT ![v] = Absent], p)
                        <= AsInt64(device[p])
  BY DEF WithinCapacity
<1>1. p \in ParamName
  BY DEF ParamName
<1>2. totalUsedParam([volumes EXCEPT ![v] = Absent], p) <= totalUsedParam(volumes, p)
  BY <1>1, ReleaseLowersTotal
<1>3. totalUsedParam(volumes, p) <= AsInt64(device[p])
  BY DEF WithinCapacity
<1>4. AsInt64(device[p]) \in Nat /\ totalUsedParam(volumes, p) \in Nat
  BY <1>1, GpuHasResources, TotalIsNat
<1>5. totalUsedParam([volumes EXCEPT ![v] = Absent], p) \in Nat
  BY <1>1, VolumeMapUpdate, TotalIsNat
<1> QED
  BY <1>2, <1>3, <1>4, <1>5

\* No volumes use nothing.
LEMMA NothingCharged ==
    ASSUME NEW p \in ParamName
    PROVE  totalUsedParam(NoVolumes, p) = 0
<1>1. Counted(NoVolumes, p) = {}
  BY DEF Counted, NoVolumes
<1>2. Units(NoVolumes, p) = {}
  BY <1>1 DEF Units, UnitsOver
<1>3. NoVolumes \in VolumeMap
  BY DEF NoVolumes, VolumeMap
<1> QED
  BY <1>2, <1>3, FS_EmptySet, TotalCountsUnits

(***************************************************************************)
(* A device without volumes, and memory that is no device, is within its   *)
(* capacity.                                                               *)
(***************************************************************************)
LEMMA EmptyWithinCapacity ==
    ASSUME NEW device \in DeviceParams \cup {NoDevice.Parameters}
    PROVE  NoVolumes \in VolumeMap /\ WithinCapacity(device, NoVolumes)
<1>1. NoVolumes \in VolumeMap
  BY DEF NoVolumes, VolumeMap
<1>2. ASSUME device["deviceType"] = Gpu, NEW p \in {"memory", "millicores"}
      PROVE  totalUsedParam(NoVolumes, p) <= AsInt64(device[p])
  <2>1. p \in ParamName
    BY DEF ParamName
  <2>2. AsInt64(device[p]) \in Nat
    BY <1>2, GpuHasResources
  <2> QED
    BY <2>1, <2>2, NothingCharged
<1> QED
  BY <1>1, <1>2 DEF WithinCapacity

(***************************************************************************)
(* A device that would match if it were unused matches, or will match when *)
(* volumes are taken away: it never answers that it does not suit.         *)
(***************************************************************************)
LEMMA UnusedMatchMeansRoom ==
    ASSUME NEW device \in DeviceParams \cup {NoDevice.Parameters},
           NEW volumes \in VolumeMap, NEW params \in ParamMap,
           Match(device, NoVolumes, params) = "OK"
    PROVE  Match(device, volumes, params) \in {"OK", "ResourceExhausted"}
<1>1. checkBoth(device, params, "deviceType", "vendor") = "OK"
  BY DEF Match
<1>2. params["deviceType"] = device["deviceType"]
  BY <1>1 DEF checkBoth, checkParam
<1>3. CASE params["deviceType"] = Gpu
  <2>1. gpuCheckParams(device, NoVolumes, params) = "OK"
    BY <1>1, <1>3, ValueAssumption DEF Match
  <2>2. ASSUME NEW p \in {"memory", "millicores"}
        PROVE  checkParamFits(device, volumes, params, p) \in {"OK", "ResourceExhausted"}
    <3>1. p \in ParamName
      BY DEF ParamName
    <3>2. NoVolumes \in VolumeMap
      BY EmptyWithinCapacity
    <3>3. checkParamFits(device, NoVolumes, params, p) = "OK"
      BY <2>1 DEF gpuCheckParams
    <3>4. /\ ParsesAsQuantity(params[p])
          /\ AsInt64(params[p]) <= AsInt64(device[p]) - totalUsedParam(NoVolumes, p)
      BY <3>1, <3>2, <3>3, FitsMeansRoom
    <3>5. AsInt64(params[p]) \in Int /\ totalUsedParam(volumes, p) \in Nat
      BY <3>1, <3>4, AmountIsInt, TotalIsNat DEF ParamMap
    <3>6. AsInt64(device[p]) \in Nat /\ ParsesAsQuantity(device[p])
      BY <1>2, <1>3, GpuHasResources
    <3>7. AsInt64(params[p]) <= AsInt64(device[p])
      BY <3>1, <3>4, <3>5, <3>6, NothingCharged
    <3> QED
      BY <3>4, <3>5, <3>6, <3>7 DEF checkParamFits
  <2>3. gpuCheckParams(device, volumes, params) \in {"OK", "ResourceExhausted"}
    BY <2>2 DEF gpuCheckParams
  <2> QED
    BY <1>1, <1>3, <2>3, ValueAssumption DEF Match
<1>4. CASE params["deviceType"] # Gpu
  BY <1>1, <1>4 DEF Match
<1> QED
  BY <1>3, <1>4

\* The memory of no device is a DeviceInfo, within its capacity.
LEMMA NoDeviceType == NoDevice \in DeviceInfo
  BY DEF NoDevice, DeviceInfo, NoVolumes, VolumeMap

LEMMA NoDeviceCapacity == WithinCapacity(NoDevice.Parameters, NoDevice.Volumes)
  BY EmptyWithinCapacity DEF NoDevice

\* No request matches where no device was ever allocated.
LEMMA NoDeviceNeverMatches ==
    ASSUME NEW volumes, NEW params \in ParamMap
    PROVE  Match(NoDevice.Parameters, volumes, params) = "InvalidArgument"
<1>1. NoDevice.Parameters["deviceType"] = Absent
  BY DEF NoDevice, ParamName
<1>2. checkParam(NoDevice.Parameters, params, "deviceType") = "InvalidArgument"
  BY <1>1 DEF checkParam
<1>3. checkBoth(NoDevice.Parameters, params, "deviceType", "vendor") = "InvalidArgument"
  BY <1>2 DEF checkBoth
<1> QED
  BY <1>3 DEF Match

\* Taking a volume away from a device without volumes changes nothing.
LEMMA NothingToRelease ==
    ASSUME NEW v \in Volume
    PROVE  [NoVolumes EXCEPT ![v] = Absent] = NoVolumes
  BY DEF NoVolumes

\* ResourceExhausted is the answer of a device that a volume is charged to.
LEMMA ExhaustedMeansCounted ==
    ASSUME NEW device \in DeviceParams \cup {NoDevice.Parameters},
           NEW volumes \in VolumeMap, NEW params \in ParamMap,
           Match(device, volumes, params) = "ResourceExhausted"
    PROVE  \E p \in {"memory", "millicores"} : Counted(volumes, p) # {}
<1>1. /\ gpuCheckParams(device, volumes, params) = "ResourceExhausted"
      /\ device["deviceType"] = Gpu
  BY DEF Match, checkBoth, checkParam, fpgaCheckParams
<1>2. PICK p \in {"memory", "millicores"} :
          checkParamFits(device, volumes, params, p) = "ResourceExhausted"
  BY <1>1 DEF gpuCheckParams
<1>3. p \in ParamName
  BY DEF ParamName
<1>4. /\ ParsesAsQuantity(params[p])
      /\ AsInt64(params[p]) <= AsInt64(device[p])
      /\ AsInt64(params[p]) > AsInt64(device[p]) - totalUsedParam(volumes, p)
  BY <1>2 DEF checkParamFits
<1>5. AsInt64(params[p]) \in Int /\ AsInt64(device[p]) \in Nat
      /\ totalUsedParam(volumes, p) \in Nat
  BY <1>1, <1>3, <1>4, AmountIsInt, GpuHasResources, TotalIsNat DEF ParamMap
<1>6. totalUsedParam(volumes, p) > 0
  BY <1>4, <1>5
<1>7. Units(volumes, p) # {}
  BY <1>3, <1>6, FS_EmptySet, TotalCountsUnits
<1> QED
  BY <1>7 DEF Units, UnitsOver

-----------------------------------------------------------------------------
\* Memory.

(***************************************************************************)
(* Setting one volume of the device at one address leaves the device's     *)
(* parameters and all other addresses as they are.                         *)
(***************************************************************************)
LEMMA VolumesUpdate ==
    ASSUME NEW Addr, NEW heap \in [Addr -> DeviceInfo],
           NEW a \in Addr, NEW v \in Volume, NEW params \in ParamMap \cup {Absent}
    PROVE  LET after == [heap EXCEPT ![a].Volumes[v] = params]
           IN  /\ after \in [Addr -> DeviceInfo]
               /\ after[a].Parameters = heap[a].Parameters
               /\ after[a].Volumes = [heap[a].Volumes EXCEPT ![v] = params]
               /\ \A w \in Volume \ {v} : after[a].Volumes[w] = heap[a].Volumes[w]
               /\ \A b \in Addr \ {a} : after[b] = heap[b]
<1> DEFINE after == [heap EXCEPT ![a].Volumes[v] = params]
<1>1. heap[a] \in DeviceInfo
  OBVIOUS
<1>2. /\ [heap[a].Volumes EXCEPT ![v] = params] \in VolumeMap
      /\ heap[a].Volumes \in VolumeMap
  BY <1>1, VolumeMapUpdate DEF DeviceInfo
<1>3. after = [heap EXCEPT ![a] =
          [heap[a] EXCEPT !.Volumes = [heap[a].Volumes EXCEPT ![v] = params]]]
  OBVIOUS
<1>4. after[a] = [heap[a] EXCEPT !.Volumes = [heap[a].Volumes EXCEPT ![v] = params]]
  BY <1>3
<1>5. after[a] \in DeviceInfo
      /\ after[a].Parameters = heap[a].Parameters
      /\ after[a].Volumes = [heap[a].Volumes EXCEPT ![v] = params]
  BY <1>1, <1>2, <1>4 DEF DeviceInfo
<1>6. \A b \in Addr \ {a} : after[b] = heap[b]
  BY <1>3
<1>7. after[a].Volumes[v] = params
      /\ \A w \in Volume \ {v} : after[a].Volumes[w] = heap[a].Volumes[w]
  BY <1>2, <1>5 DEF VolumeMap
<1>8. after \in [Addr -> DeviceInfo]
  BY <1>5, <1>6
<1> QED
  BY <1>5, <1>6, <1>7, <1>8
=============================================================================
