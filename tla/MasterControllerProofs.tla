------------------------ MODULE MasterControllerProofs ------------------------
(***************************************************************************)
(* Proofs about MasterController, for any number of nodes, devices,        *)
(* callers, volumes and requests: its invariants, and that it implements   *)
(* DeviceLedger.                                                           *)
(***************************************************************************)
EXTENDS MasterController, DeviceMatchProofs

-----------------------------------------------------------------------------
\* Records and reports.

\* The fields of a call, by what the call is doing.
LEMMA CallFields ==
    ASSUME NEW call \in Call
    PROVE  /\ call.pc \in {"idle", "createLock", "create", "deleteLock", "delete"}
           /\ call.pc # "idle" => call.volume \in Volume
           /\ call.pc \in {"createLock", "create"} => call.request \in Request
           /\ call.pc \in {"create", "deleteLock", "delete"} => call.device \in Address
  BY DEF Call

\* The calls the actions build.
LEMMA CallTypes ==
    /\ \A code \in Code : Idle(code) \in Call /\ Idle(code).pc = "idle"
    /\ \A v \in Volume, r \in Request :
           [pc |-> "createLock", volume |-> v, request |-> r] \in Call
    /\ \A v \in Volume, r \in Request, a \in Address :
           [pc |-> "create", volume |-> v, request |-> r, device |-> a] \in Call
    /\ \A v \in Volume, a \in Address, pc \in {"deleteLock", "delete"} :
           [pc |-> pc, volume |-> v, device |-> a] \in Call
  BY DEF Call, Idle

\* A request asks with a parameter map.
LEMMA RequestParams ==
    ASSUME NEW request \in Request
    PROVE  request.params \in ParamMap /\ request.params # Absent
  BY MasterAssumption, ParamMapAssumption

\* A report numbers devices from 0, MaxDevices of them at most.
LEMMA ReportFields ==
    ASSUME NEW report \in Report
    PROVE  /\ DOMAIN report \subseteq 0 .. MaxDevices - 1
           /\ \A i \in DOMAIN report : report[i] \in DeviceParams
<1>1. PICK k \in 0 .. MaxDevices : report \in [0 .. k - 1 -> DeviceParams]
  BY DEF Report
<1> QED
  BY <1>1, MasterAssumption

\* The addresses of a report that is taken over are new addresses of its node.
LEMMA FreshAddresses ==
    ASSUME TypeOK, ReportPending, NEW n \in Node, listing[n] # Absent
    PROVE  \A a \in Fresh(n) :
               /\ a \in Address
               /\ a.ID \in DeviceID /\ a.ID.node = n
               /\ a = [ID |-> a.ID, report |-> reports[n] + 1]
               /\ a.report > reports[a.ID.node]
               /\ a.ID.index \in DOMAIN listing[n]
<1>1. listing[n] \in Report /\ reports[n] \in 0 .. MaxReports /\ reports[n] < MaxReports
  BY DEF TypeOK, ReportPending
<1>2. reports[n] + 1 \in 1 .. MaxReports /\ reports[n] + 1 > reports[n]
  BY <1>1, MasterAssumption
<1>3. DOMAIN listing[n] \subseteq 0 .. MaxDevices - 1
  BY <1>1, ReportFields
<1> QED
  BY <1>2, <1>3 DEF Fresh, Address, DeviceID

\* findDevice answers addresses that match.
LEMMA FoundMatches ==
    ASSUME TypeOK, NEW request \in Request, NEW a \in findDevice(request)
    PROVE  a \in Address /\ Matches(request, a, "OK")
  BY DEF findDevice, Chosen, NodeDevices

\* A set of natural numbers has a least element.
LEMMA LeastNatural ==
    ASSUME NEW S, S \subseteq Nat, S # {}
    PROVE  \E i \in S : \A j \in S : i <= j
<1> DEFINE Less == {ss \in Nat \X Nat : ss[1] < ss[2]}
<1>1. \E i \in S : \A j \in S : <<j, i>> \notin Less
  <2>1. IsWellFoundedOn(Less, Nat)
    BY NatLessThanWellFounded DEF OpToRel
  <2> HIDE DEF Less
  <2> QED
    BY <2>1, WFMin
<1>2. ASSUME NEW i \in S, NEW j \in S, <<j, i>> \notin Less
      PROVE  i <= j
  <2>1. i \in Nat /\ j \in Nat
    OBVIOUS
  <2>2. ~(j < i)
    BY <1>2, <2>1
  <2> QED
    BY <2>1, <2>2
<1> QED
  BY <1>1, <1>2

(***************************************************************************)
(* findDevice overlooks nothing: when it answers no address, no listed     *)
(* device matches.  If the nodes of the topology request have matching     *)
(* devices, one of these nodes is the first of them.                       *)
(***************************************************************************)
LEMMA FoundNothing ==
    ASSUME NEW request \in Request, findDevice(request) = {}
    PROVE  Chosen(request) = {}
<1> DEFINE ranked == {i \in DOMAIN request.preferred :
                         request.preferred[i] \in NodesOf(Chosen(request))}
           first  == CHOOSE i \in ranked : \A j \in ranked : i <= j
<1>1. ranked \subseteq Nat
  BY MasterAssumption
<1>2. CASE ranked = {}
  <2>1. findDevice(request) = {na[2] : na \in {c \in Chosen(request) : c[1] \in Node}}
    BY <1>2 DEF findDevice
  <2>2. \A na \in Chosen(request) : na[1] \in Node
    BY DEF Chosen, NodeDevices
  <2> QED
    BY <2>1, <2>2
<1>3. CASE ranked # {}
  <2>1. first \in ranked
    <3> HIDE DEF ranked
    <3> QED
      BY <1>1, <1>3, LeastNatural
  <2>2. findDevice(request) = {na[2] : na \in
            {c \in Chosen(request) : c[1] \in {request.preferred[first]}}}
    BY <1>3 DEF findDevice
  <2>3. request.preferred[first] \in NodesOf(Chosen(request))
    BY <2>1
  <2> HIDE DEF first
  <2> QED
    BY <2>2, <2>3 DEF NodesOf
<1> QED
  BY <1>2, <1>3

\* findDevice answers one of two codes when it finds nothing.
LEMMA NotFoundCodeType ==
    ASSUME NEW request PROVE notFoundCode(request) \in Code
  BY DEF notFoundCode, Code

\* Setting one volume at one address.
LEMMA DevicesUpdate ==
    ASSUME devices \in [Address -> DeviceInfo],
           NEW a \in Address, NEW v \in Volume, NEW params \in ParamMap \cup {Absent},
           devices' = [devices EXCEPT ![a].Volumes[v] = params]
    PROVE  /\ devices' \in [Address -> DeviceInfo]
           /\ devices'[a].Parameters = devices[a].Parameters
           /\ devices'[a].Volumes = [devices[a].Volumes EXCEPT ![v] = params]
           /\ devices'[a].Volumes[v] = params
           /\ \A w \in Volume \ {v} : devices'[a].Volumes[w] = devices[a].Volumes[w]
           /\ \A b \in Address \ {a} : devices'[b] = devices[b]
<1> DEFINE after == [devices EXCEPT ![a].Volumes[v] = params]
<1>1. after \in [Address -> DeviceInfo]
  BY VolumesUpdate
<1>2. after[a].Parameters = devices[a].Parameters
  BY VolumesUpdate
<1>3. after[a].Volumes = [devices[a].Volumes EXCEPT ![v] = params]
  BY VolumesUpdate
<1>4. \A w \in Volume \ {v} : after[a].Volumes[w] = devices[a].Volumes[w]
  BY VolumesUpdate
<1>5. \A b \in Address \ {a} : after[b] = devices[b]
  BY VolumesUpdate
<1>6. devices' = after
  OBVIOUS
<1> HIDE DEF after
<1>7. [devices[a].Volumes EXCEPT ![v] = params][v] = params
  BY DEF DeviceInfo, VolumeMap
<1> QED
  BY <1>1, <1>2, <1>3, <1>4, <1>5, <1>6, <1>7

-----------------------------------------------------------------------------
(***************************************************************************)
(* Typing.                                                                 *)
(***************************************************************************)
LEMMA TypeInit == Init => TypeOK
<1> SUFFICES ASSUME Init PROVE TypeOK
  OBVIOUS
<1>1. "OK" \in Code
  BY DEF Code
<1>2. calls \in [Caller -> Call]
  BY <1>1, CallTypes DEF Init
<1>3. reports \in [Node -> 0 .. MaxReports]
  BY MasterAssumption DEF Init
<1>4. devices \in [Address -> DeviceInfo]
  BY NoDeviceType DEF Init
<1> QED
  BY <1>2, <1>3, <1>4 DEF Init, TypeOK

LEMMA TypeStep == TypeOK /\ ReportPending /\ [Next]_vars => TypeOK'
<1> SUFFICES ASSUME TypeOK, ReportPending, [Next]_vars
             PROVE  TypeOK'
  OBVIOUS
<1> USE DEF TypeOK
<1>0. Idle("InvalidArgument") \in Call
  BY CallTypes DEF Code
<1>1. ASSUME NEW c \in Caller, CreateVolume(c)
      PROVE  TypeOK'
  BY <1>0, <1>1, CallTypes DEF CreateVolume, tables
<1>2. ASSUME NEW c \in Caller, CreateVolumeFinds(c)
      PROVE  TypeOK'
  <2>1. calls[c].volume \in Volume /\ calls[c].request \in Request
    BY <1>2, CallFields DEF CreateVolumeFinds
  <2>2. calls' \in [Caller -> Call]
    BY <1>2, <2>1, CallTypes, FoundMatches DEF CreateVolumeFinds
  <2> QED
    BY <1>2, <2>2 DEF CreateVolumeFinds, tables
<1>3. ASSUME NEW c \in Caller, CreateVolumeFindsNothing(c)
      PROVE  TypeOK'
  BY <1>3, CallTypes, NotFoundCodeType DEF CreateVolumeFindsNothing, tables
<1>4. ASSUME NEW c \in Caller, CreateVolumeSucceeds(c)
      PROVE  TypeOK'
  <2>1. /\ calls[c].volume \in Volume /\ calls[c].request \in Request
        /\ calls[c].device \in Address
    BY <1>4, CallFields DEF CreateVolumeSucceeds
  <2>2. devices' \in [Address -> DeviceInfo]
    <3> DEFINE v      == calls[c].volume
               a      == calls[c].device
               params == calls[c].request.params
    <3>1. v \in Volume /\ a \in Address /\ params \in ParamMap \cup {Absent}
      BY <2>1, RequestParams
    <3>2. devices' = [devices EXCEPT ![a].Volumes[v] = params]
      BY <1>4 DEF CreateVolumeSucceeds
    <3>3. devices \in [Address -> DeviceInfo]
      OBVIOUS
    <3> HIDE DEF v, a, params
    <3> QED
      BY <3>1, <3>2, <3>3, DevicesUpdate
  <2>3. devicesByVolumeName' \in [Volume -> Address \cup {Absent}]
    BY <1>4, <2>1 DEF CreateVolumeSucceeds
  <2>4. calls' \in [Caller -> Call]
    BY <1>4, CallTypes DEF CreateVolumeSucceeds, Code
  <2> QED
    BY <1>4, <2>2, <2>3, <2>4 DEF CreateVolumeSucceeds
<1>5. ASSUME NEW c \in Caller, CreateVolumeFails(c)
      PROVE  TypeOK'
  BY <1>5, CallTypes DEF CreateVolumeFails, Code, tables
<1>6. ASSUME NEW c \in Caller, DeleteVolume(c)
      PROVE  TypeOK'
  <2>1. "OK" \in Code
    BY DEF Code
  <2>2. ASSUME NEW v \in Volume,
               calls' = [calls EXCEPT ![c] =
                   IF devicesByVolumeName[v] = Absent
                   THEN Idle("OK")
                   ELSE [pc |-> "deleteLock", volume |-> v,
                         device |-> devicesByVolumeName[v]]]
        PROVE  calls' \in [Caller -> Call]
    BY <2>1, <2>2, CallTypes
  <2>3. calls' \in [Caller -> Call]
    BY <1>0, <1>6, <2>2 DEF DeleteVolume
  <2> QED
    BY <1>6, <2>3 DEF DeleteVolume, tables
<1>7. ASSUME NEW c \in Caller, DeleteVolumeForgets(c)
      PROVE  TypeOK'
  <2>1. calls[c].volume \in Volume /\ calls[c].device \in Address
    BY <1>7, CallFields DEF DeleteVolumeForgets
  <2>2. devices' \in [Address -> DeviceInfo]
    <3> DEFINE v == calls[c].volume
               a == calls[c].device
    <3>1. v \in Volume /\ a \in Address
      BY <2>1
    <3>2. devices' = [devices EXCEPT ![a].Volumes[v] = Absent]
      BY <1>7 DEF DeleteVolumeForgets
    <3>3. devices \in [Address -> DeviceInfo]
      OBVIOUS
    <3> HIDE DEF v, a
    <3> QED
      BY <3>1, <3>2, <3>3, DevicesUpdate
  <2>3. devicesByVolumeName' \in [Volume -> Address \cup {Absent}]
    BY <1>7, <2>1 DEF DeleteVolumeForgets
  <2>4. calls' \in [Caller -> Call]
    <3>1. "Internal" \in Code
      BY DEF Code
    <3>2. [calls[c] EXCEPT !.pc = "delete"] \in Call
      BY <1>7 DEF DeleteVolumeForgets, Call
    <3> QED
      BY <1>7, <3>1, <3>2, CallTypes DEF DeleteVolumeForgets
  <2>5. mutex' \in Caller \cup {Free}
    BY <1>7 DEF DeleteVolumeForgets
  <2> QED
    BY <1>7, <2>2, <2>3, <2>4, <2>5 DEF DeleteVolumeForgets
<1>8. ASSUME NEW c \in Caller, DeleteVolumeReturns(c)
      PROVE  TypeOK'
  BY <1>8, CallTypes DEF DeleteVolumeReturns, Code, tables
<1>9. ASSUME NEW n \in Node, OnNodeAdded(n)
      PROVE  TypeOK'
  BY <1>9 DEF OnNodeAdded, tables
<1>10. ASSUME NEW n \in Node, OnNodeAddedUpdate(n)
       PROVE  TypeOK'
  <2>1. listing[n] \in Report /\ listing[n] # Absent
    BY <1>10 DEF OnNodeAddedUpdate
  <2>2. \A a \in Fresh(n) :
            a \in Address /\ a.ID \in DeviceID /\ a.ID.index \in DOMAIN listing[n]
            /\ a = [ID |-> a.ID, report |-> reports[n] + 1]
    BY <2>1, FreshAddresses
  <2>3. devices' \in [Address -> DeviceInfo]
    <3>1. \A a \in Fresh(n) :
              [Parameters |-> listing[n][a.ID.index], Volumes |-> NoVolumes] \in DeviceInfo
      BY <2>1, <2>2, ReportFields, EmptyWithinCapacity DEF DeviceInfo
    <3> QED
      BY <1>10, <3>1 DEF OnNodeAddedUpdate
  <2>4. devicesByIDs' \in [DeviceID -> Address \cup {Absent}]
    BY <1>10, <2>2 DEF OnNodeAddedUpdate
  <2>5. devicesByNodes' \in [Node -> SUBSET Address]
    BY <1>10, <2>2 DEF OnNodeAddedUpdate
  <2>6. reports' \in [Node -> 0 .. MaxReports]
    BY <1>10, <2>1, MasterAssumption DEF OnNodeAddedUpdate, ReportPending
  <2>7. listing' \in [Node -> Report \cup {Absent}]
    BY <1>10 DEF OnNodeAddedUpdate
  <2> QED
    BY <1>10, <2>3, <2>4, <2>5, <2>6, <2>7 DEF OnNodeAddedUpdate
<1>11. ASSUME NEW n \in Node, OnNodeDeleted(n)
       PROVE  TypeOK'
  BY <1>11 DEF OnNodeDeleted
<1>12. CASE Restart
  <2>1. Init'
    BY <1>12 DEF Restart, Init
  <2>2. "OK" \in Code
    BY DEF Code
  <2> QED
    BY <1>12, <2>2, NoDeviceType, CallTypes, MasterAssumption DEF Restart
<1>13. CASE UNCHANGED vars
  BY <1>13 DEF vars
<1> QED
  BY <1>1, <1>2, <1>3, <1>4, <1>5, <1>6, <1>7, <1>8, <1>9, <1>10, <1>11, <1>12, <1>13
     DEF Next, CreateVolumeLocks, CreateVolumeReturns

-----------------------------------------------------------------------------
\* What the two steps that change charges do to the memory.

\* A create that succeeds charges its device, and nothing else.
LEMMA ChargeEffect ==
    ASSUME TypeOK, NEW c \in Caller, CreateVolumeSucceeds(c)
    PROVE  LET v      == calls[c].volume
               a      == calls[c].device
               params == calls[c].request.params
           IN  /\ v \in Volume /\ a \in Address
               /\ params \in ParamMap /\ params # Absent
               /\ devices'[a].Parameters = devices[a].Parameters
               /\ devices'[a].Volumes = [devices[a].Volumes EXCEPT ![v] = params]
               /\ devices'[a].Volumes[v] = params
               /\ \A w \in Volume \ {v} : devices'[a].Volumes[w] = devices[a].Volumes[w]
               /\ \A b \in Address \ {a} : devices'[b] = devices[b]
<1> DEFINE v      == calls[c].volume
           a      == calls[c].device
           params == calls[c].request.params
<1>1. calls[c] \in Call /\ devices \in [Address -> DeviceInfo]
  BY DEF TypeOK
<1>2. v \in Volume /\ a \in Address /\ calls[c].request \in Request
  BY <1>1, CallFields DEF CreateVolumeSucceeds
<1>3. params \in ParamMap /\ params # Absent
  BY <1>2, RequestParams
<1>4. devices' = [devices EXCEPT ![a].Volumes[v] = params]
  BY DEF CreateVolumeSucceeds
<1> HIDE DEF v, a, params
<1>5. params \in ParamMap \cup {Absent}
  BY <1>3
<1>6. devices'[a].Parameters = devices[a].Parameters
  BY <1>1, <1>2, <1>4, <1>5, DevicesUpdate
<1>7. devices'[a].Volumes = [devices[a].Volumes EXCEPT ![v] = params]
  BY <1>1, <1>2, <1>4, <1>5, DevicesUpdate
<1>8. devices'[a].Volumes[v] = params
  BY <1>1, <1>2, <1>7 DEF DeviceInfo, VolumeMap
<1>9. \A w \in Volume \ {v} : devices'[a].Volumes[w] = devices[a].Volumes[w]
  BY <1>1, <1>2, <1>4, <1>5, DevicesUpdate
<1>10. \A b \in Address \ {a} : devices'[b] = devices[b]
  BY <1>1, <1>2, <1>4, <1>5, DevicesUpdate
<1> QED
  BY <1>2, <1>3, <1>6, <1>7, <1>8, <1>9, <1>10, Zenon DEF v, a, params

\* A delete takes back the charge of the device it read, and nothing else.
LEMMA ReleaseEffect ==
    ASSUME TypeOK, NEW c \in Caller, DeleteVolumeForgets(c)
    PROVE  LET v == calls[c].volume
               a == calls[c].device
           IN  /\ v \in Volume /\ a \in Address
               /\ devices'[a].Parameters = devices[a].Parameters
               /\ devices'[a].Volumes = [devices[a].Volumes EXCEPT ![v] = Absent]
               /\ devices'[a].Volumes[v] = Absent
               /\ \A w \in Volume \ {v} : devices'[a].Volumes[w] = devices[a].Volumes[w]
               /\ \A b \in Address \ {a} : devices'[b] = devices[b]
<1> DEFINE v == calls[c].volume
           a == calls[c].device
<1>1. calls[c] \in Call /\ devices \in [Address -> DeviceInfo]
  BY DEF TypeOK
<1>2. v \in Volume /\ a \in Address
  BY <1>1, CallFields DEF DeleteVolumeForgets
<1>3. devices' = [devices EXCEPT ![a].Volumes[v] = Absent]
  BY DEF DeleteVolumeForgets
<1> HIDE DEF v, a
<1>4. Absent \in ParamMap \cup {Absent}
  OBVIOUS
<1>5. devices'[a].Parameters = devices[a].Parameters
  BY <1>1, <1>2, <1>3, <1>4, DevicesUpdate
<1>6. devices'[a].Volumes = [devices[a].Volumes EXCEPT ![v] = Absent]
  BY <1>1, <1>2, <1>3, <1>4, DevicesUpdate
<1>7. devices'[a].Volumes[v] = Absent
  BY <1>1, <1>2, <1>6 DEF DeviceInfo, VolumeMap
<1>8. \A w \in Volume \ {v} : devices'[a].Volumes[w] = devices[a].Volumes[w]
  BY <1>1, <1>2, <1>3, <1>4, DevicesUpdate
<1>9. \A b \in Address \ {a} : devices'[b] = devices[b]
  BY <1>1, <1>2, <1>3, <1>4, DevicesUpdate
<1> QED
  BY <1>2, <1>5, <1>6, <1>7, <1>8, <1>9, Zenon DEF v, a

-----------------------------------------------------------------------------
(***************************************************************************)
(* The inductive invariant.                                                *)
(***************************************************************************)
LEMMA MasterInit == Init => MasterInv
<1> SUFFICES ASSUME Init PROVE MasterInv
  OBVIOUS
<1>1. MutexHeld
  BY MasterAssumption DEF Init, MutexHeld, Idle
<1>2. MemoryUnused /\ ReportPending /\ CapacityRespected
  BY NoDeviceCapacity DEF Init, MemoryUnused, ReportPending, CapacityRespected
<1>3. ChoiceStillFits /\ DeletedStaysDeleted
  BY DEF Init, ChoiceStillFits, DeletedStaysDeleted, Idle
<1>4. NamesResolve /\ IDsAgree
  BY DEF Init, NamesResolve, IDsAgree
<1> QED
  BY <1>1, <1>2, <1>3, <1>4, TypeInit DEF MasterInv

\* While the mutex is free no call waits for a node; while a call holds it,
\* that call is the only one.
LEMMA NoOtherWaits ==
    ASSUME MutexHeld, NEW c \in Caller, mutex = Free \/ mutex = c,
           NEW d \in Caller \ {c}
    PROVE  calls[d].pc \notin {"create", "delete"}
  BY MasterAssumption DEF MutexHeld

(***************************************************************************)
(* Steps that leave the memory and the two indexes of it alone.            *)
(***************************************************************************)
LEMMA QuietStep ==
    ASSUME MasterInv, TypeOK',
           UNCHANGED <<tables, reports>>,
           MutexHeld', ReportPending',
           \A c \in Caller : calls'[c].pc = "create" =>
               Matches(calls'[c].request, calls'[c].device, "OK"),
           \A c \in Caller : calls'[c].pc = "delete" => calls'[c] = calls[c]
    PROVE  MasterInv'
<1>1. MemoryUnused' /\ CapacityRespected' /\ NamesResolve' /\ IDsAgree'
  BY DEF MasterInv, tables, MemoryUnused, CapacityRespected, NamesResolve, IDsAgree
<1>2. ChoiceStillFits'
  BY DEF tables, ChoiceStillFits, Matches
<1>3. DeletedStaysDeleted'
  BY DEF MasterInv, tables, DeletedStaysDeleted
<1> QED
  BY <1>1, <1>2, <1>3 DEF MasterInv

\* Every step keeps what is known of the mutex and of pending reports.
LEMMA MutexStep == TypeOK /\ MutexHeld /\ [Next]_vars => MutexHeld'
<1> SUFFICES ASSUME TypeOK, MutexHeld, [Next]_vars PROVE MutexHeld'
  OBVIOUS
<1> USE MasterAssumption DEF TypeOK, MutexHeld
<1>1. ASSUME NEW c \in Caller, CreateVolume(c) PROVE MutexHeld'
  <2>1. calls[c].pc = "idle" /\ calls'[c].pc \in {"idle", "createLock"}
    BY <1>1 DEF CreateVolume, Idle
  <2>2. \A d \in Caller \ {c} : calls'[d] = calls[d]
    BY <1>1 DEF CreateVolume
  <2>3. UNCHANGED mutex
    BY <1>1 DEF CreateVolume
  <2> QED
    BY <2>1, <2>2, <2>3
<1>2. ASSUME NEW c \in Caller, CreateVolumeFinds(c) PROVE MutexHeld'
  BY <1>2 DEF CreateVolumeFinds
<1>3. ASSUME NEW c \in Caller, CreateVolumeFindsNothing(c) PROVE MutexHeld'
  BY <1>3 DEF CreateVolumeFindsNothing, Idle
<1>4. ASSUME NEW c \in Caller, CreateVolumeSucceeds(c) PROVE MutexHeld'
  BY <1>4 DEF CreateVolumeSucceeds, Idle
<1>5. ASSUME NEW c \in Caller, CreateVolumeFails(c) PROVE MutexHeld'
  BY <1>5 DEF CreateVolumeFails, Idle
<1>6. ASSUME NEW c \in Caller, DeleteVolume(c) PROVE MutexHeld'
  <2>1. calls[c].pc = "idle" /\ calls'[c].pc \in {"idle", "deleteLock"}
    BY <1>6 DEF DeleteVolume, Idle
  <2>2. \A d \in Caller \ {c} : calls'[d] = calls[d]
    BY <1>6 DEF DeleteVolume
  <2>3. UNCHANGED mutex
    BY <1>6 DEF DeleteVolume
  <2> QED
    BY <2>1, <2>2, <2>3
<1>7. ASSUME NEW c \in Caller, DeleteVolumeForgets(c) PROVE MutexHeld'
  <2>1. CASE mutex' = mutex /\ calls' = [calls EXCEPT ![c] = Idle("Internal")]
    BY <1>7, <2>1 DEF DeleteVolumeForgets, Idle
  <2>2. CASE mutex' = c /\ calls' = [calls EXCEPT ![c].pc = "delete"]
    <3>1. calls'[c].pc = "delete" /\ \A d \in Caller \ {c} : calls'[d] = calls[d]
      BY <2>2, <1>7, CallFields DEF DeleteVolumeForgets, Call
    <3> QED
      BY <1>7, <2>2, <3>1 DEF DeleteVolumeForgets
  <2> QED
    BY <1>7, <2>1, <2>2 DEF DeleteVolumeForgets
<1>8. ASSUME NEW c \in Caller, DeleteVolumeReturns(c) PROVE MutexHeld'
  BY <1>8 DEF DeleteVolumeReturns, Idle
<1>9. CASE \E n \in Node : OnNodeAdded(n) \/ OnNodeAddedUpdate(n) \/ OnNodeDeleted(n)
  BY <1>9 DEF OnNodeAdded, OnNodeAddedUpdate, OnNodeDeleted
<1>10. CASE Restart
  BY <1>10 DEF Restart, Idle
<1>11. CASE UNCHANGED vars
  BY <1>11 DEF vars
<1> QED
  BY <1>1, <1>2, <1>3, <1>4, <1>5, <1>6, <1>7, <1>8, <1>9, <1>10, <1>11
     DEF Next, CreateVolumeLocks, CreateVolumeReturns

LEMMA ReportPendingStep == TypeOK /\ ReportPending /\ [Next]_vars => ReportPending'
<1> SUFFICES ASSUME TypeOK, ReportPending, [Next]_vars PROVE ReportPending'
  OBVIOUS
<1> USE DEF TypeOK, ReportPending
<1>1. ASSUME NEW n \in Node, OnNodeAdded(n) PROVE ReportPending'
  BY <1>1 DEF OnNodeAdded
<1>2. ASSUME NEW n \in Node, OnNodeAddedUpdate(n) PROVE ReportPending'
  BY <1>2 DEF OnNodeAddedUpdate
<1>3. CASE Restart
  BY <1>3 DEF Restart
<1>4. CASE UNCHANGED <<listing, reports>>
  BY <1>4
<1>5. CASE \E c \in Caller :
           \/ CreateVolume(c) \/ CreateVolumeLocks(c) \/ CreateVolumeReturns(c)
           \/ DeleteVolume(c) \/ DeleteVolumeForgets(c) \/ DeleteVolumeReturns(c)
  BY <1>5, <1>4 DEF CreateVolumeLocks, CreateVolumeReturns, CreateVolume, CreateVolumeFinds,
     CreateVolumeFindsNothing, CreateVolumeSucceeds, CreateVolumeFails,
     DeleteVolume, DeleteVolumeForgets, DeleteVolumeReturns
<1>6. ASSUME NEW n \in Node, OnNodeDeleted(n) PROVE ReportPending'
  BY <1>6 DEF OnNodeDeleted
<1> QED
  BY <1>1, <1>2, <1>3, <1>4, <1>5, <1>6 DEF Next, vars

\* A volume is charged: the device had room for it when it was chosen, and has
\* it still.
LEMMA ChargeStep ==
    ASSUME MasterInv, TypeOK', MutexHeld', ReportPending',
           NEW c \in Caller, CreateVolumeSucceeds(c)
    PROVE  MasterInv'
<1> DEFINE v      == calls[c].volume
           a      == calls[c].device
           params == calls[c].request.params
<1> USE DEF MasterInv
<1>1. /\ v \in Volume /\ a \in Address
      /\ params \in ParamMap /\ params # Absent
  BY ChargeEffect
<1>2. /\ devices'[a].Parameters = devices[a].Parameters
      /\ devices'[a].Volumes = [devices[a].Volumes EXCEPT ![v] = params]
      /\ devices'[a].Volumes[v] = params
  BY ChargeEffect
<1>3. \A w \in Volume \ {v} : devices'[a].Volumes[w] = devices[a].Volumes[w]
  <2> TAKE w \in Volume \ {v}
  <2> QED
    BY ChargeEffect
<1>4. \A b \in Address \ {a} : devices'[b] = devices[b]
  <2> TAKE b \in Address \ {a}
  <2> QED
    BY ChargeEffect
<1>0. v = calls[c].volume /\ a = calls[c].device /\ params = calls[c].request.params
  OBVIOUS
<1> HIDE DEF v, a, params
<1>5. /\ devicesByVolumeName' = [devicesByVolumeName EXCEPT ![v] = a]
      /\ calls' = [calls EXCEPT ![c] = Idle("OK")]
      /\ UNCHANGED <<devicesByIDs, devicesByNodes, listing, reports>>
  BY <1>0 DEF CreateVolumeSucceeds
<1>6. mutex = c /\ calls[c].pc = "create"
  BY DEF CreateVolumeSucceeds, MutexHeld
<1>7. \A d \in Caller : calls'[d].pc \notin {"create", "delete"}
  BY <1>5, <1>6, NoOtherWaits DEF Idle, TypeOK
<1>8. Matches(calls[c].request, a, "OK")
  BY <1>0, <1>6 DEF ChoiceStillFits
<1>9. devices \in [Address -> DeviceInfo] /\ devicesByVolumeName \in [Volume -> Address \cup {Absent}]
  BY DEF TypeOK
<1>10. CapacityRespected'
  <2>1. WithinCapacity(devices'[a].Parameters, devices'[a].Volumes)
    <3>1. Match(devices[a].Parameters, devices[a].Volumes, params) = "OK"
      BY <1>0, <1>8 DEF Matches
    <3>2. WithinCapacity(devices[a].Parameters, devices[a].Volumes)
      BY <1>1 DEF CapacityRespected
    <3>3. WithinCapacity(devices[a].Parameters, [devices[a].Volumes EXCEPT ![v] = params])
      <4>1. /\ devices[a].Parameters \in DeviceParams \cup {NoDevice.Parameters}
            /\ devices[a].Volumes \in VolumeMap
        BY <1>1, <1>9 DEF DeviceInfo
      <4> QED
        BY <3>1, <3>2, <4>1, <1>1, ChargeKeepsCapacity
    <3> QED
      BY <3>3, <1>2
  <2> QED
    BY <2>1, <1>4 DEF CapacityRespected
<1>11. MemoryUnused'
  <2>1. Match(devices[a].Parameters, devices[a].Volumes, params) = "OK"
    BY <1>0, <1>8 DEF Matches
  <2>2. devices[a] # NoDevice
    BY <2>1, <1>1, NoDeviceNeverMatches
  <2>3. a.report <= reports[a.ID.node]
    <3>1. a.report \in Int /\ reports[a.ID.node] \in Int
      BY <1>1, MasterAssumption DEF Address, DeviceID, TypeOK
    <3> QED
      BY <2>2, <3>1, <1>1 DEF MemoryUnused
  <2>4. \A b \in Address : b.report > reports[b.ID.node] => b # a
    <3>1. a.report \in Int /\ reports[a.ID.node] \in Int
      BY <1>1, MasterAssumption DEF Address, DeviceID, TypeOK
    <3> QED
      BY <2>3, <3>1
  <2> QED
    BY <2>4, <1>4, <1>5 DEF MemoryUnused
<1>12. ChoiceStillFits' /\ DeletedStaysDeleted'
  BY <1>7 DEF ChoiceStillFits, DeletedStaysDeleted
<1>13. NamesResolve'
  <2> SUFFICES ASSUME NEW w \in Volume, devicesByVolumeName'[w] # Absent
               PROVE  devices'[devicesByVolumeName'[w]].Volumes[w] # Absent
    BY DEF NamesResolve
  <2>1. CASE w = v
    BY <2>1, <1>1, <1>2, <1>5, <1>9
  <2>2. CASE w # v
    <3>1. devicesByVolumeName'[w] = devicesByVolumeName[w]
      BY <2>2, <1>5, <1>9
    <3>2. devicesByVolumeName[w] \in Address
      BY <3>1, <1>9
    <3>3. devices[devicesByVolumeName[w]].Volumes[w] # Absent
      BY <3>1 DEF NamesResolve
    <3> QED
      BY <2>2, <3>1, <3>2, <3>3, <1>3, <1>4
  <2> QED
    BY <2>1, <2>2
<1>14. IDsAgree'
  BY <1>5 DEF IDsAgree
<1> QED
  BY <1>10, <1>11, <1>12, <1>13, <1>14

\* A volume is forgotten.
LEMMA ReleaseStep ==
    ASSUME MasterInv, TypeOK', MutexHeld', ReportPending',
           NEW c \in Caller, DeleteVolumeForgets(c)
    PROVE  MasterInv'
<1> DEFINE v == calls[c].volume
           a == calls[c].device
<1> USE DEF MasterInv
<1>1. v \in Volume /\ a \in Address
  BY ReleaseEffect
<1>2. /\ devices'[a].Parameters = devices[a].Parameters
      /\ devices'[a].Volumes = [devices[a].Volumes EXCEPT ![v] = Absent]
      /\ devices'[a].Volumes[v] = Absent
  BY ReleaseEffect
<1>3. \A w \in Volume \ {v} : devices'[a].Volumes[w] = devices[a].Volumes[w]
  BY ReleaseEffect
<1>4. \A b \in Address \ {a} : devices'[b] = devices[b]
  BY ReleaseEffect
<1>5. /\ devicesByVolumeName' = [devicesByVolumeName EXCEPT ![v] = Absent]
      /\ UNCHANGED <<devicesByIDs, devicesByNodes, listing, reports>>
      /\ mutex = Free
      /\ calls[c].pc = "deleteLock"
  BY DEF DeleteVolumeForgets
<1>6. devices \in [Address -> DeviceInfo] /\ devicesByVolumeName \in [Volume -> Address \cup {Absent}]
  BY DEF TypeOK
<1>7. \A d \in Caller \ {c} : calls'[d] = calls[d] /\ calls'[d].pc \notin {"create", "delete"}
  <2>1. \A d \in Caller \ {c} : calls'[d] = calls[d]
    BY DEF DeleteVolumeForgets, TypeOK
  <2> QED
    BY <2>1, <1>5, NoOtherWaits
<1>8. calls'[c].pc # "create"
      /\ (calls'[c].pc = "delete" => calls'[c].volume = v /\ calls'[c].device = a)
  <2>1. CASE calls' = [calls EXCEPT ![c] = Idle("Internal")]
    BY <2>1 DEF Idle, TypeOK
  <2>2. CASE calls' = [calls EXCEPT ![c].pc = "delete"]
    BY <2>2, <1>5 DEF TypeOK, Call
  <2> QED
    BY <2>1, <2>2 DEF DeleteVolumeForgets
<1> HIDE DEF v, a
<1>9. CapacityRespected'
  <2>1. WithinCapacity(devices[a].Parameters, devices[a].Volumes)
    BY <1>1 DEF CapacityRespected
  <2>2. WithinCapacity(devices[a].Parameters, [devices[a].Volumes EXCEPT ![v] = Absent])
    <3>1. /\ devices[a].Parameters \in DeviceParams \cup {NoDevice.Parameters}
          /\ devices[a].Volumes \in VolumeMap
      BY <1>1, <1>6 DEF DeviceInfo
    <3> QED
      BY <2>1, <3>1, <1>1, ReleaseKeepsCapacity
  <2>3. WithinCapacity(devices'[a].Parameters, devices'[a].Volumes)
    BY <2>2, <1>2
  <2> QED
    BY <2>3, <1>4 DEF CapacityRespected
<1>10. MemoryUnused'
  <2>1. devices[a] = NoDevice => devices'[a] = NoDevice
    <3>1. devices'[a] \in DeviceInfo
      BY <1>1 DEF TypeOK
    <3>2. devices'[a] = [Parameters |-> devices'[a].Parameters, Volumes |-> devices'[a].Volumes]
      BY <3>1 DEF DeviceInfo
    <3>3. devices[a] = NoDevice => devices'[a].Parameters = NoDevice.Parameters
                                   /\ devices'[a].Volumes = NoVolumes
      BY <1>1, <1>2, NothingToRelease DEF NoDevice
    <3>4. NoDevice = [Parameters |-> NoDevice.Parameters, Volumes |-> NoVolumes]
      BY DEF NoDevice
    <3> QED
      BY <3>2, <3>3, <3>4
  <2>2. \A b \in Address : devices[b] = NoDevice => devices'[b] = NoDevice
    BY <2>1, <1>4
  <2> QED
    BY <2>2, <1>5 DEF MemoryUnused
<1>11. ChoiceStillFits'
  BY <1>7, <1>8 DEF ChoiceStillFits
<1>12. NamesResolve'
  <2> SUFFICES ASSUME NEW w \in Volume, devicesByVolumeName'[w] # Absent
               PROVE  devices'[devicesByVolumeName'[w]].Volumes[w] # Absent
    BY DEF NamesResolve
  <2>1. w # v /\ devicesByVolumeName'[w] = devicesByVolumeName[w]
    BY <1>1, <1>5, <1>6
  <2>2. devicesByVolumeName[w] \in Address
    BY <2>1, <1>6
  <2>3. devices[devicesByVolumeName[w]].Volumes[w] # Absent
    BY <2>1 DEF NamesResolve
  <2> QED
    BY <2>1, <2>2, <2>3, <1>3, <1>4
<1>13. IDsAgree'
  BY <1>5 DEF IDsAgree
<1>14. DeletedStaysDeleted'
  <2>1. devicesByVolumeName'[v] = Absent /\ devices'[a].Volumes[v] = Absent
    BY <1>1, <1>2, <1>5, <1>6
  <2> QED
    BY <2>1, <1>7, <1>8 DEF DeletedStaysDeleted
<1> QED
  BY <1>9, <1>10, <1>11, <1>12, <1>13, <1>14

\* The memory of a volume that is charged was allocated for an earlier report.
LEMMA ChargedIsInUse ==
    ASSUME TypeOK, MemoryUnused, NEW a \in Address, NEW v \in Volume,
           devices[a].Volumes[v] # Absent
    PROVE  a.report <= reports[a.ID.node]
<1>1. devices[a] # NoDevice
  BY DEF NoDevice, NoVolumes
<1>2. a.report \in Int /\ reports[a.ID.node] \in Int
  BY MasterAssumption DEF Address, DeviceID, TypeOK
<1> QED
  BY <1>1, <1>2 DEF MemoryUnused

\* A report is taken over: new addresses come into use, and the indexes of the
\* node lead to them.
LEMMA UpdateStep ==
    ASSUME MasterInv, TypeOK', MutexHeld', ReportPending',
           NEW n \in Node, OnNodeAddedUpdate(n)
    PROVE  MasterInv'
<1> USE DEF MasterInv
<1>1. /\ listing[n] # Absent /\ listing[n] \in Report
      /\ mutex = Free
      /\ UNCHANGED <<devicesByVolumeName, mutex, calls>>
  BY DEF OnNodeAddedUpdate, TypeOK
<1>2. \A a \in Fresh(n) :
          /\ a \in Address
          /\ a.ID \in DeviceID /\ a.ID.node = n
          /\ a = [ID |-> a.ID, report |-> reports[n] + 1]
          /\ a.report > reports[a.ID.node]
          /\ a.ID.index \in DOMAIN listing[n]
  BY <1>1, FreshAddresses
<1>3. \A a \in Address \ Fresh(n) : devices'[a] = devices[a]
  BY DEF OnNodeAddedUpdate
<1>4. \A a \in Fresh(n) :
          /\ devices'[a].Parameters \in DeviceParams
          /\ devices'[a].Volumes = NoVolumes
  BY <1>1, <1>2, ReportFields DEF OnNodeAddedUpdate
<1>5. /\ reports'[n] = reports[n] + 1
      /\ \A m \in Node \ {n} : reports'[m] = reports[m]
      /\ \A m \in Node : reports[m] \in Int
  BY MasterAssumption DEF OnNodeAddedUpdate, TypeOK
<1>6. \A c \in Caller : calls[c].pc \notin {"create", "delete"}
  BY <1>1, MasterAssumption DEF MutexHeld
<1>7. CapacityRespected'
  BY <1>3, <1>4, EmptyWithinCapacity DEF CapacityRespected
<1>8. MemoryUnused'
  <2> SUFFICES ASSUME NEW a \in Address, a.report > reports'[a.ID.node]
               PROVE  devices'[a] = NoDevice
    BY DEF MemoryUnused
  <2>1. a.ID.node \in Node /\ a.report \in Int
    BY DEF Address, DeviceID
  <2>2. a.report > reports[a.ID.node]
    BY <2>1, <1>5
  <2>3. a \notin Fresh(n)
    <3>1. a \in Fresh(n) => a.report = reports[n] + 1 /\ a.ID.node = n
      BY <1>2
    <3> QED
      BY <3>1, <2>1, <1>5
  <2> QED
    BY <2>2, <2>3, <1>3 DEF MemoryUnused
<1>9. ChoiceStillFits' /\ DeletedStaysDeleted'
  BY <1>1, <1>6 DEF ChoiceStillFits, DeletedStaysDeleted
<1>10. NamesResolve'
  <2> SUFFICES ASSUME NEW v \in Volume, devicesByVolumeName[v] # Absent
               PROVE  devices'[devicesByVolumeName[v]].Volumes[v] # Absent
    BY <1>1 DEF NamesResolve
  <2> DEFINE a == devicesByVolumeName[v]
  <2>1. a \in Address /\ devices[a].Volumes[v] # Absent
    BY DEF NamesResolve, TypeOK
  <2>2. a.report <= reports[a.ID.node]
    BY <2>1, ChargedIsInUse
  <2>3. a \notin Fresh(n)
    <3>1. a.report \in Int /\ reports[a.ID.node] \in Int
      BY <2>1, <1>5 DEF Address, DeviceID
    <3> QED
      BY <2>2, <3>1, <1>2
  <2> QED
    BY <2>1, <2>3, <1>3
<1>11. IDsAgree'
  <2>1. ASSUME NEW a \in Fresh(n)
        PROVE  devicesByIDs'[a.ID] = a /\ a.ID.node = n
    BY <1>2 DEF OnNodeAddedUpdate
  <2>2. ASSUME NEW m \in Node \ {n}, NEW a \in devicesByNodes[m]
        PROVE  devicesByIDs'[a.ID] = a /\ a.ID.node = m
    <3>1. a \in Address /\ a.ID \in DeviceID
      BY DEF TypeOK, Address
    <3>2. devicesByIDs[a.ID] = a /\ a.ID.node = m
      BY DEF IDsAgree
    <3>3. \A b \in Fresh(n) \cup devicesByNodes[n] : b.ID.node = n
      BY <1>2 DEF IDsAgree
    <3>4. \A b \in Fresh(n) \cup devicesByNodes[n] : b.ID # a.ID
      BY <3>2, <3>3
    <3> QED
      BY <3>1, <3>2, <3>4 DEF OnNodeAddedUpdate
  <2>3. /\ devicesByNodes'[n] = Fresh(n)
        /\ \A m \in Node \ {n} : devicesByNodes'[m] = devicesByNodes[m]
    BY DEF OnNodeAddedUpdate, TypeOK
  <2> QED
    BY <2>1, <2>2, <2>3 DEF IDsAgree
<1> QED
  BY <1>7, <1>8, <1>9, <1>10, <1>11

LEMMA MasterStep == MasterInv /\ [Next]_vars => MasterInv'
<1> SUFFICES ASSUME MasterInv, [Next]_vars
             PROVE  MasterInv'
  OBVIOUS
<1>0. TypeOK' /\ MutexHeld' /\ ReportPending'
  BY TypeStep, MutexStep, ReportPendingStep DEF MasterInv
<1>1. TypeOK /\ MutexHeld /\ ChoiceStillFits
  BY DEF MasterInv
<1>2. ASSUME NEW c \in Caller, CreateVolume(c)
      PROVE  MasterInv'
  <2>1. \A d \in Caller \ {c} : calls'[d] = calls[d]
    BY <1>1, <1>2 DEF CreateVolume, TypeOK
  <2>2. calls'[c].pc \in {"idle", "createLock"}
    BY <1>1, <1>2 DEF CreateVolume, TypeOK, Idle
  <2> QED
    BY <1>0, <1>1, <1>2, <2>1, <2>2, QuietStep DEF CreateVolume, ChoiceStillFits
<1>3. ASSUME NEW c \in Caller, CreateVolumeFinds(c)
      PROVE  MasterInv'
  <2>1. \A d \in Caller \ {c} :
            calls'[d] = calls[d] /\ calls'[d].pc \notin {"create", "delete"}
    BY <1>1, <1>3, NoOtherWaits DEF CreateVolumeFinds, TypeOK
  <2>2. /\ calls'[c].pc = "create"
        /\ Matches(calls'[c].request, calls'[c].device, "OK")
    BY <1>1, <1>3, CallFields, FoundMatches DEF CreateVolumeFinds, TypeOK
  <2> QED
    BY <1>0, <1>3, <2>1, <2>2, QuietStep DEF CreateVolumeFinds
<1>4. ASSUME NEW c \in Caller, CreateVolumeFindsNothing(c)
      PROVE  MasterInv'
  <2>1. \A d \in Caller \ {c} : calls'[d] = calls[d]
    BY <1>1, <1>4 DEF CreateVolumeFindsNothing, TypeOK
  <2>2. calls'[c].pc = "idle"
    BY <1>1, <1>4 DEF CreateVolumeFindsNothing, TypeOK, Idle
  <2> QED
    BY <1>0, <1>1, <1>4, <2>1, <2>2, QuietStep
       DEF CreateVolumeFindsNothing, ChoiceStillFits
<1>5. ASSUME NEW c \in Caller, CreateVolumeSucceeds(c)
      PROVE  MasterInv'
  BY <1>0, <1>5, ChargeStep
<1>6. ASSUME NEW c \in Caller, CreateVolumeFails(c)
      PROVE  MasterInv'
  <2>1. \A d \in Caller \ {c} : calls'[d] = calls[d]
    BY <1>1, <1>6 DEF CreateVolumeFails, TypeOK
  <2>2. calls'[c].pc = "idle"
    BY <1>1, <1>6 DEF CreateVolumeFails, TypeOK, Idle
  <2> QED
    BY <1>0, <1>1, <1>6, <2>1, <2>2, QuietStep DEF CreateVolumeFails, ChoiceStillFits
<1>7. ASSUME NEW c \in Caller, DeleteVolume(c)
      PROVE  MasterInv'
  <2>1. \A d \in Caller \ {c} : calls'[d] = calls[d]
    BY <1>1, <1>7 DEF DeleteVolume, TypeOK
  <2>2. calls'[c].pc \in {"idle", "deleteLock"}
    BY <1>1, <1>7 DEF DeleteVolume, TypeOK, Idle
  <2> QED
    BY <1>0, <1>1, <1>7, <2>1, <2>2, QuietStep DEF DeleteVolume, ChoiceStillFits
<1>8. ASSUME NEW c \in Caller, DeleteVolumeForgets(c)
      PROVE  MasterInv'
  BY <1>0, <1>8, ReleaseStep
<1>9. ASSUME NEW c \in Caller, DeleteVolumeReturns(c)
      PROVE  MasterInv'
  <2>1. \A d \in Caller \ {c} : calls'[d] = calls[d]
    BY <1>1, <1>9 DEF DeleteVolumeReturns, TypeOK
  <2>2. calls'[c].pc = "idle"
    BY <1>1, <1>9 DEF DeleteVolumeReturns, TypeOK, Idle
  <2> QED
    BY <1>0, <1>1, <1>9, <2>1, <2>2, QuietStep DEF DeleteVolumeReturns, ChoiceStillFits
<1>10. ASSUME NEW n \in Node, OnNodeAdded(n)
       PROVE  MasterInv'
  BY <1>0, <1>1, <1>10, QuietStep DEF OnNodeAdded, ChoiceStillFits
<1>11. ASSUME NEW n \in Node, OnNodeAddedUpdate(n)
       PROVE  MasterInv'
  BY <1>0, <1>11, UpdateStep
<1>12. ASSUME NEW n \in Node, OnNodeDeleted(n)
       PROVE  MasterInv'
  <2>1. MemoryUnused' /\ CapacityRespected' /\ NamesResolve' /\ DeletedStaysDeleted'
    BY <1>12 DEF MasterInv, OnNodeDeleted, MemoryUnused, CapacityRespected,
       NamesResolve, DeletedStaysDeleted
  <2>2. ChoiceStillFits'
    BY <1>1, <1>12 DEF OnNodeDeleted, ChoiceStillFits, Matches
  <2>3. IDsAgree'
    BY <1>12 DEF MasterInv, OnNodeDeleted, IDsAgree, TypeOK
  <2> QED
    BY <1>0, <2>1, <2>2, <2>3 DEF MasterInv
<1>13. CASE Restart
  <2>1. MemoryUnused' /\ CapacityRespected'
    BY <1>13, NoDeviceCapacity DEF Restart, MemoryUnused, CapacityRespected
  <2>2. ChoiceStillFits' /\ DeletedStaysDeleted'
    BY <1>13 DEF Restart, ChoiceStillFits, DeletedStaysDeleted, Idle
  <2>3. NamesResolve' /\ IDsAgree'
    BY <1>13 DEF Restart, NamesResolve, IDsAgree
  <2> QED
    BY <1>0, <2>1, <2>2, <2>3 DEF MasterInv
<1>14. CASE UNCHANGED vars
  BY <1>0, <1>1, <1>14, QuietStep DEF vars, tables, ChoiceStillFits
<1> QED
  BY <1>2, <1>3, <1>4, <1>5, <1>6, <1>7, <1>8, <1>9, <1>10, <1>11, <1>12, <1>13, <1>14
     DEF Next, CreateVolumeLocks, CreateVolumeReturns

-----------------------------------------------------------------------------
(***************************************************************************)
(* MasterInv holds in every reachable state, and with it each of its parts *)
(* that says something of the system.                                      *)
(***************************************************************************)
THEOREM MasterInvariant == Spec => []MasterInv
  BY MasterInit, MasterStep, PTL DEF Spec

\* Every variable of the controller has its type.
THEOREM MasterTyping == Spec => []TypeOK
<1>1. MasterInv => TypeOK
  BY DEF MasterInv
<1> QED
  BY <1>1, MasterInvariant, PTL

\* No device the controller knows is charged with more than it has.
THEOREM CapacityHolds == Spec => []CapacityRespected
<1>1. MasterInv => CapacityRespected
  BY DEF MasterInv
<1> QED
  BY <1>1, MasterInvariant, PTL

\* A chosen device still matches when the node has answered.
THEOREM ChoiceHolds == Spec => []ChoiceStillFits
<1>1. MasterInv => ChoiceStillFits
  BY DEF MasterInv
<1> QED
  BY <1>1, MasterInvariant, PTL

\* A remembered volume is charged where it is remembered to be.
THEOREM NamesHold == Spec => []NamesResolve
<1>1. MasterInv => NamesResolve
  BY DEF MasterInv
<1> QED
  BY <1>1, MasterInvariant, PTL

\* The two indexes of the listed devices agree.
THEOREM IDsHold == Spec => []IDsAgree
<1>1. MasterInv => IDsAgree
  BY DEF MasterInv
<1> QED
  BY <1>1, MasterInvariant, PTL

\* A volume stays forgotten until the node has answered DeleteVolume.
THEOREM DeletedHolds == Spec => []DeletedStaysDeleted
<1>1. MasterInv => DeletedStaysDeleted
  BY DEF MasterInv
<1> QED
  BY <1>1, MasterInvariant, PTL

-----------------------------------------------------------------------------
(***************************************************************************)
(* ResourceExhausted sends a caller to nodes where something is charged.   *)
(***************************************************************************)
THEOREM ExhaustedHolds == Spec => ExhaustedMeansCharged
<1> DEFINE Charged(c) ==
        \E n \in Node : \E a \in devicesByNodes[n] :
            /\ \E i \in DOMAIN calls[c].request.preferred :
                   calls[c].request.preferred[i] = n
            /\ \E v \in Volume : devices[a].Volumes[v] # Absent
<1>1. ASSUME TypeOK, NEW c \in Caller, CreateVolumeFindsNothing(c),
             calls'[c].code = "ResourceExhausted"
      PROVE  Charged(c)
  <2> DEFINE request == calls[c].request
  <2>1. request \in Request
    BY <1>1, CallFields DEF CreateVolumeFindsNothing, TypeOK
  <2>2. notFoundCode(request) = "ResourceExhausted"
    BY <1>1 DEF CreateVolumeFindsNothing, Idle, TypeOK
  <2>3. PICK i \in DOMAIN request.preferred :
            request.preferred[i] \in NodesOf(Exhausted(request))
    BY <2>2 DEF notFoundCode
  <2>4. PICK na \in Exhausted(request) : request.preferred[i] = na[1]
    BY <2>3 DEF NodesOf
  <2>5. /\ na[1] \in Node /\ na[2] \in Address /\ na[2] \in devicesByNodes[na[1]]
        /\ Matches(request, na[2], "ResourceExhausted")
    BY <2>4 DEF Exhausted, NodeDevices
  <2>6. \E v \in Volume : devices[na[2]].Volumes[v] # Absent
    <3>1. /\ devices[na[2]].Parameters \in DeviceParams \cup {NoDevice.Parameters}
          /\ devices[na[2]].Volumes \in VolumeMap
      BY <1>1, <2>5 DEF TypeOK, DeviceInfo
    <3>2. request.params \in ParamMap
      BY <2>1, RequestParams
    <3> QED
      BY <2>5, <3>1, <3>2, ExhaustedMeansCounted DEF Matches, Counted
  <2> QED
    BY <2>3, <2>4, <2>5, <2>6
<1>2. TypeOK /\ [Next]_vars =>
          [\A c \in Caller :
              (CreateVolumeFindsNothing(c) /\ calls'[c].code = "ResourceExhausted")
              => Charged(c)]_vars
  BY <1>1
<1> QED
  BY <1>2, MasterTyping, PTL DEF Spec, ExhaustedMeansCharged

(***************************************************************************)
(* NotFound means that waiting would not help on any node asked for: a     *)
(* device there that would match if it were unused matches now, and then   *)
(* it was found, or waits for room, and then the code is another.          *)
(***************************************************************************)
THEOREM NotFoundHolds == Spec => NotFoundMeansNoneFits
<1> DEFINE NoneFits(c) ==
        \A i \in DOMAIN calls[c].request.preferred :
            \A a \in devicesByNodes[calls[c].request.preferred[i]] :
                Match(devices[a].Parameters, NoVolumes,
                      calls[c].request.params) # "OK"
<1>1. ASSUME TypeOK, NEW c \in Caller, CreateVolumeFindsNothing(c),
             calls'[c].code = "NotFound"
      PROVE  NoneFits(c)
  <2> DEFINE request == calls[c].request
  <2>1. request \in Request
    BY <1>1, CallFields DEF CreateVolumeFindsNothing, TypeOK
  <2>2. notFoundCode(request) = "NotFound" /\ findDevice(request) = {}
    BY <1>1 DEF CreateVolumeFindsNothing, Idle, TypeOK
  <2> SUFFICES ASSUME NEW i \in DOMAIN request.preferred,
                      NEW a \in devicesByNodes[request.preferred[i]],
                      Match(devices[a].Parameters, NoVolumes, request.params) = "OK"
               PROVE  FALSE
    OBVIOUS
  <2> DEFINE n == request.preferred[i]
  <2>3. n \in Node /\ request.params \in ParamMap
    BY <2>1, MasterAssumption
  <2>4. /\ a \in Address /\ <<n, a>> \in NodeDevices
        /\ devices[a].Parameters \in DeviceParams \cup {NoDevice.Parameters}
        /\ devices[a].Volumes \in VolumeMap
    BY <1>1, <2>3 DEF TypeOK, DeviceInfo, NodeDevices
  <2>5. \/ Matches(request, a, "OK")
        \/ Matches(request, a, "ResourceExhausted")
    BY <2>3, <2>4, UnusedMatchMeansRoom DEF Matches
  <2>6. CASE Matches(request, a, "OK")
    <3>1. <<n, a>> \in Chosen(request)
      BY <2>4, <2>6 DEF Chosen
    <3> QED
      BY <2>1, <2>2, <3>1, FoundNothing
  <2>7. CASE Matches(request, a, "ResourceExhausted")
    <3>1. <<n, a>> \in Exhausted(request)
      BY <2>4, <2>7 DEF Exhausted
    <3>2. n \in NodesOf(Exhausted(request))
      BY <3>1 DEF NodesOf
    <3> QED
      BY <2>2, <3>2 DEF notFoundCode
  <2> QED
    BY <2>5, <2>6, <2>7
<1>2. TypeOK /\ [Next]_vars =>
          [\A c \in Caller :
              (CreateVolumeFindsNothing(c) /\ calls'[c].code = "NotFound")
              => NoneFits(c)]_vars
  BY <1>1
<1> QED
  BY <1>2, MasterTyping, PTL DEF Spec, NotFoundMeansNoneFits

-----------------------------------------------------------------------------
(***************************************************************************)
(* The controller implements DeviceLedger.  The operators of DeviceMatch   *)
(* that the abstract specification uses are those of the controller.       *)
(***************************************************************************)
LEMMA MatchSame ==
    ASSUME NEW device, NEW volumes, NEW params
    PROVE  Ledger!Match(device, volumes, params) = Match(device, volumes, params)
<1>1. \A p : Ledger!totalUsedParam(volumes, p) = totalUsedParam(volumes, p)
  BY DEF Ledger!totalUsedParam, totalUsedParam, Ledger!Counted, Counted,
     Ledger!ParsesAsQuantity, ParsesAsQuantity, Ledger!AsInt64, AsInt64,
     Ledger!MapThenSumSet, MapThenSumSet, Ledger!MapThenFoldSet, MapThenFoldSet
<1>2. \A p : Ledger!checkParamFits(device, volumes, params, p)
                 = checkParamFits(device, volumes, params, p)
  BY <1>1 DEF Ledger!checkParamFits, checkParamFits, Ledger!ParsesAsQuantity,
     ParsesAsQuantity, Ledger!AsInt64, AsInt64
<1>3. \A p, q : Ledger!checkBoth(device, params, p, q) = checkBoth(device, params, p, q)
  BY DEF checkBoth, Ledger!checkBoth, checkParam, Ledger!checkParam
<1> QED
  BY <1>2, <1>3 DEF Match, Ledger!Match, gpuCheckParams, Ledger!gpuCheckParams,
     fpgaCheckParams, Ledger!fpgaCheckParams

LEMMA ConstantsSame ==
    /\ Ledger!NoVolumes = NoVolumes
    /\ Ledger!NoDevice = NoDevice
    /\ Ledger!DeviceParams = DeviceParams
<1>1. Ledger!NoVolumes = NoVolumes
  BY DEF Ledger!NoVolumes, NoVolumes
<1>2. Ledger!ParamName = ParamName
  BY DEF Ledger!ParamName, ParamName
<1>3. Ledger!NoDevice = NoDevice
  BY <1>1, <1>2 DEF Ledger!NoDevice, NoDevice
<1>4. Ledger!GpuDevice = GpuDevice
  BY <1>2 DEF Ledger!GpuDevice, GpuDevice
<1>5. \A r : Ledger!FpgaDevice(r) = FpgaDevice(r)
  BY <1>2 DEF Ledger!FpgaDevice, FpgaDevice
<1>6. Ledger!DeviceParams = DeviceParams
  BY <1>4, <1>5 DEF Ledger!DeviceParams, DeviceParams
<1> QED
  BY <1>1, <1>3, <1>6

\* A create that succeeds charges a device that matches at that moment.
LEMMA SucceedsCharges ==
    ASSUME MasterInv, NEW c \in Caller, CreateVolumeSucceeds(c)
    PROVE  Ledger!Next
<1> DEFINE v      == calls[c].volume
           a      == calls[c].device
           params == calls[c].request.params
<1>1. /\ v \in Volume /\ a \in Address /\ calls[c].request \in Request
      /\ calls[c].pc = "create"
  BY CallFields DEF MasterInv, TypeOK, CreateVolumeSucceeds
<1>2. params \in {request.params : request \in Request}
  BY <1>1
<1>3. Match(devices[a].Parameters, devices[a].Volumes, params) = "OK"
  BY <1>1 DEF MasterInv, ChoiceStillFits, Matches
<1>4. /\ devices' = [devices EXCEPT ![a].Volumes[v] = params]
      /\ devicesByVolumeName' = [devicesByVolumeName EXCEPT ![v] = a]
  BY DEF CreateVolumeSucceeds
<1> HIDE DEF v, a, params
<1>5. Ledger!Charge(v, a, params)
  BY <1>3, <1>4, MatchSame DEF Ledger!Charge
<1> QED
  BY <1>1, <1>2, <1>5 DEF Ledger!Next

\* A delete that forgets a volume releases it.
LEMMA ForgetsReleases ==
    ASSUME TypeOK, NEW c \in Caller, DeleteVolumeForgets(c)
    PROVE  Ledger!Next
<1> DEFINE v == calls[c].volume
           a == calls[c].device
<1>1. v \in Volume /\ a \in Address
  BY CallFields DEF TypeOK, DeleteVolumeForgets
<1>2. /\ devices' = [devices EXCEPT ![a].Volumes[v] = Absent]
      /\ devicesByVolumeName' = [devicesByVolumeName EXCEPT ![v] = Absent]
  BY DEF DeleteVolumeForgets
<1> HIDE DEF v, a
<1>3. Ledger!Release(v, a)
  BY <1>2 DEF Ledger!Release
<1> QED
  BY <1>1, <1>3 DEF Ledger!Next

\* A report that is taken over discovers devices at unused addresses.
LEMMA UpdateDiscovers ==
    ASSUME MasterInv, NEW n \in Node, OnNodeAddedUpdate(n)
    PROVE  Ledger!Next
<1> DEFINE reported == [a \in Fresh(n) |-> listing[n][a.ID.index]]
<1> USE DEF MasterInv
<1>1. listing[n] # Absent /\ listing[n] \in Report /\ TypeOK /\ ReportPending
  BY DEF OnNodeAddedUpdate, TypeOK
<1>2. \A a \in Fresh(n) :
          /\ a \in Address
          /\ a.report > reports[a.ID.node]
          /\ a.ID.index \in DOMAIN listing[n]
  BY <1>1, FreshAddresses
<1>3. \A a \in Fresh(n) : devices[a] = Ledger!NoDevice
  BY <1>2, ConstantsSame DEF MemoryUnused
<1>4. reported \in [Fresh(n) -> Ledger!DeviceParams]
  BY <1>1, <1>2, ReportFields, ConstantsSame
<1>5. devices' = [a \in Address |->
          IF a \in Fresh(n)
          THEN [Parameters |-> reported[a], Volumes |-> Ledger!NoVolumes]
          ELSE devices[a]]
  BY ConstantsSame DEF OnNodeAddedUpdate
<1>6. UNCHANGED devicesByVolumeName
  BY DEF OnNodeAddedUpdate
<1> HIDE DEF reported
<1>7. Ledger!Discover(Fresh(n))
  BY <1>3, <1>4, <1>5, <1>6 DEF Ledger!Discover
<1>8. Fresh(n) \in SUBSET Address
  BY <1>2
<1> QED
  BY <1>7, <1>8 DEF Ledger!Next

LEMMA LedgerStep == MasterInv /\ [Next]_vars => [Ledger!Next]_(Ledger!ledgerVars)
<1> SUFFICES ASSUME MasterInv, [Next]_vars
             PROVE  Ledger!Next \/ UNCHANGED <<devices, devicesByVolumeName>>
  BY DEF Ledger!ledgerVars
<1>1. ASSUME NEW c \in Caller, CreateVolumeSucceeds(c) PROVE Ledger!Next
  BY <1>1, SucceedsCharges
<1>2. ASSUME NEW c \in Caller, DeleteVolumeForgets(c) PROVE Ledger!Next
  BY <1>2, ForgetsReleases DEF MasterInv
<1>3. ASSUME NEW n \in Node, OnNodeAddedUpdate(n) PROVE Ledger!Next
  BY <1>3, UpdateDiscovers
<1>4. CASE Restart
  <2>1. Ledger!Reset
    BY <1>4, ConstantsSame DEF Restart, Ledger!Reset
  <2> QED
    BY <2>1 DEF Ledger!Next
<1>5. ASSUME NEW c \in Caller,
             \/ CreateVolume(c) \/ CreateVolumeLocks(c) \/ CreateVolumeFails(c)
             \/ DeleteVolume(c) \/ DeleteVolumeReturns(c)
      PROVE  UNCHANGED <<devices, devicesByVolumeName>>
  BY <1>5 DEF tables, CreateVolume, CreateVolumeLocks, CreateVolumeFinds,
     CreateVolumeFindsNothing, CreateVolumeFails, DeleteVolume, DeleteVolumeReturns
<1>6. ASSUME NEW n \in Node, OnNodeAdded(n) \/ OnNodeDeleted(n)
      PROVE  UNCHANGED <<devices, devicesByVolumeName>>
  BY <1>6 DEF tables, OnNodeAdded, OnNodeDeleted
<1>7. CASE UNCHANGED vars
  BY <1>7 DEF vars
<1> QED
  BY <1>1, <1>2, <1>3, <1>4, <1>5, <1>6, <1>7 DEF Next, CreateVolumeReturns

(***************************************************************************)
(* Every behaviour of the controller is one of DeviceLedger: what is       *)
(* checked when a device is searched still holds when it is charged.       *)
(***************************************************************************)
THEOREM LedgerImplemented == Spec => ImplementsLedger
<1>1. Init => Ledger!Init
  BY ConstantsSame DEF Init, Ledger!Init
<1> QED
  BY <1>1, LedgerStep, MasterInvariant, PTL DEF Spec, ImplementsLedger, Ledger!Spec
=============================================================================
