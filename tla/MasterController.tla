--------------------------- MODULE MasterController ---------------------------
(***************************************************************************)
(* The controller of the driver (pkg/cdi-driver/controllerserver-master):  *)
(* it keeps the devices the nodes reported, chooses one of them for every  *)
(* volume and remembers which volumes are charged to which device.         *)
(*                                                                         *)
(* Several CSI calls and registry callbacks run at once, each in its own   *)
(* goroutine.  A call that talks to a node is split where it waits for the *)
(* mutex and where it waits for the node.  The rest of the system is left  *)
(* open: nodes may come, go and report any devices, and a connection or a  *)
(* node call may fail at any time (a timeout is one of the failures).      *)
(***************************************************************************)
EXTENDS DeviceMatch, Sequences

CONSTANTS
    Node,        \* node identifiers
    MaxDevices,  \* bound: devices of one node
    MaxReports,  \* bound: reports of one node that are taken over
    Caller,      \* goroutines serving CSI calls
    Request,     \* the requests made: [params : ParamMap, preferred : Seq(Node)]
    Free         \* the mutex is not held

(***************************************************************************)
(* A device identifier is "<node>_<index>".  A *DeviceInfo is an address:  *)
(* the identifier and the number of the report that it was allocated for.  *)
(***************************************************************************)
DeviceID == [node : Node, index : 0 .. MaxDevices - 1]

Address == [ID : DeviceID, report : 1 .. MaxReports]

\* What ListVolumes of a node answers: devices numbered from 0.
Report == UNION {[0 .. k - 1 -> DeviceParams] : k \in 0 .. MaxDevices}

ASSUME MasterAssumption ==
    /\ MaxDevices \in Nat /\ MaxReports \in Nat
    /\ Request \subseteq [params : ParamMap, preferred : Seq(Node)]
    /\ Free \notin Caller
    /\ Absent \notin Address /\ Absent \notin Report

VARIABLES
    devices,              \* the DeviceInfo at every address
    devicesByVolumeName,  \* volume |-> address, or Absent
    devicesByIDs,         \* device identifier |-> address, or Absent
    devicesByNodes,       \* node |-> the addresses of its devices
    mutex,                \* the caller that holds the mutex, or Free
    calls,                \* what every caller is doing
    listing,              \* the report OnNodeAdded waits to take over, or Absent
    reports               \* how many reports of a node were taken over

vars == <<devices, devicesByVolumeName, devicesByIDs, devicesByNodes,
          mutex, calls, listing, reports>>

tables == <<devices, devicesByVolumeName, devicesByIDs, devicesByNodes>>

Call ==
    [pc : {"idle"}, code : Code]
      \cup [pc : {"createLock"}, volume : Volume, request : Request]
      \cup [pc : {"create"}, volume : Volume, request : Request, device : Address]
      \cup [pc : {"deleteLock", "delete"}, volume : Volume, device : Address]

Idle(code) == [pc |-> "idle", code |-> code]

-----------------------------------------------------------------------------
NodeDevices == {na \in Node \X Address : na[2] \in devicesByNodes[na[1]]}

Matches(request, a, code) ==
    Match(devices[a].Parameters, devices[a].Volumes, request.params) = code

\* chosenDevices and exhaustedDevices of findDevice, with their node.
Chosen(request) == {na \in NodeDevices : Matches(request, na[2], "OK")}

Exhausted(request) ==
    {na \in NodeDevices : Matches(request, na[2], "ResourceExhausted")}

NodesOf(pairs) == {na[1] : na \in pairs}

(***************************************************************************)
(* findDevice: a matching device on the first node of the topology request *)
(* that has one, or else any matching device.  Maps are walked in random   *)
(* order, so that more than one address is possible.                       *)
(***************************************************************************)
findDevice(request) ==
    LET ranked == {i \in DOMAIN request.preferred :
                      request.preferred[i] \in NodesOf(Chosen(request))}
        first  == CHOOSE i \in ranked : \A j \in ranked : i <= j
        nodes  == IF ranked = {} THEN Node ELSE {request.preferred[first]}
    IN  {na[2] : na \in {c \in Chosen(request) : c[1] \in nodes}}

\* Mutant: any device of a node of the topology request counts as exhausted.
notFoundCodeAny(request) ==
    IF \E i \in DOMAIN request.preferred :
           request.preferred[i] \in NodesOf(NodeDevices)
    THEN "ResourceExhausted"
    ELSE "NotFound"

\* Mutant: only the first node of the topology request is looked at.
notFoundCodeFirst(request) ==
    IF \E i \in DOMAIN request.preferred :
           i = 1 /\ request.preferred[i] \in NodesOf(Exhausted(request))
    THEN "ResourceExhausted"
    ELSE "NotFound"

\* The code findDevice answers when nothing matches.
notFoundCode(request) ==
    IF \E i \in DOMAIN request.preferred :
           request.preferred[i] \in NodesOf(Exhausted(request))
    THEN "ResourceExhausted"
    ELSE "NotFound"

\* findDeviceNode: whether some node lists a device with this identifier.
findDeviceNode(id) == {n \in Node : \E a \in devicesByNodes[n] : a.ID = id}

-----------------------------------------------------------------------------
(***************************************************************************)
(* NewMasterControllerServer: empty maps and no call yet.                  *)
(***************************************************************************)
Init ==
    /\ devices = [a \in Address |-> NoDevice]
    /\ devicesByVolumeName = [v \in Volume |-> Absent]
    /\ devicesByIDs = [id \in DeviceID |-> Absent]
    /\ devicesByNodes = [n \in Node |-> {}]
    /\ mutex = Free
    /\ calls = [c \in Caller |-> Idle("OK")]
    /\ listing = [n \in Node |-> Absent]
    /\ reports = [n \in Node |-> 0]

(***************************************************************************)
(* The process ends, with everything it knew, and is started again.  It    *)
(* also ends when the Go runtime detects the unlocked accesses to the maps *)
(* in DeleteVolume and OnNodeDeleted.                                      *)
(***************************************************************************)
Restart ==
    /\ devices' = [a \in Address |-> NoDevice]
    /\ devicesByVolumeName' = [v \in Volume |-> Absent]
    /\ devicesByIDs' = [id \in DeviceID |-> Absent]
    /\ devicesByNodes' = [n \in Node |-> {}]
    /\ mutex' = Free
    /\ calls' = [c \in Caller |-> Idle("OK")]
    /\ listing' = [n \in Node |-> Absent]
    /\ reports' = [n \in Node |-> 0]

-----------------------------------------------------------------------------
(***************************************************************************)
(* CreateVolume holds the mutex from the search for a device until the     *)
(* node has answered; the volume is charged to the device only then.  A    *)
(* call without capabilities or without a name is refused at once.         *)
(***************************************************************************)
CreateVolume(c) ==
    /\ calls[c].pc = "idle"
    /\ \/ calls' = [calls EXCEPT ![c] = Idle("InvalidArgument")]
       \/ \E v \in Volume, request \in Request :
              calls' = [calls EXCEPT
                  ![c] = [pc |-> "createLock", volume |-> v, request |-> request]]
    /\ UNCHANGED <<tables, mutex, listing, reports>>

\* Mutant: the mutex is held for the search only.
CreateVolumeFindsUnlocks(c) ==
    /\ calls[c].pc = "createLock"
    /\ mutex = Free
    /\ \E a \in findDevice(calls[c].request) :
           calls' = [calls EXCEPT
               ![c] = [pc |-> "create", volume |-> calls[c].volume,
                       request |-> calls[c].request, device |-> a]]
    /\ UNCHANGED <<tables, mutex, listing, reports>>

CreateVolumeFinds(c) ==
    /\ calls[c].pc = "createLock"
    /\ mutex = Free
    /\ mutex' = c
    /\ \E a \in findDevice(calls[c].request) :
           calls' = [calls EXCEPT
               ![c] = [pc |-> "create", volume |-> calls[c].volume,
                       request |-> calls[c].request, device |-> a]]
    /\ UNCHANGED <<tables, listing, reports>>

CreateVolumeFindsNothing(c) ==
    /\ calls[c].pc = "createLock"
    /\ mutex = Free
    /\ findDevice(calls[c].request) = {}
    /\ calls' = [calls EXCEPT ![c] = Idle(notFoundCode(calls[c].request))]
    /\ UNCHANGED <<tables, mutex, listing, reports>>

\* Mutant: the volume is remembered but not charged.
CreateVolumeSucceedsUncharged(c) ==
    /\ calls[c].pc = "create"
    /\ devicesByVolumeName' =
           [devicesByVolumeName EXCEPT ![calls[c].volume] = calls[c].device]
    /\ mutex' = Free
    /\ calls' = [calls EXCEPT ![c] = Idle("OK")]
    /\ UNCHANGED <<devices, devicesByIDs, devicesByNodes, listing, reports>>

CreateVolumeSucceeds(c) ==
    /\ calls[c].pc = "create"
    /\ LET v == calls[c].volume
           a == calls[c].device
       IN  /\ devicesByVolumeName' = [devicesByVolumeName EXCEPT ![v] = a]
           /\ devices' = [devices EXCEPT
                  ![a].Volumes[v] = calls[c].request.params]
    /\ mutex' = Free
    /\ calls' = [calls EXCEPT ![c] = Idle("OK")]
    /\ UNCHANGED <<devicesByIDs, devicesByNodes, listing, reports>>

\* Mutant: the error path does not unlock.
CreateVolumeFailsLocked(c) ==
    /\ calls[c].pc = "create"
    /\ calls' = [calls EXCEPT ![c] = Idle("Internal")]
    /\ UNCHANGED <<tables, mutex, listing, reports>>

\* No connection to the node, or the node's CreateVolume fails or times out.
CreateVolumeFails(c) ==
    /\ calls[c].pc = "create"
    /\ mutex' = Free
    /\ calls' = [calls EXCEPT ![c] = Idle("Internal")]
    /\ UNCHANGED <<tables, listing, reports>>

-----------------------------------------------------------------------------
(***************************************************************************)
(* DeleteVolume reads the device of the volume before it takes the mutex,  *)
(* forgets the volume, and only then looks for the node and calls it.  A   *)
(* call without a name is refused at once.                                 *)
(***************************************************************************)
DeleteVolume(c) ==
    /\ calls[c].pc = "idle"
    /\ \/ calls' = [calls EXCEPT ![c] = Idle("InvalidArgument")]
       \/ \E v \in Volume :
              calls' = [calls EXCEPT ![c] =
                  IF devicesByVolumeName[v] = Absent
                  THEN Idle("OK")
                  ELSE [pc |-> "deleteLock", volume |-> v,
                        device |-> devicesByVolumeName[v]]]
    /\ UNCHANGED <<tables, mutex, listing, reports>>

\* Mutant: the mutex is released before the node is called.
DeleteVolumeForgetsUnlocks(c) ==
    /\ calls[c].pc = "deleteLock"
    /\ mutex = Free
    /\ LET v == calls[c].volume
           a == calls[c].device
       IN  /\ devicesByVolumeName' = [devicesByVolumeName EXCEPT ![v] = Absent]
           /\ devices' = [devices EXCEPT ![a].Volumes[v] = Absent]
           /\ calls' = [calls EXCEPT ![c] =
                  IF findDeviceNode(a.ID) = {}
                  THEN Idle("Internal")
                  ELSE [@ EXCEPT !.pc = "delete"]]
    /\ UNCHANGED <<devicesByIDs, devicesByNodes, mutex, listing, reports>>

DeleteVolumeForgets(c) ==
    /\ calls[c].pc = "deleteLock"
    /\ mutex = Free
    /\ LET v == calls[c].volume
           a == calls[c].device
       IN  /\ devicesByVolumeName' = [devicesByVolumeName EXCEPT ![v] = Absent]
           /\ devices' = [devices EXCEPT ![a].Volumes[v] = Absent]
           /\ \/ /\ findDeviceNode(a.ID) = {}
                 /\ calls' = [calls EXCEPT ![c] = Idle("Internal")]
                 /\ UNCHANGED mutex
              \/ /\ findDeviceNode(a.ID) # {}
                 /\ calls' = [calls EXCEPT ![c].pc = "delete"]
                 /\ mutex' = c
    /\ UNCHANGED <<devicesByIDs, devicesByNodes, listing, reports>>

\* Mutant: the mutex is not released if the node fails.
DeleteVolumeReturnsLocked(c) ==
    /\ calls[c].pc = "delete"
    /\ \/ calls' = [calls EXCEPT ![c] = Idle("OK")] /\ mutex' = Free
       \/ calls' = [calls EXCEPT ![c] = Idle("Internal")] /\ UNCHANGED mutex
    /\ UNCHANGED <<tables, listing, reports>>

\* The node has deleted the volume, cannot be reached, or fails or times out.
DeleteVolumeReturns(c) ==
    /\ calls[c].pc = "delete"
    /\ mutex' = Free
    /\ \E code \in {"OK", "Internal"} :
           calls' = [calls EXCEPT ![c] = Idle(code)]
    /\ UNCHANGED <<tables, listing, reports>>

-----------------------------------------------------------------------------
(***************************************************************************)
(* OnNodeAdded asks the node for its devices and then replaces, under the  *)
(* mutex, what is known about the node.  The registry calls it, and        *)
(* OnNodeDeleted, for one node at a time.                                  *)
(***************************************************************************)
OnNodeAdded(n) ==
    /\ listing[n] = Absent
    /\ reports[n] < MaxReports
    /\ \E report \in Report : listing' = [listing EXCEPT ![n] = report]
    /\ UNCHANGED <<tables, mutex, calls, reports>>

\* The addresses allocated for the report that is taken over.
Fresh(n) ==
    {[ID |-> [node |-> n, index |-> i], report |-> reports[n] + 1] :
        i \in DOMAIN listing[n]}

\* Mutant: what the node had is removed after the report was put in.
OnNodeAddedUpdateSwapped(n) ==
    /\ listing[n] # Absent
    /\ mutex = Free
    /\ devices' = [a \in Address |->
           IF a \in Fresh(n)
           THEN [Parameters |-> listing[n][a.ID.index], Volumes |-> NoVolumes]
           ELSE devices[a]]
    /\ devicesByIDs' = [id \in DeviceID |->
           IF \E a \in devicesByNodes[n] : a.ID = id
           THEN Absent
           ELSE IF \E a \in Fresh(n) : a.ID = id
                THEN [ID |-> id, report |-> reports[n] + 1]
                ELSE devicesByIDs[id]]
    /\ devicesByNodes' = [devicesByNodes EXCEPT ![n] = Fresh(n)]
    /\ reports' = [reports EXCEPT ![n] = @ + 1]
    /\ listing' = [listing EXCEPT ![n] = Absent]
    /\ UNCHANGED <<devicesByVolumeName, mutex, calls>>

\* Mutant: every entry is given the parameters of the first one.
OnNodeAddedUpdateFirst(n) ==
    /\ listing[n] # Absent
    /\ mutex = Free
    /\ devices' = [a \in Address |->
           IF a \in Fresh(n)
           THEN [Parameters |-> listing[n][0], Volumes |-> NoVolumes]
           ELSE devices[a]]
    /\ devicesByIDs' = [id \in DeviceID |->
           IF \E a \in Fresh(n) : a.ID = id
           THEN [ID |-> id, report |-> reports[n] + 1]
           ELSE IF \E a \in devicesByNodes[n] : a.ID = id
                THEN Absent
                ELSE devicesByIDs[id]]
    /\ devicesByNodes' = [devicesByNodes EXCEPT ![n] = Fresh(n)]
    /\ reports' = [reports EXCEPT ![n] = @ + 1]
    /\ listing' = [listing EXCEPT ![n] = Absent]
    /\ UNCHANGED <<devicesByVolumeName, mutex, calls>>

\* Mutant: the identifiers that are not reported any more stay.
OnNodeAddedUpdateKeepsIDs(n) ==
    /\ listing[n] # Absent
    /\ mutex = Free
    /\ devices' = [a \in Address |->
           IF a \in Fresh(n)
           THEN [Parameters |-> listing[n][a.ID.index], Volumes |-> NoVolumes]
           ELSE devices[a]]
    /\ devicesByIDs' = [id \in DeviceID |->
           IF \E a \in Fresh(n) : a.ID = id
           THEN [ID |-> id, report |-> reports[n] + 1]
           ELSE devicesByIDs[id]]
    /\ devicesByNodes' = [devicesByNodes EXCEPT ![n] = Fresh(n)]
    /\ reports' = [reports EXCEPT ![n] = @ + 1]
    /\ listing' = [listing EXCEPT ![n] = Absent]
    /\ UNCHANGED <<devicesByVolumeName, mutex, calls>>

OnNodeAddedUpdate(n) ==
    /\ listing[n] # Absent
    /\ mutex = Free
    /\ devices' = [a \in Address |->
           IF a \in Fresh(n)
           THEN [Parameters |-> listing[n][a.ID.index], Volumes |-> NoVolumes]
           ELSE devices[a]]
    /\ devicesByIDs' = [id \in DeviceID |->
           IF \E a \in Fresh(n) : a.ID = id
           THEN [ID |-> id, report |-> reports[n] + 1]
           ELSE IF \E a \in devicesByNodes[n] : a.ID = id
                THEN Absent
                ELSE devicesByIDs[id]]
    /\ devicesByNodes' = [devicesByNodes EXCEPT ![n] = Fresh(n)]
    /\ reports' = [reports EXCEPT ![n] = @ + 1]
    /\ listing' = [listing EXCEPT ![n] = Absent]
    /\ UNCHANGED <<devicesByVolumeName, mutex, calls>>

\* Mutant: the volumes of the node are forgotten, but stay charged.
OnNodeDeletedForgets(n) ==
    /\ listing[n] = Absent
    /\ devicesByNodes' = [devicesByNodes EXCEPT ![n] = {}]
    /\ devicesByVolumeName' = [v \in Volume |->
           IF devicesByVolumeName[v] \in devicesByNodes[n]
           THEN Absent
           ELSE devicesByVolumeName[v]]
    /\ UNCHANGED <<devices, devicesByIDs, mutex, calls, listing, reports>>

\* OnNodeDeleted takes no mutex and leaves devicesByIDs alone.
OnNodeDeleted(n) ==
    /\ listing[n] = Absent
    /\ devicesByNodes' = [devicesByNodes EXCEPT ![n] = {}]
    /\ UNCHANGED <<devices, devicesByVolumeName, devicesByIDs,
                   mutex, calls, listing, reports>>

-----------------------------------------------------------------------------
CreateVolumeLocks(c) == CreateVolumeFinds(c) \/ CreateVolumeFindsNothing(c)

CreateVolumeReturns(c) == CreateVolumeSucceeds(c) \/ CreateVolumeFails(c)

Next ==
    \/ \E c \in Caller :
           \/ CreateVolume(c) \/ CreateVolumeLocks(c) \/ CreateVolumeReturns(c)
           \/ DeleteVolume(c) \/ DeleteVolumeForgets(c) \/ DeleteVolumeReturns(c)
    \/ \E n \in Node :
           OnNodeAdded(n) \/ OnNodeAddedUpdate(n) \/ OnNodeDeleted(n)
    \/ Restart

(***************************************************************************)
(* A goroutine that can run does run.  sync.Mutex hands itself over to a   *)
(* goroutine that has waited for a millisecond, so that taking it is fair  *)
(* to every one of them; a node call ends when the deadline of the CSI     *)
(* call that made it passes.                                               *)
(***************************************************************************)
Fairness ==
    /\ \A c \in Caller :
           /\ SF_vars(CreateVolumeLocks(c))
           /\ SF_vars(DeleteVolumeForgets(c))
           /\ WF_vars(CreateVolumeReturns(c))
           /\ WF_vars(DeleteVolumeReturns(c))
    /\ \A n \in Node : SF_vars(OnNodeAddedUpdate(n))

Spec == Init /\ [][Next]_vars

FairSpec == Spec /\ Fairness
-----------------------------------------------------------------------------
\* Every variable has its type.
TypeOK ==
    /\ devices \in [Address -> DeviceInfo]
    /\ devicesByVolumeName \in [Volume -> Address \cup {Absent}]
    /\ devicesByIDs \in [DeviceID -> Address \cup {Absent}]
    /\ devicesByNodes \in [Node -> SUBSET Address]
    /\ mutex \in Caller \cup {Free}
    /\ calls \in [Caller -> Call]
    /\ listing \in [Node -> Report \cup {Absent}]
    /\ reports \in [Node -> 0 .. MaxReports]

(***************************************************************************)
(* No device is ever charged with more than it has, although the search    *)
(* that found room for a volume and the charge are apart by a node call    *)
(* during which nodes are deleted and other calls arrive.                  *)
(***************************************************************************)
CapacityRespected ==
    \A a \in Address : WithinCapacity(devices[a].Parameters, devices[a].Volumes)

(***************************************************************************)
(* The device a CreateVolume has chosen still matches its request while    *)
(* the node is being told: what was read before the call is not stale when *)
(* it is used after it.                                                    *)
(***************************************************************************)
ChoiceStillFits ==
    \A c \in Caller :
        calls[c].pc = "create" => Matches(calls[c].request, calls[c].device, "OK")

(***************************************************************************)
(* A volume the controller remembers is charged to the device it remembers *)
(* it on, however often it was created, deleted and created again and      *)
(* whatever became of the node.                                            *)
(***************************************************************************)
NamesResolve ==
    \A v \in Volume :
        devicesByVolumeName[v] # Absent =>
            devices[devicesByVolumeName[v]].Volumes[v] # Absent

(***************************************************************************)
(* The two indexes agree on every listed device: the device a node lists   *)
(* is the one its identifier leads to, and not an earlier report of it.    *)
(***************************************************************************)
IDsAgree ==
    \A n \in Node : \A a \in devicesByNodes[n] :
        devicesByIDs[a.ID] = a /\ a.ID.node = n

(***************************************************************************)
(* Until DeleteVolume has its answer from the node, the volume stays       *)
(* forgotten: no call creates it again in the meantime.                    *)
(***************************************************************************)
DeletedStaysDeleted ==
    \A c \in Caller :
        calls[c].pc = "delete" =>
            /\ devicesByVolumeName[calls[c].volume] = Absent
            /\ devices[calls[c].device].Volumes[calls[c].volume] = Absent

(***************************************************************************)
(* The inductive invariant of the properties above.  The mutex belongs to  *)
(* the call that waits for a node; a report that is taken over is given    *)
(* addresses that were never used, and there is one left for it.           *)
(***************************************************************************)
MutexHeld ==
    \A c \in Caller : calls[c].pc \in {"create", "delete"} <=> mutex = c

MemoryUnused ==
    \A a \in Address : a.report > reports[a.ID.node] => devices[a] = NoDevice

ReportPending ==
    \A n \in Node : listing[n] # Absent => reports[n] < MaxReports

MasterInv ==
    /\ TypeOK
    /\ MutexHeld /\ MemoryUnused /\ ReportPending
    /\ CapacityRespected /\ ChoiceStillFits /\ NamesResolve
    /\ IDsAgree /\ DeletedStaysDeleted

(***************************************************************************)
(* CreateVolume answers ResourceExhausted only if a node of the topology   *)
(* request lists a device that volumes are charged to: a caller told to    *)
(* wait for room is not sent to nodes that have nothing to free.  (That    *)
(* the request fits once it is freed is not said: a GPU with too few       *)
(* millicores may hide that another resource is too small for ever.)       *)
(***************************************************************************)
ExhaustedMeansCharged ==
    [][\A c \in Caller :
           (CreateVolumeFindsNothing(c) /\ calls'[c].code = "ResourceExhausted")
           => \E n \in Node : \E a \in devicesByNodes[n] :
                 /\ \E i \in DOMAIN calls[c].request.preferred :
                        calls[c].request.preferred[i] = n
                 /\ \E v \in Volume : devices[a].Volumes[v] # Absent]_vars

(***************************************************************************)
(* CreateVolume answers NotFound only if no device of the nodes of the     *)
(* topology request would match even with nothing charged to it: a caller  *)
(* that is told to give up could not have been served by waiting for room  *)
(* on one of these nodes, whichever of them it is.                         *)
(***************************************************************************)
NotFoundMeansNoneFits ==
    [][\A c \in Caller :
           (CreateVolumeFindsNothing(c) /\ calls'[c].code = "NotFound")
           => \A i \in DOMAIN calls[c].request.preferred :
                 \A a \in devicesByNodes[calls[c].request.preferred[i]] :
                     Match(devices[a].Parameters, NoVolumes,
                           calls[c].request.params) # "OK"]_vars

(***************************************************************************)
(* The controller implements DeviceLedger: the tables of charges change as *)
(* if every volume were checked and charged in one step.                   *)
(***************************************************************************)
Ledger == INSTANCE DeviceLedger WITH
    Params <- {request.params : request \in Request},
    deviceOf <- devicesByVolumeName

ImplementsLedger == Ledger!Spec

\* Every CSI call is answered, although all of them share one mutex that is
\* held over node calls.
EveryCallReturns ==
    \A c \in Caller : calls[c].pc # "idle" ~> calls[c].pc = "idle"

\* Every report of a node is taken over in the end.
EveryReportIsTaken ==
    \A n \in Node : listing[n] # Absent ~> listing[n] = Absent

-----------------------------------------------------------------------------
(***************************************************************************)
(* What the comments of the source say and the code does not do.           *)
(***************************************************************************)

(***************************************************************************)
(* CreateVolume "MUST be idempotent" (controllerserver-default.go:45):     *)
(* creating a volume again with the parameters it has does not move it.    *)
(***************************************************************************)
RepeatedCreateKeepsDevice ==
    [][\A c \in Caller :
           LET v == calls[c].volume
               a == devicesByVolumeName[v]
           IN  (/\ CreateVolumeSucceeds(c)
                /\ a # Absent
                /\ devices[a].Volumes[v] = calls[c].request.params)
               => devicesByVolumeName'[v] = a]_vars
=============================================================================
