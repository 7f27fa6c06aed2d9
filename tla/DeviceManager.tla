----------------------------- MODULE DeviceManager -----------------------------
(***************************************************************************)
(* The nodes: what DeviceManager (pkg/device-manager/dmanager.go) keeps on *)
(* every node and how the node's controller (controllerserver-node.go)     *)
(* serves CreateVolume and DeleteVolume with it.                           *)
(*                                                                         *)
(* gRPC serves every call in a goroutine of its own and nothing protects   *)
(* the two maps: a handler is split before each of its accesses to them.   *)
(***************************************************************************)
EXTENDS DeviceMatch, Sequences

CONSTANTS
    Node,        \* node identifiers
    MaxDevices,  \* bound: devices of one node
    Hardware,    \* node |-> [gpus : number of GPUs, regions : FPGA ports]
    Handler      \* goroutines serving calls, on whatever node

Index == 0 .. MaxDevices - 1

VARIABLES
    devicesByDeviceID,    \* node |-> index |-> the parameters of the device
    volumes,              \* node |-> index |-> the names in its Volumes
    devicesByVolumeName,  \* node |-> volume |-> index, or Absent
    handlers              \* what every handler is doing

vars == <<devicesByDeviceID, volumes, devicesByVolumeName, handlers>>

HandlerState ==
    [pc : {"idle"}]
      \cup [pc : {"allocate", "allocateVolume", "allocateName"},
            node : Node, volume : Volume, index : Index]
      \cup [pc : {"deAllocate"}, node : Node, volume : Volume]
      \cup [pc : {"deAllocateVolume", "deAllocateName"},
            node : Node, volume : Volume, index : Index]
      \cup [pc : {"done"}, node : Node, code : {"OK", "Internal"}]

Idle == [pc |-> "idle"]

Done(n, code) == [pc |-> "done", node |-> n, code |-> code]

-----------------------------------------------------------------------------
\* What the manager of the GPUs finds on a node, and that of the FPGAs.
gpuDevices(n) == [i \in 1 .. Hardware[n].gpus |-> GpuDevice]

fpgaDevices(n) ==
    [i \in DOMAIN Hardware[n].regions |-> FpgaDevice(Hardware[n].regions[i])]

(***************************************************************************)
(* discoverDevices numbers the devices of both types from 0.  It walks the *)
(* type managers in the random order of a Go map.                          *)
(***************************************************************************)
discoverDevices(n) ==
    LET dim(infos) == [i \in 0 .. Len(infos) - 1 |-> infos[i + 1]]
    IN  {dim(gpuDevices(n) \o fpgaDevices(n)), dim(fpgaDevices(n) \o gpuDevices(n))}

\* Everything that some node can find.
Discovered == UNION {discoverDevices(n) : n \in Node}

Init ==
    /\ devicesByDeviceID \in [Node -> Discovered]
    /\ \A n \in Node : devicesByDeviceID[n] \in discoverDevices(n)
    /\ volumes = [n \in Node |-> [i \in Index |-> {}]]
    /\ devicesByVolumeName = [n \in Node |-> [v \in Volume |-> Absent]]
    /\ handlers = [h \in Handler |-> Idle]

(***************************************************************************)
(* The process of a node ends and is started again: nothing is persisted,  *)
(* the devices are discovered anew, and the calls it was serving fail.  An *)
(* answer that is already on its way still arrives.                        *)
(***************************************************************************)
Restart(n) ==
    /\ \E found \in discoverDevices(n) :
           devicesByDeviceID' = [devicesByDeviceID EXCEPT ![n] = found]
    /\ volumes' = [volumes EXCEPT ![n] = [i \in Index |-> {}]]
    /\ devicesByVolumeName' =
           [devicesByVolumeName EXCEPT ![n] = [v \in Volume |-> Absent]]
    /\ handlers' = [h \in Handler |->
           IF handlers[h].pc \notin {"idle", "done"} /\ handlers[h].node = n
           THEN Done(n, "Internal")
           ELSE handlers[h]]

-----------------------------------------------------------------------------
\* A CreateVolume with the device's identifier arrives at its node.
CreateVolume(h, n, v, i) ==
    /\ handlers[h].pc = "idle"
    /\ handlers' = [handlers EXCEPT
           ![h] = [pc |-> "allocate", node |-> n, volume |-> v, index |-> i]]
    /\ UNCHANGED <<devicesByDeviceID, volumes, devicesByVolumeName>>

\* Allocate: there is such a device, and it does not have the volume yet.
Allocate(h) ==
    /\ handlers[h].pc = "allocate"
    /\ handlers[h].index \in DOMAIN devicesByDeviceID[handlers[h].node]
    /\ handlers[h].volume \notin volumes[handlers[h].node][handlers[h].index]
    /\ handlers' = [handlers EXCEPT ![h].pc = "allocateVolume"]
    /\ UNCHANGED <<devicesByDeviceID, volumes, devicesByVolumeName>>

AllocateFails(h) ==
    /\ handlers[h].pc = "allocate"
    /\ \/ handlers[h].index \notin DOMAIN devicesByDeviceID[handlers[h].node]
       \/ handlers[h].volume \in volumes[handlers[h].node][handlers[h].index]
    /\ handlers' = [handlers EXCEPT ![h] = Done(handlers[h].node, "Internal")]
    /\ UNCHANGED <<devicesByDeviceID, volumes, devicesByVolumeName>>

AllocateVolume(h) ==
    /\ handlers[h].pc = "allocateVolume"
    /\ volumes' = [volumes EXCEPT
           ![handlers[h].node][handlers[h].index] = @ \cup {handlers[h].volume}]
    /\ handlers' = [handlers EXCEPT ![h].pc = "allocateName"]
    /\ UNCHANGED <<devicesByDeviceID, devicesByVolumeName>>

\* Mutant: the device of the volume is not remembered.
AllocateNameForgets(h) ==
    /\ handlers[h].pc = "allocateName"
    /\ handlers' = [handlers EXCEPT ![h] = Done(handlers[h].node, "OK")]
    /\ UNCHANGED <<devicesByDeviceID, volumes, devicesByVolumeName>>

AllocateName(h) ==
    /\ handlers[h].pc = "allocateName"
    /\ devicesByVolumeName' = [devicesByVolumeName EXCEPT
           ![handlers[h].node][handlers[h].volume] = handlers[h].index]
    /\ handlers' = [handlers EXCEPT ![h] = Done(handlers[h].node, "OK")]
    /\ UNCHANGED <<devicesByDeviceID, volumes>>

-----------------------------------------------------------------------------
\* A DeleteVolume arrives at a node.
DeleteVolume(h, n, v) ==
    /\ handlers[h].pc = "idle"
    /\ handlers' = [handlers EXCEPT
           ![h] = [pc |-> "deAllocate", node |-> n, volume |-> v]]
    /\ UNCHANGED <<devicesByDeviceID, volumes, devicesByVolumeName>>

\* DeAllocate: the device is found by the name of the volume.
DeAllocate(h) ==
    /\ handlers[h].pc = "deAllocate"
    /\ LET n == handlers[h].node
           v == handlers[h].volume
       IN  \/ /\ devicesByVolumeName[n][v] = Absent
              /\ handlers' = [handlers EXCEPT ![h] = Done(n, "Internal")]
           \/ /\ devicesByVolumeName[n][v] # Absent
              /\ handlers' = [handlers EXCEPT
                     ![h] = [pc |-> "deAllocateVolume", node |-> n, volume |-> v,
                             index |-> devicesByVolumeName[n][v]]]
    /\ UNCHANGED <<devicesByDeviceID, volumes, devicesByVolumeName>>

DeAllocateVolume(h) ==
    /\ handlers[h].pc = "deAllocateVolume"
    /\ volumes' = [volumes EXCEPT
           ![handlers[h].node][handlers[h].index] = @ \ {handlers[h].volume}]
    /\ handlers' = [handlers EXCEPT ![h].pc = "deAllocateName"]
    /\ UNCHANGED <<devicesByDeviceID, devicesByVolumeName>>

DeAllocateName(h) ==
    /\ handlers[h].pc = "deAllocateName"
    /\ devicesByVolumeName' = [devicesByVolumeName EXCEPT
           ![handlers[h].node][handlers[h].volume] = Absent]
    /\ handlers' = [handlers EXCEPT ![h] = Done(handlers[h].node, "OK")]
    /\ UNCHANGED <<devicesByDeviceID, volumes>>

\* The devices of a node, by identifier, with their parameters.
ListVolumes(n) == devicesByDeviceID[n]

\* The answer is sent.
Return(h) ==
    /\ handlers[h].pc = "done"
    /\ handlers' = [handlers EXCEPT ![h] = Idle]
    /\ UNCHANGED <<devicesByDeviceID, volumes, devicesByVolumeName>>

-----------------------------------------------------------------------------
HandlerSteps(h) ==
    \/ Allocate(h) \/ AllocateFails(h) \/ AllocateVolume(h) \/ AllocateName(h)
    \/ DeAllocate(h) \/ DeAllocateVolume(h) \/ DeAllocateName(h)

Next ==
    \/ \E h \in Handler :
           \/ \E n \in Node, v \in Volume :
                  \/ \E i \in Index : CreateVolume(h, n, v, i)
                  \/ DeleteVolume(h, n, v)
           \/ HandlerSteps(h) \/ Return(h)
    \/ \E n \in Node : Restart(n)

Spec == Init /\ [][Next]_vars

-----------------------------------------------------------------------------
\* Every variable has its type.
TypeOK ==
    /\ devicesByDeviceID \in [Node -> Discovered]
    /\ volumes \in [Node -> [Index -> SUBSET Volume]]
    /\ devicesByVolumeName \in [Node -> [Volume -> Index \cup {Absent}]]
    /\ handlers \in [Handler -> HandlerState]

(***************************************************************************)
(* The two maps of a node agree: the device that the name of a volume      *)
(* leads to has the volume, unless DeAllocate is just about to forget the  *)
(* name, so that the next DeAllocate finds what it is to take away.        *)
(***************************************************************************)
TablesAgree ==
    \A n \in Node, v \in Volume :
        \/ devicesByVolumeName[n][v] = Absent
        \/ v \in volumes[n][devicesByVolumeName[n][v]]
        \/ \E h \in Handler :
               /\ handlers[h].pc = "deAllocateName"
               /\ handlers[h].node = n /\ handlers[h].volume = v
=============================================================================
