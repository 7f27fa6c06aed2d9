--------------------------------- MODULE CDI ---------------------------------
(***************************************************************************)
(* The driver as a whole: the controller (MasterController), the nodes     *)
(* (DeviceManager), and between them the calls by which the controller     *)
(* tells a node about a volume and asks it for its devices.  The registry  *)
(* is reduced to the set of registered nodes; RegistryServer shows that    *)
(* the controller has been told of exactly those.                          *)
(*                                                                         *)
(* A caller that gives up, because the deadline of its call passes or the  *)
(* controller ends, leaves a handler at the node that runs on.             *)
(***************************************************************************)
EXTENDS MasterController

CONSTANTS
    Hardware,  \* node |-> the GPUs and FPGA ports it has
    Handler    \* goroutines of the nodes serving the controller's calls

ASSUME HandlerAssumption == Absent \notin Handler

ASSUME HardwareAssumption ==
    /\ Hardware \in [Node -> [gpus : Nat, regions : Seq(Regions)]]
    /\ \A n \in Node :
           Hardware[n].gpus + Len(Hardware[n].regions) <= MaxDevices

VARIABLES
    nodeDevices,      \* the devices of every node, by index
    volumes,          \* the volumes of every device of every node
    nodeVolumeNames,  \* node |-> volume |-> index, or Absent
    handlers,         \* what every handler is doing
    registered,       \* the nodes in the registry
    stopping,         \* the nodes that have unregistered and are about to end
    asked,            \* caller |-> the handler that serves its call, or Absent
    givenUp,          \* history: whether a call was given up
    ended             \* history: the nodes whose process has ended

Nodes == INSTANCE DeviceManager WITH
    devicesByDeviceID <- nodeDevices,
    devicesByVolumeName <- nodeVolumeNames

nodeVars == <<nodeDevices, volumes, nodeVolumeNames, handlers>>

history == <<givenUp, ended>>

cdiVars == <<vars, nodeVars, registered, stopping, asked, history>>

\* The node that a call of the controller is for, and the device there.
Target(c) == calls[c].device.ID

\* The handlers whose caller has given up.
Orphans == {h \in Handler : \A c \in Caller : asked[c] # h}

-----------------------------------------------------------------------------
CDIInit ==
    /\ Init /\ Nodes!Init
    /\ registered = {} /\ stopping = {}
    /\ asked = [c \in Caller |-> Absent]
    /\ givenUp = FALSE /\ ended = {}

\* The steps of a call inside the controller.
ControllerSteps(c) ==
    /\ \/ CreateVolume(c) \/ CreateVolumeLocks(c)
       \/ DeleteVolume(c) \/ DeleteVolumeForgets(c)
    /\ UNCHANGED <<nodeVars, registered, stopping, asked, history>>

Waiting(c) == calls[c].pc \in {"create", "delete"}

\* The controller connects to the registered node, and the call arrives.
Asks(c, h) ==
    /\ Waiting(c) /\ asked[c] = Absent
    /\ Target(c).node \in registered
    /\ \/ /\ calls[c].pc = "create"
          /\ Nodes!CreateVolume(h, Target(c).node, calls[c].volume, Target(c).index)
       \/ /\ calls[c].pc = "delete"
          /\ Nodes!DeleteVolume(h, Target(c).node, calls[c].volume)
    /\ asked' = [asked EXCEPT ![c] = h]
    /\ UNCHANGED <<vars, registered, stopping, history>>

\* The call ends in the controller, well or with an error.
Ends(c, code) ==
    \/ code = "OK" /\ CreateVolumeSucceeds(c)
    \/ code = "Internal" /\ CreateVolumeFails(c)
    \/ DeleteVolumeReturns(c) /\ calls'[c].code = code

\* The node is not registered or cannot be reached.
AsksInVain(c) ==
    /\ Waiting(c) /\ asked[c] = Absent
    /\ Ends(c, "Internal")
    /\ UNCHANGED <<nodeVars, registered, stopping, asked, history>>

\* Mutant: an error of the node is taken for an answer.
AnsweredAnyhow(c) ==
    /\ Waiting(c) /\ asked[c] # Absent
    /\ handlers[asked[c]].pc = "done"
    /\ Ends(c, "OK")
    /\ Nodes!Return(asked[c])
    /\ asked' = [asked EXCEPT ![c] = Absent]
    /\ UNCHANGED <<registered, stopping, history>>

\* The answer of the node arrives.
Answered(c) ==
    /\ Waiting(c) /\ asked[c] # Absent
    /\ handlers[asked[c]].pc = "done"
    /\ Ends(c, handlers[asked[c]].code)
    /\ Nodes!Return(asked[c])
    /\ asked' = [asked EXCEPT ![c] = Absent]
    /\ UNCHANGED <<registered, stopping, history>>

(***************************************************************************)
(* The deadline passes, or the connection breaks, before the answer is     *)
(* there: the call fails and its handler stays.                            *)
(***************************************************************************)
GivesUp(c) ==
    /\ Waiting(c) /\ asked[c] # Absent
    /\ Ends(c, "Internal")
    /\ asked' = [asked EXCEPT ![c] = Absent]
    /\ givenUp' = TRUE
    /\ UNCHANGED <<nodeVars, registered, stopping, ended>>

NodeSteps(h) ==
    /\ Nodes!HandlerSteps(h) \/ (h \in Orphans /\ Nodes!Return(h))
    /\ UNCHANGED <<vars, registered, stopping, asked, history>>

-----------------------------------------------------------------------------
(***************************************************************************)
(* A node registers: at its start, or because its watcher saw the          *)
(* connection come back, which may be as late as when it has unregistered. *)
(* If it is registered already, the registry calls its listener only if    *)
(* the endpoint is another one, which takes another process.               *)
(***************************************************************************)
Registers(n) ==
    /\ n \notin registered \/ n \in ended
    /\ registered' = registered \cup {n}
    /\ OnNodeAdded(n)
    /\ listing'[n] = Nodes!ListVolumes(n)
    /\ UNCHANGED <<nodeVars, stopping, asked, history>>

(***************************************************************************)
(* A node registers at another endpoint, and the listener fails.  (If the  *)
(* node was not registered, a registration that fails leaves no trace.)    *)
(***************************************************************************)
RegistrationFails(n) ==
    /\ n \in registered /\ n \in ended
    /\ listing[n] = Absent
    /\ registered' = registered \ {n}
    /\ UNCHANGED <<vars, nodeVars, stopping, asked, history>>

ReportTaken(n) ==
    /\ OnNodeAddedUpdate(n)
    /\ UNCHANGED <<nodeVars, registered, stopping, asked, history>>

\* A node is told to end: it unregisters first, once.
Unregisters(n) ==
    /\ n \in registered \ stopping
    /\ registered' = registered \ {n}
    /\ stopping' = stopping \cup {n}
    /\ OnNodeDeleted(n)
    /\ UNCHANGED <<nodeVars, asked, history>>

RegistrySteps(n) ==
    Registers(n) \/ RegistrationFails(n) \/ ReportTaken(n) \/ Unregisters(n)

\* The process of a node has ended, or crashed, and is started again.
NodeRestarts(n) ==
    /\ Nodes!Restart(n)
    /\ stopping' = stopping \ {n}
    /\ ended' = ended \cup {n}
    /\ UNCHANGED <<vars, registered, asked, givenUp>>

\* The process of the controller, and with it the registry, starts again.
ControllerRestarts ==
    /\ Restart
    /\ registered' = {}
    /\ asked' = [c \in Caller |-> Absent]
    /\ givenUp' = (givenUp \/ \E c \in Caller : asked[c] # Absent)
    /\ UNCHANGED <<nodeVars, stopping, ended>>

CDINext ==
    \/ \E c \in Caller :
           \/ ControllerSteps(c) \/ AsksInVain(c) \/ Answered(c) \/ GivesUp(c)
           \/ \E h \in Handler : Asks(c, h)
    \/ \E h \in Handler : NodeSteps(h)
    \/ \E n \in Node :
           RegistrySteps(n) \/ NodeRestarts(n)
    \/ ControllerRestarts

CDISpec == CDIInit /\ [][CDINext]_cdiVars

-----------------------------------------------------------------------------
\* Every variable has its type.
CDITypeOK ==
    /\ TypeOK /\ Nodes!TypeOK
    /\ registered \subseteq Node /\ stopping \subseteq Node
    /\ asked \in [Caller -> Handler \cup {Absent}]
    /\ givenUp \in BOOLEAN /\ ended \subseteq Node

(***************************************************************************)
(* What the controller believes is so on the node: a volume that it        *)
(* remembers is among the volumes of that device, on that node, and while  *)
(* no call is under way it is the device that a DeleteVolume would free.   *)
(* It holds although the two are told apart by calls that may fail, and    *)
(* although volumes are created again elsewhere and deleted concurrently,  *)
(* as long as no call was given up, for every node that did not end.       *)
(***************************************************************************)
ChargedIsAllocated ==
    ~givenUp =>
        \A v \in Volume :
            LET id == devicesByVolumeName[v].ID
            IN  (devicesByVolumeName[v] # Absent /\ id.node \notin ended) =>
                    /\ v \in volumes[id.node][id.index]
                    /\ mutex = Free => nodeVolumeNames[id.node][v] = id.index

(***************************************************************************)
(* The devices that the controller offers are the devices of the node: an  *)
(* identifier means the same device on both sides, until the node ends.    *)
(***************************************************************************)
ListedIsThere ==
    \A n \in Node \ ended : \A a \in devicesByNodes[n] :
        /\ a.ID.index \in DOMAIN nodeDevices[n]
        /\ devices[a].Parameters = nodeDevices[n][a.ID.index]

(***************************************************************************)
(* The device that a node allocates to a volume is one that meets the      *)
(* request, with what is charged to it at that moment: between the search  *)
(* in the controller and the allocation at the node lie two calls, other   *)
(* reports, deletions and registrations, and only the end of the node's    *)
(* process makes the identifier mean another device (AllocatedSatisfies).  *)
(***************************************************************************)
AllocatedFits ==
    [][\A c \in Caller, h \in Handler :
           LET n == handlers[h].node
           IN  (asked[c] = h /\ Nodes!AllocateVolume(h) /\ n \notin ended) =>
                   Match(nodeDevices[n][handlers[h].index],
                         devices[calls[c].device].Volumes,
                         calls[c].request.params) = "OK"]_cdiVars

(***************************************************************************)
(* The two maps of a node agree, although nothing protects them: until a   *)
(* call is given up, the mutex of the controller, held over its node       *)
(* calls, lets no two handlers run.                                        *)
(***************************************************************************)
NodeTablesAgree == ~givenUp => Nodes!TablesAgree

(***************************************************************************)
(* The inductive invariant of the properties above.  Serving: the handler  *)
(* that a caller waits for serves what it asked.  NoOrphans: nobody else   *)
(* is served until a call is given up.  Created: what a handler that is to *)
(* create a volume has done, as far as it got.                             *)
(***************************************************************************)
Serving ==
    \A c \in Caller : asked[c] # Absent =>
        /\ Waiting(c)
        /\ handlers[asked[c]].pc # "idle"
        /\ handlers[asked[c]].node = Target(c).node
        /\ handlers[asked[c]].pc # "done" =>
               /\ handlers[asked[c]].volume = calls[c].volume
               /\ calls[c].pc = "create" <=>
                      handlers[asked[c]].pc
                          \in {"allocate", "allocateVolume", "allocateName"}
               /\ calls[c].pc = "create" =>
                      handlers[asked[c]].index = Target(c).index

NoOrphans ==
    ~givenUp => \A h \in Orphans : handlers[h].pc = "idle"

\* The node has done what a CreateVolume asked, and the answer is on its way.
Named(c) ==
    /\ calls[c].pc = "create" /\ asked[c] # Absent
    /\ handlers[asked[c]].pc = "done" /\ handlers[asked[c]].code = "OK"

Created ==
    ~givenUp => \A c \in Caller :
        LET v  == calls[c].volume
            id == Target(c)
        IN  (calls[c].pc = "create" /\ asked[c] # Absent) =>
                /\ handlers[asked[c]].pc = "allocateName" =>
                       v \in volumes[id.node][id.index]
                /\ (Named(c) /\ id.node \notin ended) =>
                       /\ v \in volumes[id.node][id.index]
                       /\ nodeVolumeNames[id.node][v] = id.index

Charged ==
    ~givenUp => \A v \in Volume :
        LET id == devicesByVolumeName[v].ID
        IN  (devicesByVolumeName[v] # Absent /\ id.node \notin ended) =>
                /\ v \in volumes[id.node][id.index]
                /\ \/ nodeVolumeNames[id.node][v] = id.index
                   \/ \E c \in Caller : Named(c) /\ calls[c].volume = v

ListingIsThere ==
    \A n \in Node \ ended : listing[n] \in {Absent, nodeDevices[n]}

\* Not only the devices that are listed: a call may be at work on a device
\* of an earlier report, or of a node that was deleted meanwhile.
KnownIsThere ==
    \A a \in Address :
        LET id == a.ID
        IN  (devices[a].Parameters # NoDevice.Parameters /\ id.node \notin ended) =>
                /\ id.index \in DOMAIN nodeDevices[id.node]
                /\ devices[a].Parameters = nodeDevices[id.node][id.index]

CDIInv ==
    /\ CDITypeOK /\ Serving /\ NoOrphans /\ Created /\ Charged
    /\ ListingIsThere /\ ListedIsThere /\ KnownIsThere /\ NodeTablesAgree

-----------------------------------------------------------------------------
(***************************************************************************)
(* CreateVolume "finds node with a device satisfying requested parameters  *)
(* and informs node controller about device allocation"                    *)
(* (controllerserver-master.go:211): the device that the node allocates to *)
(* the volume is of the type that was asked for.                           *)
(***************************************************************************)
AllocatedSatisfies ==
    [][\A c \in Caller, h \in Handler :
           (asked[c] = h /\ Nodes!AllocateVolume(h)) =>
               nodeDevices[handlers[h].node][handlers[h].index]["deviceType"]
                   = calls[c].request.params["deviceType"]]_cdiVars
=============================================================================
