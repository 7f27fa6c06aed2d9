------------------------------- MODULE CDIProofs -------------------------------
(***************************************************************************)
(* Proofs about CDI, for any number of nodes, devices, callers, handlers   *)
(* and volumes: its steps are steps of the controller, and with what       *)
(* MasterControllerProofs says of those, the controller and the nodes      *)
(* agree.                                                                  *)
(***************************************************************************)
EXTENDS CDI, MasterControllerProofs

-----------------------------------------------------------------------------
\* The controller is one of the parts, and nothing else touches its state.

LEMMA InitIsMaster == CDIInit => Init
  BY DEF CDIInit

LEMMA StepIsMaster == [CDINext]_cdiVars => [Next]_vars
<1> SUFFICES ASSUME [CDINext]_cdiVars PROVE [Next]_vars
  OBVIOUS
<1> USE DEF Next, CreateVolumeReturns
<1>1. ASSUME NEW c \in Caller, ControllerSteps(c) PROVE [Next]_vars
  BY <1>1 DEF ControllerSteps
<1>2. ASSUME NEW c \in Caller, NEW code, Ends(c, code) PROVE [Next]_vars
  BY <1>2 DEF Ends
<1>3. ASSUME NEW c \in Caller, NEW h \in Handler, Asks(c, h) PROVE [Next]_vars
  BY <1>3 DEF Asks
<1>4. ASSUME NEW c \in Caller, AsksInVain(c) \/ Answered(c) \/ GivesUp(c)
      PROVE  [Next]_vars
  BY <1>2, <1>4 DEF AsksInVain, Answered, GivesUp
<1>5. ASSUME NEW h \in Handler, NodeSteps(h) PROVE [Next]_vars
  BY <1>5 DEF NodeSteps
<1>6. ASSUME NEW n \in Node, Registers(n) PROVE [Next]_vars
  BY <1>6 DEF Registers
<1>7. ASSUME NEW n \in Node, ReportTaken(n) PROVE [Next]_vars
  BY <1>7 DEF ReportTaken
<1>8. ASSUME NEW n \in Node, Unregisters(n) PROVE [Next]_vars
  BY <1>8 DEF Unregisters
<1>9. ASSUME NEW n \in Node, NodeRestarts(n) PROVE [Next]_vars
  BY <1>9 DEF NodeRestarts
<1>12. ASSUME NEW n \in Node, RegistrationFails(n) PROVE [Next]_vars
  BY <1>12 DEF RegistrationFails
<1>10. ASSUME ControllerRestarts PROVE [Next]_vars
  BY <1>10 DEF ControllerRestarts
<1>11. ASSUME UNCHANGED cdiVars PROVE [Next]_vars
  BY <1>11 DEF cdiVars
<1> QED
  BY <1>1, <1>3, <1>4, <1>5, <1>6, <1>7, <1>8, <1>9, <1>10, <1>11,
     <1>12 DEF CDINext, RegistrySteps

(***************************************************************************)
(* In the driver as a whole, the controller behaves as MasterController    *)
(* says: what is proved of it holds here.                                  *)
(***************************************************************************)
THEOREM MasterImplemented == CDISpec => Spec
<1>1. CDIInit => Init
  BY InitIsMaster
<1>2. [CDINext]_cdiVars => [Next]_vars
  BY StepIsMaster
<1> QED
  BY <1>1, <1>2, PTL DEF CDISpec, Spec

-----------------------------------------------------------------------------
\* What the steps do to the calls.

LEMMA CodeHasEnds == "OK" \in Code /\ "Internal" \in Code
  BY DEF Code

\* A call that ends is idle, and the others go on.
LEMMA EndsEffect ==
    ASSUME TypeOK, NEW c \in Caller, NEW code, Ends(c, code)
    PROVE  /\ calls'[c].pc = "idle"
           /\ \A d \in Caller \ {c} : calls'[d] = calls[d]
           /\ UNCHANGED <<devicesByNodes, listing, reports>>
           /\ mutex' = Free
  BY DEF TypeOK, Ends, Idle, CreateVolumeSucceeds, CreateVolumeFails,
         DeleteVolumeReturns, tables

\* A step inside the controller is not one of a call that waits for a node.
LEMMA ControllerEffect ==
    ASSUME TypeOK, NEW c \in Caller, ControllerSteps(c)
    PROVE  /\ ~Waiting(c)
           /\ \A d \in Caller \ {c} : calls'[d] = calls[d]
           /\ UNCHANGED <<nodeVars, registered, stopping, asked, history>>
           /\ UNCHANGED <<devicesByNodes, listing, reports>>
<1>1. CASE CreateVolume(c)
  BY <1>1 DEF TypeOK, ControllerSteps, Waiting, CreateVolume, tables
<1>2. CASE CreateVolumeLocks(c)
  BY <1>2 DEF TypeOK, ControllerSteps, Waiting, CreateVolumeLocks,
              CreateVolumeFinds, CreateVolumeFindsNothing, tables
<1>3. CASE DeleteVolume(c)
  BY <1>3 DEF TypeOK, ControllerSteps, Waiting, DeleteVolume, tables
<1>4. CASE DeleteVolumeForgets(c)
  BY <1>4 DEF TypeOK, ControllerSteps, Waiting, DeleteVolumeForgets
<1> QED
  BY <1>1, <1>2, <1>3, <1>4 DEF ControllerSteps

\* At most one caller waits for a node.
LEMMA OneWaits ==
    ASSUME MutexHeld, NEW c \in Caller, NEW d \in Caller,
           Waiting(c), Waiting(d)
    PROVE  c = d
  BY DEF MutexHeld, Waiting

\* The identifier of a waiting call's device.
LEMMA TargetType ==
    ASSUME TypeOK, NEW c \in Caller, Waiting(c)
    PROVE  /\ calls[c].volume \in Volume
           /\ Target(c) \in DeviceID
           /\ Target(c).node \in Node /\ Target(c).index \in 0 .. MaxDevices - 1
<1>1. calls[c] \in Call
  BY DEF TypeOK
<1>2. calls[c].volume \in Volume /\ calls[c].device \in Address
  BY <1>1, CallFields DEF Waiting
<1> QED
  BY <1>2 DEF Target, Address, DeviceID

-----------------------------------------------------------------------------
\* The types.

LEMMA HandlerFields ==
    ASSUME NEW handler \in Nodes!HandlerState
    PROVE  /\ handler.pc \in {"idle", "allocate", "allocateVolume", "allocateName",
                              "deAllocate", "deAllocateVolume", "deAllocateName",
                              "done"}
           /\ handler.pc # "idle" => handler.node \in Node
           /\ handler.pc \notin {"idle", "done"} => handler.volume \in Volume
           /\ handler.pc \notin {"idle", "done", "deAllocate"} =>
                  handler.index \in 0 .. MaxDevices - 1
           /\ handler.pc = "done" => handler.code \in {"OK", "Internal"}
  BY DEF Nodes!HandlerState, Nodes!Index

LEMMA HandlerTypes ==
    /\ Nodes!Idle \in Nodes!HandlerState /\ Nodes!Idle.pc = "idle"
    /\ \A n \in Node, code \in {"OK", "Internal"} :
           Nodes!Done(n, code) \in Nodes!HandlerState
    /\ \A n \in Node, v \in Volume, i \in 0 .. MaxDevices - 1,
          pc \in {"allocate", "allocateVolume", "allocateName",
                  "deAllocateVolume", "deAllocateName"} :
           [pc |-> pc, node |-> n, volume |-> v, index |-> i] \in Nodes!HandlerState
    /\ \A n \in Node, v \in Volume :
           [pc |-> "deAllocate", node |-> n, volume |-> v] \in Nodes!HandlerState
  BY DEF Nodes!HandlerState, Nodes!Index, Nodes!Idle, Nodes!Done

\* A handler that goes on with the same volume and device.
LEMMA HandlerGoesOn ==
    ASSUME NEW handler \in Nodes!HandlerState,
           handler.pc \in {"allocate", "allocateVolume", "deAllocateVolume"},
           NEW pc \in {"allocateVolume", "allocateName", "deAllocateName"}
    PROVE  [handler EXCEPT !.pc = pc] \in Nodes!HandlerState
<1> DEFINE Full == [pc : {"allocate", "allocateVolume", "allocateName",
                          "deAllocateVolume", "deAllocateName"},
                    node : Node, volume : Volume, index : Nodes!Index]
<1>1. handler \in Full
  BY DEF Nodes!HandlerState
<1>2. [handler EXCEPT !.pc = pc] \in Full
  BY <1>1
<1> QED
  BY <1>2 DEF Nodes!HandlerState

\* What a step of a node does to its variables keeps their types.
LEMMA NodeTypes ==
    ASSUME Nodes!TypeOK, NEW h \in Handler, Nodes!HandlerSteps(h) \/ Nodes!Return(h)
    PROVE  Nodes!TypeOK'
<1> USE DEF Nodes!TypeOK, Nodes!Index
<1>0. handlers[h] \in Nodes!HandlerState
  OBVIOUS
<1>1. CASE Nodes!Allocate(h)
  BY <1>0, <1>1, HandlerGoesOn DEF Nodes!Allocate
<1>2. CASE Nodes!AllocateFails(h)
  BY <1>0, <1>2, HandlerFields, HandlerTypes DEF Nodes!AllocateFails
<1>3. CASE Nodes!AllocateVolume(h)
  <2>1. handlers' \in [Handler -> Nodes!HandlerState]
    BY <1>0, <1>3, HandlerGoesOn DEF Nodes!AllocateVolume
  <2>2. volumes' \in [Node -> [0 .. MaxDevices - 1 -> SUBSET Volume]]
    <3> DEFINE n == handlers[h].node
               i == handlers[h].index
               v == handlers[h].volume
    <3>1. n \in Node /\ i \in 0 .. MaxDevices - 1 /\ v \in Volume
      BY <1>0, <1>3, HandlerFields DEF Nodes!AllocateVolume
    <3>2. volumes' = [volumes EXCEPT ![n][i] = @ \cup {v}]
      BY <1>3 DEF Nodes!AllocateVolume
    <3> HIDE DEF n, i, v
    <3> QED
      BY <3>1, <3>2
  <2> QED
    BY <1>3, <2>1, <2>2 DEF Nodes!AllocateVolume
<1>4. CASE Nodes!AllocateName(h)
  <2>1. handlers' \in [Handler -> Nodes!HandlerState]
    BY <1>0, <1>4, HandlerFields, HandlerTypes DEF Nodes!AllocateName
  <2>2. nodeVolumeNames' \in [Node -> [Volume -> 0 .. MaxDevices - 1 \cup {Absent}]]
    BY <1>0, <1>4, HandlerFields DEF Nodes!AllocateName
  <2> QED
    BY <1>4, <2>1, <2>2 DEF Nodes!AllocateName
<1>5. CASE Nodes!DeAllocate(h)
  <2>1. handlers[h].node \in Node /\ handlers[h].volume \in Volume
    BY <1>0, <1>5, HandlerFields DEF Nodes!DeAllocate
  <2>2. CASE nodeVolumeNames[handlers[h].node][handlers[h].volume] = Absent
    <3>1. handlers' = [handlers EXCEPT ![h] = Nodes!Done(handlers[h].node, "Internal")]
      BY <1>5, <2>2 DEF Nodes!DeAllocate
    <3> QED
      BY <1>5, <2>1, <3>1, HandlerTypes DEF Nodes!DeAllocate
  <2>3. CASE nodeVolumeNames[handlers[h].node][handlers[h].volume] # Absent
    <3> DEFINE i == nodeVolumeNames[handlers[h].node][handlers[h].volume]
               next == [pc |-> "deAllocateVolume", node |-> handlers[h].node,
                        volume |-> handlers[h].volume, index |-> i]
    <3>1. handlers' = [handlers EXCEPT ![h] = next]
      BY <1>5, <2>3 DEF Nodes!DeAllocate
    <3>2. i \in 0 .. MaxDevices - 1
      BY <2>1, <2>3
    <3>3. next \in Nodes!HandlerState
      BY <2>1, <3>2, HandlerTypes
    <3> QED
      BY <1>5, <3>1, <3>3 DEF Nodes!DeAllocate
  <2> QED
    BY <2>2, <2>3
<1>6. CASE Nodes!DeAllocateVolume(h)
  <2>1. handlers' \in [Handler -> Nodes!HandlerState]
    BY <1>0, <1>6, HandlerGoesOn DEF Nodes!DeAllocateVolume
  <2>2. volumes' \in [Node -> [0 .. MaxDevices - 1 -> SUBSET Volume]]
    <3> DEFINE n == handlers[h].node
               i == handlers[h].index
               v == handlers[h].volume
    <3>1. n \in Node /\ i \in 0 .. MaxDevices - 1 /\ v \in Volume
      BY <1>0, <1>6, HandlerFields DEF Nodes!DeAllocateVolume
    <3>2. volumes' = [volumes EXCEPT ![n][i] = @ \ {v}]
      BY <1>6 DEF Nodes!DeAllocateVolume
    <3> HIDE DEF n, i, v
    <3> QED
      BY <3>1, <3>2
  <2> QED
    BY <1>6, <2>1, <2>2 DEF Nodes!DeAllocateVolume
<1>7. CASE Nodes!DeAllocateName(h)
  <2>1. handlers' \in [Handler -> Nodes!HandlerState]
    BY <1>0, <1>7, HandlerFields, HandlerTypes DEF Nodes!DeAllocateName
  <2>2. nodeVolumeNames' \in [Node -> [Volume -> 0 .. MaxDevices - 1 \cup {Absent}]]
    BY <1>0, <1>7, HandlerFields DEF Nodes!DeAllocateName
  <2> QED
    BY <1>7, <2>1, <2>2 DEF Nodes!DeAllocateName
<1>8. CASE Nodes!Return(h)
  BY <1>8, HandlerTypes DEF Nodes!Return
<1> QED
  BY <1>1, <1>2, <1>3, <1>4, <1>5, <1>6, <1>7, <1>8 DEF Nodes!HandlerSteps

LEMMA RestartTypes ==
    ASSUME Nodes!TypeOK, NEW n \in Node, Nodes!Restart(n)
    PROVE  Nodes!TypeOK'
<1> USE DEF Nodes!TypeOK, Nodes!Restart
<1>1. nodeDevices' \in [Node -> Nodes!Discovered]
  BY DEF Nodes!Discovered
<1>2. volumes' \in [Node -> [Nodes!Index -> SUBSET Volume]]
  OBVIOUS
<1>3. nodeVolumeNames' \in [Node -> [Volume -> Nodes!Index \cup {Absent}]]
  OBVIOUS
<1>4. handlers' \in [Handler -> Nodes!HandlerState]
  BY HandlerTypes
<1> QED
  BY <1>1, <1>2, <1>3, <1>4

LEMMA TypeInitCDI == CDIInit => CDITypeOK
<1> SUFFICES ASSUME CDIInit PROVE CDITypeOK
  OBVIOUS
<1>1. TypeOK
  BY TypeInit, InitIsMaster
<1>2. Nodes!TypeOK
  BY HandlerTypes DEF CDIInit, Nodes!Init, Nodes!TypeOK
<1> QED
  BY <1>1, <1>2 DEF CDIInit, CDITypeOK

LEMMA TypeStepCDI ==
    CDITypeOK /\ ReportPending /\ [CDINext]_cdiVars => CDITypeOK'
<1> SUFFICES ASSUME CDITypeOK, ReportPending, [CDINext]_cdiVars PROVE CDITypeOK'
  OBVIOUS
<1>0. TypeOK'
  BY TypeStep, StepIsMaster DEF CDITypeOK
<1> USE DEF CDITypeOK, nodeVars, history
<1>1. ASSUME NEW c \in Caller, ControllerSteps(c) PROVE CDITypeOK'
  BY <1>0, <1>1 DEF ControllerSteps, Nodes!TypeOK
<1>2. ASSUME NEW c \in Caller, NEW h \in Handler, Asks(c, h) PROVE CDITypeOK'
  <2>1. /\ calls[c].volume \in Volume
        /\ Target(c).node \in Node /\ Target(c).index \in 0 .. MaxDevices - 1
    BY <1>2, TargetType DEF Asks
  <2>2. handlers' \in [Handler -> Nodes!HandlerState]
    <3> DEFINE creates == [pc |-> "allocate", node |-> Target(c).node,
                           volume |-> calls[c].volume, index |-> Target(c).index]
               deletes == [pc |-> "deAllocate", node |-> Target(c).node,
                           volume |-> calls[c].volume]
    <3>1. creates \in Nodes!HandlerState /\ deletes \in Nodes!HandlerState
      BY <2>1, HandlerTypes
    <3>2. \/ handlers' = [handlers EXCEPT ![h] = creates]
          \/ handlers' = [handlers EXCEPT ![h] = deletes]
      BY <1>2 DEF Asks, Nodes!CreateVolume, Nodes!DeleteVolume
    <3> QED
      BY <3>1, <3>2 DEF Nodes!TypeOK
  <2>3. UNCHANGED <<nodeDevices, volumes, nodeVolumeNames>>
    BY <1>2 DEF Asks, Nodes!CreateVolume, Nodes!DeleteVolume
  <2> QED
    BY <1>0, <1>2, <2>2, <2>3 DEF Asks, Nodes!TypeOK
<1>3. ASSUME NEW c \in Caller, AsksInVain(c) PROVE CDITypeOK'
  BY <1>0, <1>3 DEF AsksInVain, Nodes!TypeOK
<1>4. ASSUME NEW c \in Caller, Answered(c) PROVE CDITypeOK'
  <2>1. asked[c] \in Handler
    BY <1>4 DEF Answered
  <2>2. Nodes!TypeOK'
    BY <1>4, <2>1, NodeTypes DEF Answered
  <2> QED
    BY <1>0, <1>4, <2>2 DEF Answered
<1>5. ASSUME NEW c \in Caller, GivesUp(c) PROVE CDITypeOK'
  BY <1>0, <1>5 DEF GivesUp, Nodes!TypeOK
<1>6. ASSUME NEW h \in Handler, NodeSteps(h) PROVE CDITypeOK'
  BY <1>0, <1>6, NodeTypes DEF NodeSteps
<1>7. ASSUME NEW n \in Node, Registers(n) PROVE CDITypeOK'
  BY <1>0, <1>7 DEF Registers, Nodes!TypeOK
<1>8. ASSUME NEW n \in Node, ReportTaken(n) PROVE CDITypeOK'
  BY <1>0, <1>8 DEF ReportTaken, Nodes!TypeOK
<1>9. ASSUME NEW n \in Node, Unregisters(n) PROVE CDITypeOK'
  BY <1>0, <1>9 DEF Unregisters, Nodes!TypeOK
<1>10. ASSUME NEW n \in Node, NodeRestarts(n) PROVE CDITypeOK'
  BY <1>0, <1>10, RestartTypes DEF NodeRestarts
<1>11. ASSUME ControllerRestarts PROVE CDITypeOK'
  BY <1>0, <1>11 DEF ControllerRestarts, Nodes!TypeOK
<1>12. ASSUME UNCHANGED cdiVars PROVE CDITypeOK'
  BY <1>0, <1>12 DEF cdiVars, Nodes!TypeOK
<1>13. ASSUME NEW n \in Node, RegistrationFails(n) PROVE CDITypeOK'
  BY <1>0, <1>13 DEF RegistrationFails, Nodes!TypeOK
<1> QED
  BY <1>1, <1>2, <1>3, <1>4, <1>5, <1>6, <1>7, <1>8, <1>9, <1>10, <1>11, <1>12,
     <1>13 DEF CDINext, RegistrySteps

-----------------------------------------------------------------------------
\* Who serves whom.

\* What a handler is doing while it goes on, and what it keeps.
LEMMA HandlerEffect ==
    ASSUME Nodes!TypeOK, NEW h \in Handler, Nodes!HandlerSteps(h)
    PROVE  /\ handlers[h].pc \notin {"idle", "done"}
           /\ handlers'[h].pc # "idle"
           /\ handlers'[h].node = handlers[h].node
           /\ handlers'[h].pc # "done" =>
                  /\ handlers'[h].volume = handlers[h].volume
                  /\ handlers'[h].pc \in {"allocateVolume", "allocateName"} <=>
                         handlers[h].pc \in {"allocate", "allocateVolume"}
                  /\ handlers[h].pc # "deAllocate" =>
                         handlers'[h].index = handlers[h].index
                  /\ handlers'[h].pc # "allocate"
           /\ \A g \in Handler \ {h} : handlers'[g] = handlers[g]
           /\ UNCHANGED nodeDevices
<1> USE DEF Nodes!TypeOK
<1>0. handlers[h] \in Nodes!HandlerState
  OBVIOUS
<1>1. CASE Nodes!Allocate(h)
  BY <1>1, HandlerGoesOn DEF Nodes!Allocate
<1>2. CASE Nodes!AllocateFails(h)
  BY <1>2 DEF Nodes!AllocateFails, Nodes!Done
<1>3. CASE Nodes!AllocateVolume(h)
  BY <1>3 DEF Nodes!AllocateVolume
<1>4. CASE Nodes!AllocateName(h)
  BY <1>4 DEF Nodes!AllocateName, Nodes!Done
<1>5. CASE Nodes!DeAllocate(h)
  BY <1>5 DEF Nodes!DeAllocate, Nodes!Done
<1>6. CASE Nodes!DeAllocateVolume(h)
  BY <1>6 DEF Nodes!DeAllocateVolume
<1>7. CASE Nodes!DeAllocateName(h)
  BY <1>7 DEF Nodes!DeAllocateName, Nodes!Done
<1> QED
  BY <1>1, <1>2, <1>3, <1>4, <1>5, <1>6, <1>7 DEF Nodes!HandlerSteps

\* What the registry's callbacks leave alone.
LEMMA CallbackEffect ==
    ASSUME NEW n \in Node, OnNodeAdded(n) \/ OnNodeAddedUpdate(n) \/ OnNodeDeleted(n)
    PROVE  UNCHANGED <<calls, mutex, devicesByVolumeName>>
  BY DEF OnNodeAdded, OnNodeAddedUpdate, OnNodeDeleted, tables

\* What a step that touches neither the calls nor the handlers leaves alone.
LEMMA RegistryEffect ==
    ASSUME NEW n \in Node, RegistrySteps(n)
    PROVE  UNCHANGED <<calls, mutex, devicesByVolumeName, nodeVars, asked, history>>
  BY CallbackEffect DEF RegistrySteps, Registers, RegistrationFails, ReportTaken,
                        Unregisters, vars

LEMMA ServingStep ==
    ASSUME CDITypeOK, MutexHeld, Serving, [CDINext]_cdiVars
    PROVE  Serving'
<1> USE DEF Serving, Waiting, Target, nodeVars, history
<1>0. TypeOK /\ Nodes!TypeOK /\ asked \in [Caller -> Handler \cup {Absent}]
  BY DEF CDITypeOK
<1>1. ASSUME NEW c \in Caller, ControllerSteps(c) PROVE Serving'
  BY <1>0, <1>1, ControllerEffect
<1>2. ASSUME NEW c \in Caller, NEW h \in Handler, Asks(c, h) PROVE Serving'
  <2>1. /\ handlers[h].pc = "idle" /\ asked' = [asked EXCEPT ![c] = h]
        /\ UNCHANGED calls /\ Waiting(c)
    BY <1>2 DEF Asks, Nodes!CreateVolume, Nodes!DeleteVolume, vars
  <2>2. \A d \in Caller : asked[d] # h
    BY <2>1, HandlerAssumption
  <2>3. \A g \in Handler \ {h} : handlers'[g] = handlers[g]
    BY <1>0, <1>2 DEF Asks, Nodes!CreateVolume, Nodes!DeleteVolume, Nodes!TypeOK
  <2>4. \A d \in Caller \ {c} : asked'[d] = asked[d]
    BY <1>0, <2>1
  <2>5. asked'[c] = h
    BY <1>0, <2>1
  <2>6. /\ handlers'[h].pc \notin {"idle", "done"}
        /\ handlers'[h].node = Target(c).node
        /\ handlers'[h].volume = calls[c].volume
        /\ calls[c].pc = "create" <=> handlers'[h].pc = "allocate"
        /\ calls[c].pc = "create" => handlers'[h].index = Target(c).index
        /\ handlers'[h].pc \in {"allocate", "deAllocate"}
    BY <1>0, <1>2 DEF Asks, Nodes!CreateVolume, Nodes!DeleteVolume, Nodes!TypeOK
  <2>7. ASSUME NEW d \in Caller, asked'[d] # Absent, d # c
        PROVE  handlers'[asked'[d]] = handlers[asked[d]] /\ asked'[d] = asked[d]
    BY <1>0, <2>2, <2>3, <2>4, <2>7
  <2> QED
    BY <2>1, <2>5, <2>6, <2>7
<1>3. ASSUME NEW c \in Caller, AsksInVain(c) PROVE Serving'
  BY <1>0, <1>3, EndsEffect DEF AsksInVain
<1>4. ASSUME NEW c \in Caller, Answered(c) \/ GivesUp(c) PROVE Serving'
  <2>1. asked' = [asked EXCEPT ![c] = Absent] /\ Waiting(c)
    BY <1>4 DEF Answered, GivesUp
  <2>2. \A d \in Caller \ {c} : asked[d] = Absent
    BY <2>1, OneWaits
  <2> QED
    BY <1>0, <2>1, <2>2
<1>5. ASSUME NEW h \in Handler, NodeSteps(h) PROVE Serving'
  <2>1. UNCHANGED <<calls, asked>>
    BY <1>5 DEF NodeSteps, vars
  <2>2. CASE Nodes!HandlerSteps(h)
    <3>1. ASSUME NEW c \in Caller, asked[c] = h
          PROVE  /\ handlers'[h].pc # "idle"
                 /\ handlers'[h].node = Target(c).node
                 /\ handlers'[h].pc # "done" =>
                       /\ handlers'[h].volume = calls[c].volume
                       /\ calls[c].pc = "create" <=>
                              handlers'[h].pc
                                  \in {"allocate", "allocateVolume", "allocateName"}
                       /\ calls[c].pc = "create" =>
                              handlers'[h].index = Target(c).index
      <4>1. /\ handlers[h].pc \notin {"idle", "done"}
            /\ handlers[h].node = Target(c).node
            /\ handlers[h].volume = calls[c].volume
            /\ calls[c].pc = "create" <=>
                  handlers[h].pc \in {"allocate", "allocateVolume", "allocateName"}
            /\ calls[c].pc = "create" => handlers[h].index = Target(c).index
        BY <1>0, <2>2, <3>1, HandlerEffect, HandlerAssumption
      <4>2. handlers[h].pc = "allocateName" => handlers'[h].pc = "done"
        BY <1>0, <2>2
           DEF Nodes!HandlerSteps, Nodes!Allocate, Nodes!AllocateFails,
               Nodes!AllocateVolume, Nodes!AllocateName, Nodes!DeAllocate,
               Nodes!DeAllocateVolume, Nodes!DeAllocateName, Nodes!Done, Nodes!TypeOK
      <4> QED
        BY <1>0, <2>2, <4>1, <4>2, HandlerEffect
    <3>2. \A g \in Handler \ {h} : handlers'[g] = handlers[g]
      BY <1>0, <2>2, HandlerEffect
    <3> QED
      BY <1>0, <2>1, <3>1, <3>2
  <2>3. CASE h \in Orphans /\ Nodes!Return(h)
    <3>1. \A c \in Caller : asked[c] # h
      BY <2>3 DEF Orphans
    <3>2. \A g \in Handler \ {h} : handlers'[g] = handlers[g]
      BY <1>0, <2>3 DEF Nodes!Return, Nodes!TypeOK
    <3> QED
      BY <1>0, <2>1, <3>1, <3>2
  <2> QED
    BY <1>5, <2>2, <2>3 DEF NodeSteps
<1>6. ASSUME NEW n \in Node, RegistrySteps(n)
      PROVE  Serving'
  BY <1>6, RegistryEffect
<1>7. ASSUME NEW n \in Node, NodeRestarts(n) PROVE Serving'
  <2>1. UNCHANGED <<calls, asked>>
    BY <1>7 DEF NodeRestarts, vars
  <2>2. \A h \in Handler :
            \/ handlers'[h] = handlers[h]
            \/ /\ handlers'[h].pc = "done"
               /\ handlers'[h].node = handlers[h].node
    BY <1>0, <1>7 DEF NodeRestarts, Nodes!Restart, Nodes!Done
  <2> QED
    BY <1>0, <2>1, <2>2
<1>8. ASSUME ControllerRestarts PROVE Serving'
  BY <1>8 DEF ControllerRestarts
<1>9. ASSUME UNCHANGED cdiVars PROVE Serving'
  BY <1>9 DEF cdiVars, vars
<1> QED
  BY <1>1, <1>2, <1>3, <1>4, <1>5, <1>6, <1>7, <1>8, <1>9 DEF CDINext

LEMMA NoOrphansStep ==
    ASSUME CDITypeOK, MutexHeld, Serving, NoOrphans, [CDINext]_cdiVars
    PROVE  NoOrphans'
<1> SUFFICES ASSUME ~givenUp', NEW h \in Handler,
                    \A c \in Caller : asked'[c] # h
             PROVE  handlers'[h].pc = "idle"
  BY DEF NoOrphans, Orphans
<1> USE DEF NoOrphans, Orphans, nodeVars, history
<1>0. TypeOK /\ Nodes!TypeOK /\ asked \in [Caller -> Handler \cup {Absent}]
  BY DEF CDITypeOK
<1>1. ASSUME NEW c \in Caller, ControllerSteps(c) PROVE handlers'[h].pc = "idle"
  BY <1>0, <1>1, ControllerEffect
<1>2. ASSUME NEW c \in Caller, NEW g \in Handler, Asks(c, g)
      PROVE  handlers'[h].pc = "idle"
  <2>1. asked' = [asked EXCEPT ![c] = g] /\ asked[c] = Absent /\ UNCHANGED givenUp
    BY <1>2 DEF Asks
  <2>2. h # g /\ \A d \in Caller : asked[d] # h
    BY <1>0, <2>1, HandlerAssumption
  <2>3. handlers'[h] = handlers[h]
    BY <1>0, <1>2, <2>2 DEF Asks, Nodes!CreateVolume, Nodes!DeleteVolume, Nodes!TypeOK
  <2> QED
    BY <2>1, <2>2, <2>3
<1>3. ASSUME NEW c \in Caller, AsksInVain(c) PROVE handlers'[h].pc = "idle"
  BY <1>3 DEF AsksInVain
<1>4. ASSUME NEW c \in Caller, Answered(c) PROVE handlers'[h].pc = "idle"
  <2>1. /\ asked[c] \in Handler /\ UNCHANGED givenUp
        /\ handlers' = [handlers EXCEPT ![asked[c]] = Nodes!Idle]
        /\ asked' = [asked EXCEPT ![c] = Absent]
    BY <1>0, <1>4 DEF Answered, Nodes!Return
  <2>2. CASE h = asked[c]
    BY <1>0, <2>1, <2>2, HandlerTypes DEF Nodes!TypeOK
  <2>3. CASE h # asked[c]
    BY <1>0, <2>1, <2>3 DEF Nodes!TypeOK
  <2> QED
    BY <2>2, <2>3
<1>5. ASSUME NEW c \in Caller, GivesUp(c) PROVE handlers'[h].pc = "idle"
  BY <1>5 DEF GivesUp
<1>6. ASSUME NEW g \in Handler, NodeSteps(g) PROVE handlers'[h].pc = "idle"
  <2>1. UNCHANGED <<asked, givenUp>> /\ handlers[h].pc = "idle"
    BY <1>6 DEF NodeSteps
  <2>2. CASE Nodes!HandlerSteps(g)
    BY <1>0, <2>1, <2>2, HandlerEffect
  <2>3. CASE Nodes!Return(g)
    BY <1>0, <2>1, <2>3 DEF Nodes!Return, Nodes!TypeOK
  <2> QED
    BY <1>6, <2>2, <2>3 DEF NodeSteps
<1>7. ASSUME NEW n \in Node, RegistrySteps(n)
      PROVE  handlers'[h].pc = "idle"
  BY <1>7, RegistryEffect
<1>8. ASSUME NEW n \in Node, NodeRestarts(n) PROVE handlers'[h].pc = "idle"
  BY <1>0, <1>8 DEF NodeRestarts, Nodes!Restart
<1>9. ASSUME ControllerRestarts PROVE handlers'[h].pc = "idle"
  BY <1>0, <1>9 DEF ControllerRestarts
<1>10. ASSUME UNCHANGED cdiVars PROVE handlers'[h].pc = "idle"
  BY <1>10 DEF cdiVars
<1> QED
  BY <1>1, <1>2, <1>3, <1>4, <1>5, <1>6, <1>7, <1>8, <1>9, <1>10 DEF CDINext

\* Until a call is given up, a handler that goes on serves the one caller that
\* waits.
LEMMA ServedByOne ==
    ASSUME MutexHeld, Serving, NoOrphans, ~givenUp,
           NEW h \in Handler, handlers[h].pc # "idle"
    PROVE  \E c \in Caller :
               /\ asked[c] = h /\ Waiting(c)
               /\ \A d \in Caller \ {c} : asked[d] = Absent
<1>1. PICK c \in Caller : asked[c] = h
  BY DEF NoOrphans, Orphans
<1>2. Waiting(c)
  BY <1>1, HandlerAssumption DEF Serving
<1>3. \A d \in Caller \ {c} : asked[d] = Absent
  BY <1>2, OneWaits DEF Serving
<1> QED
  BY <1>1, <1>2, <1>3

-----------------------------------------------------------------------------
\* What a CreateVolume has done on the node.

\* The steps that concern no call that waits for its CreateVolume.
LEMMA CreatedKept ==
    ASSUME Created, ~givenUp, UNCHANGED <<volumes, nodeVolumeNames, ended>>,
           \A c \in Caller :
               (calls'[c].pc = "create" /\ asked'[c] # Absent) =>
                   /\ calls'[c] = calls[c] /\ asked'[c] = asked[c]
                   /\ handlers'[asked[c]] = handlers[asked[c]]
    PROVE  Created'
<1> DEFINE Done(c) ==
               LET v  == calls[c].volume
                   id == Target(c)
               IN  (calls[c].pc = "create" /\ asked[c] # Absent) =>
                       /\ handlers[asked[c]].pc = "allocateName" =>
                              v \in volumes[id.node][id.index]
                       /\ (Named(c) /\ id.node \notin ended) =>
                              /\ v \in volumes[id.node][id.index]
                              /\ nodeVolumeNames[id.node][v] = id.index
<1>1. \A c \in Caller : Done(c)
  BY DEF Created
<1>2. ASSUME NEW c \in Caller, calls'[c].pc = "create", asked'[c] # Absent
      PROVE  Done(c)'
  <2>1. /\ calls'[c] = calls[c] /\ asked'[c] = asked[c]
        /\ handlers'[asked[c]] = handlers[asked[c]]
    BY <1>2
  <2>2. Target(c)' = Target(c) /\ Named(c)' = Named(c)
    BY <2>1 DEF Target, Named
  <2> QED
    BY <1>1, <1>2, <2>1, <2>2
<1>3. \A c \in Caller : Done(c)'
  BY <1>2
<1> QED
  BY <1>3 DEF Created

LEMMA CreatedStep ==
    ASSUME CDITypeOK, MutexHeld, Serving, NoOrphans, Created, [CDINext]_cdiVars
    PROVE  Created'
<1> SUFFICES ASSUME ~givenUp' PROVE Created'
  BY DEF Created
<1> USE DEF Named, Target, nodeVars, history
<1>0. TypeOK /\ Nodes!TypeOK /\ asked \in [Caller -> Handler \cup {Absent}]
  BY DEF CDITypeOK
<1>1. ASSUME NEW c \in Caller, ControllerSteps(c) PROVE Created'
  <2>1. asked[c] = Absent /\ UNCHANGED <<nodeVars, asked, history>>
    BY <1>0, <1>1, ControllerEffect DEF Serving
  <2>2. \A d \in Caller \ {c} : calls'[d] = calls[d]
    BY <1>0, <1>1, ControllerEffect
  <2> QED
    BY <2>1, <2>2, CreatedKept
<1>2. ASSUME NEW c \in Caller, NEW h \in Handler, Asks(c, h) PROVE Created'
  <2>1. asked' = [asked EXCEPT ![c] = h] /\ Waiting(c)
    BY <1>2 DEF Asks
  <2>2. \A d \in Caller \ {c} : asked'[d] = Absent
    BY <1>0, <2>1, OneWaits DEF Serving
  <2>3. asked'[c] = h
    BY <1>0, <2>1
  <2>4. handlers'[h].pc \in {"allocate", "deAllocate"}
    BY <1>0, <1>2 DEF Asks, Nodes!CreateVolume, Nodes!DeleteVolume, Nodes!TypeOK
  <2> QED
    BY <2>2, <2>3, <2>4 DEF Created
<1>3. ASSUME NEW c \in Caller, AsksInVain(c) PROVE Created'
  <2>1. asked[c] = Absent /\ UNCHANGED <<nodeVars, asked, history>>
    BY <1>3 DEF AsksInVain
  <2>2. \A d \in Caller \ {c} : calls'[d] = calls[d]
    BY <1>0, <1>3, EndsEffect DEF AsksInVain
  <2> QED
    BY <2>1, <2>2, CreatedKept
<1>4. ASSUME NEW c \in Caller, Answered(c) PROVE Created'
  <2>1. asked' = [asked EXCEPT ![c] = Absent] /\ Waiting(c)
    BY <1>4 DEF Answered
  <2>2. \A d \in Caller : asked'[d] = Absent
    BY <1>0, <2>1, OneWaits DEF Serving
  <2> QED
    BY <2>2 DEF Created
<1>5. ASSUME NEW c \in Caller, GivesUp(c) PROVE Created'
  BY <1>5 DEF GivesUp
<1>6. ASSUME NEW h \in Handler, NodeSteps(h) PROVE Created'
  <2>1. UNCHANGED <<vars, asked, givenUp, ended>>
    BY <1>6 DEF NodeSteps
  <2>2. handlers[h].pc # "idle"
    BY <1>0, <1>6, HandlerEffect DEF NodeSteps, Nodes!Return
  <2>3. PICK c \in Caller : /\ asked[c] = h /\ Waiting(c)
                            /\ \A d \in Caller \ {c} : asked[d] = Absent
    BY <2>1, <2>2, ServedByOne
  <2>4. Nodes!HandlerSteps(h)
    BY <1>6, <2>3 DEF NodeSteps, Orphans
  <2>5. SUFFICES ASSUME calls[c].pc = "create"
                 PROVE  LET v  == calls[c].volume
                            id == Target(c)
                        IN  /\ handlers'[h].pc = "allocateName" =>
                                   v \in volumes'[id.node][id.index]
                            /\ (/\ handlers'[h].pc = "done"
                                /\ handlers'[h].code = "OK"
                                /\ id.node \notin ended) =>
                                   /\ v \in volumes'[id.node][id.index]
                                   /\ nodeVolumeNames'[id.node][v] = id.index
    BY <2>1, <2>3 DEF vars, Created
  <2> DEFINE v == calls[c].volume
             n == Target(c).node
             i == Target(c).index
  <2>6. v \in Volume /\ n \in Node /\ i \in Nodes!Index
    BY <1>0, <2>3, TargetType DEF Nodes!Index
  <2>7. /\ handlers[h].pc # "done"
        /\ handlers[h].pc \in {"allocate", "allocateVolume", "allocateName"}
        /\ handlers[h].node = n /\ handlers[h].volume = v /\ handlers[h].index = i
    BY <1>0, <2>3, <2>4, <2>5, HandlerEffect, HandlerAssumption DEF Serving
  <2>8. CASE Nodes!Allocate(h)
    <3>1. handlers'[h].pc = "allocateVolume"
      BY <1>0, <2>8 DEF Nodes!Allocate, Nodes!TypeOK
    <3> QED
      BY <3>1
  <2>9. CASE Nodes!AllocateFails(h)
    BY <1>0, <2>9 DEF Nodes!AllocateFails, Nodes!Done, Nodes!TypeOK
  <2>10. CASE Nodes!AllocateVolume(h)
    <3>1. v \in volumes'[n][i]
      BY <1>0, <2>6, <2>7, <2>10 DEF Nodes!AllocateVolume, Nodes!TypeOK
    <3>2. handlers'[h].pc = "allocateName"
      BY <1>0, <2>10 DEF Nodes!AllocateVolume, Nodes!TypeOK
    <3> QED
      BY <3>1, <3>2
  <2>11. CASE Nodes!AllocateName(h)
    <3>1. nodeVolumeNames'[n][v] = i /\ UNCHANGED volumes
      BY <1>0, <2>6, <2>7, <2>11 DEF Nodes!AllocateName, Nodes!TypeOK
    <3>2. v \in volumes[n][i]
      BY <2>1, <2>3, <2>5, <2>11, HandlerAssumption
         DEF Nodes!AllocateName, Created
    <3>3. handlers'[h].pc = "done"
      BY <1>0, <2>11 DEF Nodes!AllocateName, Nodes!Done, Nodes!TypeOK
    <3> QED
      BY <3>1, <3>2, <3>3
  <2> QED
    BY <2>4, <2>7, <2>8, <2>9, <2>10, <2>11
       DEF Nodes!HandlerSteps, Nodes!DeAllocate, Nodes!DeAllocateVolume,
           Nodes!DeAllocateName
<1>7. ASSUME NEW n \in Node, RegistrySteps(n)
      PROVE  Created'
  BY <1>7, RegistryEffect, CreatedKept
<1>8. ASSUME NEW n \in Node, NodeRestarts(n) PROVE Created'
  <2>1. UNCHANGED <<calls, asked, givenUp>> /\ ended' = ended \cup {n}
    BY <1>8 DEF NodeRestarts, vars
  <2>2. \A h \in Handler :
            \/ handlers'[h] = handlers[h] /\ handlers[h].node # n
            \/ handlers'[h] = handlers[h] /\ handlers[h].pc \in {"idle", "done"}
            \/ handlers'[h].pc = "done" /\ handlers'[h].code = "Internal"
    BY <1>0, <1>8 DEF NodeRestarts, Nodes!Restart, Nodes!Done
  <2>3. \A m \in Node \ {n} : /\ volumes'[m] = volumes[m]
                              /\ nodeVolumeNames'[m] = nodeVolumeNames[m]
    BY <1>0, <1>8 DEF NodeRestarts, Nodes!Restart, Nodes!TypeOK
  <2>4. ASSUME NEW c \in Caller, calls[c].pc = "create", asked[c] # Absent
        PROVE  /\ asked[c] \in Handler
               /\ Target(c).node \in Node
               /\ handlers[asked[c]].pc # "idle"
               /\ handlers[asked[c]].node = Target(c).node
    BY <1>0, <2>4, TargetType DEF Serving, Waiting
  <2>5. ASSUME NEW c \in Caller, calls[c].pc = "create", asked[c] # Absent
        PROVE  \/ handlers'[asked[c]] = handlers[asked[c]] /\ Target(c).node # n
               \/ /\ handlers'[asked[c]].pc = "done"
                  /\ \/ handlers'[asked[c]].code = "Internal"
                     \/ Target(c).node = n
    BY <2>2, <2>4, <2>5
  <2>6. ASSUME NEW c \in Caller, calls[c].pc = "create", asked[c] # Absent,
               Target(c).node # n
        PROVE  /\ volumes'[Target(c).node] = volumes[Target(c).node]
               /\ nodeVolumeNames'[Target(c).node] = nodeVolumeNames[Target(c).node]
    BY <2>3, <2>4, <2>6
  <2> QED
    <3> SUFFICES ASSUME NEW c \in Caller, calls[c].pc = "create", asked[c] # Absent
                 PROVE  LET v  == calls[c].volume
                            id == Target(c)
                        IN  /\ handlers'[asked[c]].pc = "allocateName" =>
                                   v \in volumes'[id.node][id.index]
                            /\ (/\ handlers'[asked[c]].pc = "done"
                                /\ handlers'[asked[c]].code = "OK"
                                /\ id.node \notin ended \cup {n}) =>
                                   /\ v \in volumes'[id.node][id.index]
                                   /\ nodeVolumeNames'[id.node][v] = id.index
      BY <2>1 DEF Created
    <3>1. CASE Target(c).node = n
      BY <2>5, <3>1
    <3>2. CASE Target(c).node # n
      <4>1. handlers[asked[c]].pc = "allocateName" =>
                calls[c].volume \in volumes[Target(c).node][Target(c).index]
        BY <2>1 DEF Created
      <4>2. (/\ handlers[asked[c]].pc = "done"
             /\ handlers[asked[c]].code = "OK"
             /\ Target(c).node \notin ended) =>
                /\ calls[c].volume \in volumes[Target(c).node][Target(c).index]
                /\ nodeVolumeNames[Target(c).node][calls[c].volume] = Target(c).index
        BY <2>1 DEF Created
      <4> QED
        BY <2>5, <2>6, <3>2, <4>1, <4>2
    <3> QED
      BY <3>1, <3>2
<1>9. ASSUME ControllerRestarts PROVE Created'
  BY <1>9 DEF ControllerRestarts, Created
<1>10. ASSUME UNCHANGED cdiVars PROVE Created'
  BY <1>10, CreatedKept DEF cdiVars, vars
<1> QED
  BY <1>1, <1>2, <1>3, <1>4, <1>5, <1>6, <1>7, <1>8, <1>9, <1>10 DEF CDINext

-----------------------------------------------------------------------------
\* What the controller remembers.

\* A volume that is remembered is not the one a node is asked to delete.
LEMMA DeletedNotRemembered ==
    ASSUME MasterInv, Serving, NEW c \in Caller, asked[c] # Absent,
           handlers[asked[c]].pc \in {"deAllocateVolume", "deAllocateName"}
    PROVE  /\ devicesByVolumeName[calls[c].volume] = Absent
           /\ handlers[asked[c]].volume = calls[c].volume
  BY DEF MasterInv, DeletedStaysDeleted, Serving, Waiting

LEMMA ChargedNodeStep ==
    ASSUME CDITypeOK, MasterInv, Serving, NoOrphans, Charged, ~givenUp,
           NEW h \in Handler, NodeSteps(h)
    PROVE  Charged'
<1> USE DEF Named, nodeVars, history
<1>0. /\ TypeOK /\ Nodes!TypeOK /\ MutexHeld
      /\ asked \in [Caller -> Handler \cup {Absent}]
  BY DEF CDITypeOK, MasterInv
<1>1. UNCHANGED <<vars, asked, givenUp, ended>>
  BY DEF NodeSteps
<1>2. handlers[h].pc # "idle"
  BY <1>0, HandlerEffect DEF NodeSteps, Nodes!Return
<1>3. PICK c \in Caller : /\ asked[c] = h /\ Waiting(c)
                          /\ \A d \in Caller \ {c} : asked[d] = Absent
  BY <1>0, <1>2, ServedByOne
<1>4. Nodes!HandlerSteps(h)
  BY <1>3 DEF NodeSteps, Orphans
<1>5. handlers[h].pc # "done"
  BY <1>0, <1>4, HandlerEffect
<1>6. \A d \in Caller : ~Named(d)
  BY <1>3, <1>5
<1>7. \A v \in Volume : devicesByVolumeName[v] # Absent =>
          /\ devicesByVolumeName[v].ID.node \in Node
          /\ devicesByVolumeName[v].ID.index \in Nodes!Index
  BY <1>0 DEF TypeOK, Address, DeviceID, Nodes!Index
<1>8. /\ handlers[h].node \in Node /\ handlers[h].volume \in Volume
      /\ handlers[h].pc # "deAllocate" => handlers[h].index \in Nodes!Index
  BY <1>0, <1>2, <1>5, HandlerFields DEF Nodes!TypeOK, Nodes!Index
<1>9. \A v \in Volume :
          LET id == devicesByVolumeName[v].ID
          IN  (devicesByVolumeName[v] # Absent /\ id.node \notin ended) =>
                  /\ v \in volumes[id.node][id.index]
                  /\ nodeVolumeNames[id.node][v] = id.index
  BY <1>6 DEF Charged
<1>10. SUFFICES ASSUME NEW v \in Volume, devicesByVolumeName[v] # Absent,
                       devicesByVolumeName[v].ID.node \notin ended
                PROVE  LET id == devicesByVolumeName[v].ID
                       IN  /\ v \in volumes'[id.node][id.index]
                           /\ \/ nodeVolumeNames'[id.node][v] = id.index
                              \/ \E d \in Caller : Named(d)' /\ calls[d].volume = v
  BY <1>1 DEF Charged, vars
<1> DEFINE n == devicesByVolumeName[v].ID.node
           i == devicesByVolumeName[v].ID.index
<1>11. v \in volumes[n][i] /\ nodeVolumeNames[n][v] = i /\ n \in Node /\ i \in Nodes!Index
  BY <1>7, <1>9, <1>10
<1> HIDE DEF n, i
<1>12. SUFFICES /\ v \in volumes'[n][i]
                /\ \/ nodeVolumeNames'[n][v] = i
                   \/ \E d \in Caller : Named(d)' /\ calls[d].volume = v
  BY DEF n, i
<1>13. CASE Nodes!Allocate(h)
  BY <1>11, <1>13 DEF Nodes!Allocate
<1>14. CASE Nodes!AllocateFails(h)
  BY <1>11, <1>14 DEF Nodes!AllocateFails
<1>15. CASE Nodes!AllocateVolume(h)
  <2>1. v \in volumes'[n][i]
    BY <1>0, <1>8, <1>11, <1>15 DEF Nodes!AllocateVolume, Nodes!TypeOK
  <2> QED
    BY <1>11, <1>15, <2>1 DEF Nodes!AllocateVolume
<1>16. CASE Nodes!AllocateName(h)
  <2>1. handlers[h].volume = calls[c].volume /\ calls[c].pc = "create"
    BY <1>3, <1>16, HandlerAssumption DEF Serving, Nodes!AllocateName
  <2>2. UNCHANGED volumes
    BY <1>16 DEF Nodes!AllocateName
  <2>3. CASE v = handlers[h].volume
    <3>1. handlers'[h].pc = "done" /\ handlers'[h].code = "OK"
      BY <1>0, <1>16 DEF Nodes!AllocateName, Nodes!Done, Nodes!TypeOK
    <3>2. Named(c)'
      BY <1>1, <1>3, <2>1, <3>1, HandlerAssumption DEF vars
    <3> QED
      BY <1>11, <2>1, <2>2, <2>3, <3>2
  <2>4. CASE v # handlers[h].volume
    <3>1. nodeVolumeNames'[n][v] = nodeVolumeNames[n][v]
      BY <1>0, <1>8, <1>11, <1>16, <2>4 DEF Nodes!AllocateName, Nodes!TypeOK
    <3> QED
      BY <1>11, <2>2, <3>1
  <2> QED
    BY <2>3, <2>4
<1>17. CASE Nodes!DeAllocate(h)
  BY <1>11, <1>17 DEF Nodes!DeAllocate
<1>18. CASE Nodes!DeAllocateVolume(h)
  <2>1. v # handlers[h].volume
    BY <1>3, <1>10, <1>18, DeletedNotRemembered, HandlerAssumption
       DEF Nodes!DeAllocateVolume
  <2>2. v \in volumes'[n][i]
    BY <1>0, <1>8, <1>11, <1>18, <2>1 DEF Nodes!DeAllocateVolume, Nodes!TypeOK
  <2> QED
    BY <1>11, <1>18, <2>2 DEF Nodes!DeAllocateVolume
<1>19. CASE Nodes!DeAllocateName(h)
  <2>1. v # handlers[h].volume
    BY <1>3, <1>10, <1>19, DeletedNotRemembered, HandlerAssumption
       DEF Nodes!DeAllocateName
  <2>2. nodeVolumeNames'[n][v] = nodeVolumeNames[n][v]
    BY <1>0, <1>8, <1>11, <1>19, <2>1 DEF Nodes!DeAllocateName, Nodes!TypeOK
  <2> QED
    BY <1>11, <1>19, <2>2 DEF Nodes!DeAllocateName
<1> QED
  BY <1>4, <1>13, <1>14, <1>15, <1>16, <1>17, <1>18, <1>19 DEF Nodes!HandlerSteps

LEMMA ChargedAnswered ==
    ASSUME CDITypeOK, MasterInv, Serving, Created, Charged, ~givenUp,
           NEW c \in Caller, Answered(c)
    PROVE  Charged'
<1>0. /\ TypeOK /\ Nodes!TypeOK /\ MutexHeld
      /\ asked \in [Caller -> Handler \cup {Absent}]
  BY DEF CDITypeOK, MasterInv
<1>1. /\ Waiting(c) /\ asked[c] \in Handler /\ UNCHANGED <<ended, givenUp>>
      /\ UNCHANGED <<volumes, nodeVolumeNames>>
      /\ handlers[asked[c]].pc = "done"
  BY <1>0 DEF Answered, history, Nodes!Return
<1>2. \A d \in Caller : Named(d) => d = c
  BY <1>0, <1>1, OneWaits DEF Named, Waiting
<1>3. CASE CreateVolumeSucceeds(c) /\ handlers[asked[c]].code = "OK"
  <2> DEFINE v == calls[c].volume
             id == Target(c)
  <2>1. devicesByVolumeName' = [devicesByVolumeName EXCEPT ![v] = calls[c].device]
    BY <1>3 DEF CreateVolumeSucceeds
  <2>2. Named(c)
    BY <1>1, <1>3, HandlerAssumption DEF Named, CreateVolumeSucceeds
  <2>3. id.node \notin ended =>
            v \in volumes[id.node][id.index] /\ nodeVolumeNames[id.node][v] = id.index
    BY <2>2 DEF Created, Named
  <2>4. \A w \in Volume \ {v} : devicesByVolumeName'[w] = devicesByVolumeName[w]
    BY <1>0, <2>1 DEF TypeOK
  <2>5. v \in Volume => devicesByVolumeName'[v].ID = id
    BY <1>0, <2>1 DEF TypeOK, Target
  <2>6. ASSUME NEW w \in Volume \ {v}, devicesByVolumeName[w] # Absent,
               devicesByVolumeName[w].ID.node \notin ended
        PROVE  /\ w \in volumes[devicesByVolumeName[w].ID.node][devicesByVolumeName[w].ID.index]
               /\ nodeVolumeNames[devicesByVolumeName[w].ID.node][w]
                     = devicesByVolumeName[w].ID.index
    BY <1>2, <2>6 DEF Charged
  <2> QED
    BY <1>1, <2>3, <2>4, <2>5, <2>6 DEF Charged
<1>4. CASE \/ CreateVolumeFails(c) /\ handlers[asked[c]].code = "Internal"
           \/ DeleteVolumeReturns(c)
  <2>1. ~Named(c)
    BY <1>4 DEF Named, DeleteVolumeReturns
  <2>2. UNCHANGED devicesByVolumeName
    BY <1>4 DEF CreateVolumeFails, DeleteVolumeReturns, tables
  <2> QED
    BY <1>1, <1>2, <2>1, <2>2 DEF Charged
<1> QED
  BY <1>3, <1>4 DEF Answered, Ends

LEMMA ChargedStep ==
    ASSUME CDITypeOK, MasterInv, Serving, NoOrphans, Created, Charged,
           [CDINext]_cdiVars
    PROVE  Charged'
<1> SUFFICES ASSUME ~givenUp' PROVE Charged'
  BY DEF Charged
<1> USE DEF nodeVars, history
<1>0. /\ TypeOK /\ Nodes!TypeOK /\ MutexHeld
      /\ asked \in [Caller -> Handler \cup {Absent}]
  BY DEF CDITypeOK, MasterInv
<1>1. ASSUME NEW c \in Caller, ControllerSteps(c) PROVE Charged'
  <2>1. /\ UNCHANGED <<volumes, nodeVolumeNames, handlers, asked, ended, givenUp>>
        /\ \A d \in Caller \ {c} : calls'[d] = calls[d]
        /\ ~Waiting(c)
    BY <1>0, <1>1, ControllerEffect
  <2>2. \A d \in Caller : Named(d) => Named(d)' /\ calls'[d] = calls[d]
    BY <2>1 DEF Named, Waiting
  <2>3. \A v \in Volume : devicesByVolumeName'[v] \in {devicesByVolumeName[v], Absent}
    <3>1. CASE CreateVolume(c) \/ CreateVolumeLocks(c) \/ DeleteVolume(c)
      BY <1>0, <3>1 DEF CreateVolume, CreateVolumeLocks, CreateVolumeFinds,
         CreateVolumeFindsNothing, DeleteVolume, tables
    <3>2. CASE DeleteVolumeForgets(c)
      BY <1>0, <3>2 DEF DeleteVolumeForgets, TypeOK
    <3> QED
      BY <1>1, <3>1, <3>2 DEF ControllerSteps
  <2> QED
    BY <2>1, <2>2, <2>3 DEF Charged
<1>2. ASSUME NEW c \in Caller, NEW h \in Handler, Asks(c, h) PROVE Charged'
  <2>1. Waiting(c) /\ asked[c] = Absent /\ UNCHANGED <<vars, ended, givenUp>>
    BY <1>2 DEF Asks
  <2>2. \A d \in Caller : ~Named(d)
    BY <1>0, <2>1, OneWaits DEF Named, Waiting
  <2>3. UNCHANGED <<volumes, nodeVolumeNames>>
    BY <1>2 DEF Asks, Nodes!CreateVolume, Nodes!DeleteVolume
  <2> QED
    BY <2>1, <2>2, <2>3 DEF Charged, vars
<1>3. ASSUME NEW c \in Caller, AsksInVain(c) PROVE Charged'
  <2>1. Waiting(c) /\ asked[c] = Absent /\ UNCHANGED <<nodeVars, ended, givenUp>>
    BY <1>3 DEF AsksInVain
  <2>2. \A d \in Caller : ~Named(d)
    BY <1>0, <2>1, OneWaits DEF Named, Waiting
  <2>3. UNCHANGED devicesByVolumeName
    BY <1>3 DEF AsksInVain, Ends, CreateVolumeFails, DeleteVolumeReturns, tables
  <2> QED
    BY <2>1, <2>2, <2>3 DEF Charged
<1>4. ASSUME NEW c \in Caller, Answered(c) PROVE Charged'
  <2>1. ~givenUp
    BY <1>4 DEF Answered
  <2> QED
    BY <1>4, <2>1, ChargedAnswered
<1>5. ASSUME NEW c \in Caller, GivesUp(c) PROVE Charged'
  BY <1>5 DEF GivesUp
<1>6. ASSUME NEW h \in Handler, NodeSteps(h) PROVE Charged'
  <2>1. ~givenUp
    BY <1>6 DEF NodeSteps
  <2> QED
    BY <1>6, <2>1, ChargedNodeStep
<1>7. ASSUME NEW n \in Node, RegistrySteps(n)
      PROVE  Charged'
  BY <1>7, RegistryEffect DEF Charged, Named
<1>8. ASSUME NEW n \in Node, NodeRestarts(n) PROVE Charged'
  <2>1. UNCHANGED <<vars, asked, givenUp>> /\ ended' = ended \cup {n}
    BY <1>8 DEF NodeRestarts
  <2>2. \A m \in Node \ {n} : /\ volumes'[m] = volumes[m]
                              /\ nodeVolumeNames'[m] = nodeVolumeNames[m]
    BY <1>0, <1>8 DEF NodeRestarts, Nodes!Restart, Nodes!TypeOK
  <2>3. \A c \in Caller : Named(c) => Named(c)'
    BY <1>0, <1>8, <2>1 DEF NodeRestarts, Nodes!Restart, Named, vars
  <2>4. \A v \in Volume : devicesByVolumeName[v] # Absent =>
            devicesByVolumeName[v].ID.node \in Node
    BY <1>0 DEF TypeOK, Address, DeviceID
  <2> QED
    BY <2>1, <2>2, <2>3, <2>4 DEF Charged, vars
<1>9. ASSUME ControllerRestarts PROVE Charged'
  BY <1>9 DEF ControllerRestarts, Restart, Charged
<1>10. ASSUME UNCHANGED cdiVars PROVE Charged'
  BY <1>10 DEF cdiVars, vars, Charged, Named
<1> QED
  BY <1>1, <1>2, <1>3, <1>4, <1>5, <1>6, <1>7, <1>8, <1>9, <1>10 DEF CDINext

-----------------------------------------------------------------------------
\* The two maps of a node.

LEMMA TablesNodeStep ==
    ASSUME CDITypeOK, MutexHeld, Serving, NoOrphans, Created, ~givenUp,
           Nodes!TablesAgree, NEW h \in Handler, NodeSteps(h)
    PROVE  Nodes!TablesAgree'
<1>0. /\ TypeOK /\ Nodes!TypeOK
      /\ asked \in [Caller -> Handler \cup {Absent}]
  BY DEF CDITypeOK
<1>1. handlers[h].pc # "idle"
  BY <1>0, HandlerEffect DEF NodeSteps, Nodes!Return
<1>2. PICK c \in Caller : /\ asked[c] = h /\ Waiting(c)
                          /\ \A d \in Caller \ {c} : asked[d] = Absent
  BY <1>1, ServedByOne
<1>3. Nodes!HandlerSteps(h)
  BY <1>2 DEF NodeSteps, Orphans
<1>4. /\ handlers[h].node \in Node /\ handlers[h].volume \in Volume
      /\ handlers[h].pc # "deAllocate" => handlers[h].index \in Nodes!Index
  BY <1>0, <1>1, <1>3, HandlerFields, HandlerEffect DEF Nodes!TypeOK, Nodes!Index
<1>5. \A g \in Handler \ {h} : handlers'[g] = handlers[g]
  BY <1>0, <1>3, HandlerEffect
<1>6. SUFFICES ASSUME NEW n \in Node, NEW v \in Volume,
                      nodeVolumeNames'[n][v] # Absent
               PROVE  \/ v \in volumes'[n][nodeVolumeNames'[n][v]]
                      \/ \E g \in Handler :
                            /\ handlers'[g].pc = "deAllocateName"
                            /\ handlers'[g].node = n /\ handlers'[g].volume = v
  BY DEF Nodes!TablesAgree
<1>7. ASSUME handlers[h].pc # "deAllocateName",
             UNCHANGED <<volumes, nodeVolumeNames>>
      PROVE  \/ v \in volumes'[n][nodeVolumeNames'[n][v]]
             \/ \E g \in Handler :
                   /\ handlers'[g].pc = "deAllocateName"
                   /\ handlers'[g].node = n /\ handlers'[g].volume = v
  BY <1>5, <1>6, <1>7 DEF Nodes!TablesAgree
<1>8. CASE Nodes!Allocate(h) \/ Nodes!AllocateFails(h) \/ Nodes!DeAllocate(h)
  BY <1>7, <1>8 DEF Nodes!Allocate, Nodes!AllocateFails, Nodes!DeAllocate
<1>9. CASE Nodes!AllocateVolume(h)
  <2>1. nodeVolumeNames' = nodeVolumeNames /\ handlers[h].pc = "allocateVolume"
    BY <1>9 DEF Nodes!AllocateVolume
  <2>2. nodeVolumeNames[n][v] \in Nodes!Index
    BY <1>0, <1>6, <2>1 DEF Nodes!TypeOK
  <2>3. v \in volumes[n][nodeVolumeNames[n][v]] =>
            v \in volumes'[n][nodeVolumeNames[n][v]]
    BY <1>0, <1>4, <1>9, <2>2 DEF Nodes!AllocateVolume, Nodes!TypeOK
  <2> QED
    BY <1>5, <1>6, <2>1, <2>3 DEF Nodes!TablesAgree
<1>10. CASE Nodes!AllocateName(h)
  <2>1. volumes' = volumes /\ handlers[h].pc = "allocateName"
    BY <1>10 DEF Nodes!AllocateName
  <2>2. /\ calls[c].pc = "create" /\ handlers[h].volume = calls[c].volume
        /\ handlers[h].node = Target(c).node /\ handlers[h].index = Target(c).index
    BY <1>2, <2>1, HandlerAssumption DEF Serving
  <2>3. handlers[h].volume \in volumes[handlers[h].node][handlers[h].index]
    BY <1>2, <2>1, <2>2, HandlerAssumption DEF Created
  <2>4. CASE n = handlers[h].node /\ v = handlers[h].volume
    <3>1. nodeVolumeNames'[n][v] = handlers[h].index
      BY <1>0, <1>4, <1>10, <2>4 DEF Nodes!AllocateName, Nodes!TypeOK
    <3> QED
      BY <2>1, <2>3, <2>4, <3>1
  <2>5. CASE ~(n = handlers[h].node /\ v = handlers[h].volume)
    <3>1. nodeVolumeNames'[n][v] = nodeVolumeNames[n][v]
      BY <1>0, <1>4, <1>10, <2>5 DEF Nodes!AllocateName, Nodes!TypeOK
    <3> QED
      BY <1>5, <1>6, <2>1, <3>1 DEF Nodes!TablesAgree
  <2> QED
    BY <2>4, <2>5
<1>11. CASE Nodes!DeAllocateVolume(h)
  <2>1. nodeVolumeNames' = nodeVolumeNames /\ handlers[h].pc = "deAllocateVolume"
    BY <1>11 DEF Nodes!DeAllocateVolume
  <2>2. CASE n = handlers[h].node /\ v = handlers[h].volume
    <3>1. /\ handlers'[h].pc = "deAllocateName"
          /\ handlers'[h].node = n /\ handlers'[h].volume = v
      BY <1>0, <1>11, <2>2 DEF Nodes!DeAllocateVolume, Nodes!TypeOK
    <3> QED
      BY <3>1
  <2>3. CASE ~(n = handlers[h].node /\ v = handlers[h].volume)
    <3>1. nodeVolumeNames[n][v] \in Nodes!Index
      BY <1>0, <1>6, <2>1 DEF Nodes!TypeOK
    <3>2. v \in volumes[n][nodeVolumeNames[n][v]] =>
              v \in volumes'[n][nodeVolumeNames[n][v]]
      BY <1>0, <1>4, <1>11, <2>1, <2>3, <3>1 DEF Nodes!DeAllocateVolume, Nodes!TypeOK
    <3> QED
      BY <1>5, <1>6, <2>1, <3>2 DEF Nodes!TablesAgree
  <2> QED
    BY <2>2, <2>3
<1>12. CASE Nodes!DeAllocateName(h)
  <2>1. volumes' = volumes
    BY <1>12 DEF Nodes!DeAllocateName
  <2>2. ~(n = handlers[h].node /\ v = handlers[h].volume)
    BY <1>0, <1>4, <1>6, <1>12 DEF Nodes!DeAllocateName, Nodes!TypeOK
  <2>3. nodeVolumeNames'[n][v] = nodeVolumeNames[n][v]
    BY <1>0, <1>4, <1>12, <2>2 DEF Nodes!DeAllocateName, Nodes!TypeOK
  <2> QED
    BY <1>5, <1>6, <2>1, <2>2, <2>3 DEF Nodes!TablesAgree
<1> QED
  BY <1>3, <1>8, <1>9, <1>10, <1>11, <1>12 DEF Nodes!HandlerSteps

LEMMA TablesStep ==
    ASSUME CDITypeOK, MutexHeld, Serving, NoOrphans, Created, NodeTablesAgree,
           [CDINext]_cdiVars
    PROVE  NodeTablesAgree'
<1> SUFFICES ASSUME ~givenUp' PROVE Nodes!TablesAgree'
  BY DEF NodeTablesAgree
<1> USE DEF nodeVars, history, NodeTablesAgree
<1>0. /\ TypeOK /\ Nodes!TypeOK
      /\ asked \in [Caller -> Handler \cup {Absent}]
  BY DEF CDITypeOK
<1>1. ASSUME UNCHANGED <<nodeVars, givenUp>> PROVE Nodes!TablesAgree'
  BY <1>1 DEF Nodes!TablesAgree
<1>2. ASSUME NEW h \in Handler, handlers[h].pc # "deAllocateName",
             \A g \in Handler \ {h} : handlers'[g] = handlers[g],
             UNCHANGED <<volumes, nodeVolumeNames, givenUp>>
      PROVE  Nodes!TablesAgree'
  BY <1>2 DEF Nodes!TablesAgree
<1>3. ASSUME NEW c \in Caller, ControllerSteps(c) PROVE Nodes!TablesAgree'
  BY <1>1, <1>3 DEF ControllerSteps
<1>4. ASSUME NEW c \in Caller, NEW h \in Handler, Asks(c, h)
      PROVE  Nodes!TablesAgree'
  BY <1>0, <1>2, <1>4
     DEF Asks, Nodes!CreateVolume, Nodes!DeleteVolume, Nodes!TypeOK
<1>5. ASSUME NEW c \in Caller, AsksInVain(c) PROVE Nodes!TablesAgree'
  BY <1>1, <1>5 DEF AsksInVain
<1>6. ASSUME NEW c \in Caller, Answered(c) PROVE Nodes!TablesAgree'
  BY <1>0, <1>2, <1>6 DEF Answered, Nodes!Return, Nodes!TypeOK
<1>7. ASSUME NEW c \in Caller, GivesUp(c) PROVE Nodes!TablesAgree'
  BY <1>7 DEF GivesUp
<1>8. ASSUME NEW h \in Handler, NodeSteps(h) PROVE Nodes!TablesAgree'
  <2>1. ~givenUp
    BY <1>8 DEF NodeSteps
  <2> QED
    BY <1>8, <2>1, TablesNodeStep
<1>9. ASSUME NEW n \in Node, RegistrySteps(n)
      PROVE  Nodes!TablesAgree'
  BY <1>1, <1>9, RegistryEffect
<1>10. ASSUME NEW n \in Node, NodeRestarts(n) PROVE Nodes!TablesAgree'
  <2>1. \A v \in Volume : nodeVolumeNames'[n][v] = Absent
    BY <1>0, <1>10 DEF NodeRestarts, Nodes!Restart, Nodes!TypeOK
  <2>2. \A m \in Node \ {n} : /\ volumes'[m] = volumes[m]
                              /\ nodeVolumeNames'[m] = nodeVolumeNames[m]
    BY <1>0, <1>10 DEF NodeRestarts, Nodes!Restart, Nodes!TypeOK
  <2>3. \A h \in Handler : handlers[h].node # n => handlers'[h] = handlers[h]
    BY <1>0, <1>10 DEF NodeRestarts, Nodes!Restart
  <2>4. Nodes!TablesAgree
    BY <1>10 DEF NodeRestarts
  <2> QED
    BY <2>1, <2>2, <2>3, <2>4 DEF Nodes!TablesAgree
<1>11. ASSUME ControllerRestarts PROVE Nodes!TablesAgree'
  <2>1. ~givenUp
    BY <1>11 DEF ControllerRestarts
  <2> QED
    BY <1>11, <2>1 DEF ControllerRestarts, Nodes!TablesAgree
<1>12. ASSUME UNCHANGED cdiVars PROVE Nodes!TablesAgree'
  BY <1>1, <1>12 DEF cdiVars
<1> QED
  BY <1>3, <1>4, <1>5, <1>6, <1>7, <1>8, <1>9, <1>10, <1>11, <1>12 DEF CDINext

-----------------------------------------------------------------------------
\* The devices that the controller lists.

\* A listed device keeps its parameters in every step of a call.
LEMMA ParametersKept ==
    ASSUME TypeOK, NEW c \in Caller,
           \/ ControllerSteps(c)
           \/ CreateVolumeSucceeds(c) \/ CreateVolumeFails(c) \/ DeleteVolumeReturns(c)
    PROVE  /\ UNCHANGED <<devicesByNodes, listing>>
           /\ \A a \in Address : devices'[a].Parameters = devices[a].Parameters
<1>1. CASE CreateVolumeSucceeds(c)
  <2>1. UNCHANGED <<devicesByNodes, listing>>
    BY <1>1 DEF CreateVolumeSucceeds
  <2>2. \A a \in Address : devices'[a].Parameters = devices[a].Parameters
    BY <1>1 DEF CreateVolumeSucceeds, TypeOK, DeviceInfo
  <2> QED
    BY <2>1, <2>2
<1>2. CASE DeleteVolumeForgets(c)
  <2>1. UNCHANGED <<devicesByNodes, listing>>
    BY <1>2 DEF DeleteVolumeForgets
  <2>2. \A a \in Address : devices'[a].Parameters = devices[a].Parameters
    BY <1>2 DEF DeleteVolumeForgets, TypeOK, DeviceInfo
  <2> QED
    BY <2>1, <2>2
<1>3. CASE CreateVolume(c) \/ CreateVolumeLocks(c) \/ DeleteVolume(c)
  BY <1>3 DEF CreateVolume, CreateVolumeLocks, CreateVolumeFinds,
              CreateVolumeFindsNothing, DeleteVolume, tables
<1>4. CASE CreateVolumeFails(c) \/ DeleteVolumeReturns(c)
  BY <1>4 DEF CreateVolumeFails, DeleteVolumeReturns, tables
<1> QED
  BY <1>1, <1>2, <1>3, <1>4 DEF ControllerSteps

LEMMA ListedStep ==
    ASSUME CDITypeOK, MasterInv, ListingIsThere, ListedIsThere, [CDINext]_cdiVars
    PROVE  ListingIsThere' /\ ListedIsThere'
<1> USE DEF ListingIsThere, ListedIsThere, nodeVars, history
<1>0. TypeOK /\ Nodes!TypeOK /\ ReportPending /\ IDsAgree
  BY DEF CDITypeOK, MasterInv
<1>1. \A n \in Node : \A a \in devicesByNodes[n] : a \in Address
  BY <1>0 DEF TypeOK
<1>2. ASSUME UNCHANGED <<devicesByNodes, listing, nodeDevices, ended>>,
             \A a \in Address : devices'[a].Parameters = devices[a].Parameters
      PROVE  ListingIsThere' /\ ListedIsThere'
  BY <1>1, <1>2
<1>3. ASSUME NEW c \in Caller, ControllerSteps(c)
      PROVE  ListingIsThere' /\ ListedIsThere'
  BY <1>0, <1>2, <1>3, ParametersKept DEF ControllerSteps
<1>4. ASSUME NEW c \in Caller, NEW h \in Handler, Asks(c, h)
      PROVE  ListingIsThere' /\ ListedIsThere'
  BY <1>2, <1>4 DEF Asks, Nodes!CreateVolume, Nodes!DeleteVolume, vars
<1>5. ASSUME NEW c \in Caller, AsksInVain(c) \/ Answered(c) \/ GivesUp(c)
      PROVE  ListingIsThere' /\ ListedIsThere'
  <2>1. UNCHANGED <<nodeDevices, ended>>
    BY <1>5 DEF AsksInVain, Answered, GivesUp, Nodes!Return
  <2>2. CreateVolumeSucceeds(c) \/ CreateVolumeFails(c) \/ DeleteVolumeReturns(c)
    BY <1>5 DEF AsksInVain, Answered, GivesUp, Ends
  <2> QED
    BY <1>0, <1>2, <2>1, <2>2, ParametersKept
<1>6. ASSUME NEW h \in Handler, NodeSteps(h)
      PROVE  ListingIsThere' /\ ListedIsThere'
  <2>1. UNCHANGED nodeDevices
    BY <1>0, <1>6, HandlerEffect DEF NodeSteps, Nodes!Return
  <2> QED
    BY <1>2, <1>6, <2>1 DEF NodeSteps, vars
<1>7. ASSUME NEW n \in Node, Registers(n) PROVE ListingIsThere' /\ ListedIsThere'
  <2>1. UNCHANGED <<tables, nodeDevices, ended>> /\ listing'[n] = nodeDevices[n]
    BY <1>7 DEF Registers, OnNodeAdded, Nodes!ListVolumes
  <2>2. \A m \in Node \ {n} : listing'[m] = listing[m]
    BY <1>0, <1>7 DEF Registers, OnNodeAdded, TypeOK
  <2> QED
    BY <2>1, <2>2 DEF tables
<1>8. ASSUME NEW n \in Node, ReportTaken(n) PROVE ListingIsThere' /\ ListedIsThere'
  <2>1. OnNodeAddedUpdate(n) /\ UNCHANGED <<nodeDevices, ended>>
    BY <1>8 DEF ReportTaken
  <2>2. ListingIsThere'
    BY <1>0, <2>1 DEF OnNodeAddedUpdate, TypeOK
  <2>3. devicesByNodes'[n] = Fresh(n) /\ listing[n] # Absent
    BY <1>0, <2>1 DEF OnNodeAddedUpdate, TypeOK
  <2>4. ASSUME n \notin ended, NEW a \in Fresh(n)
        PROVE  /\ a.ID.index \in DOMAIN nodeDevices[n]
               /\ devices'[a].Parameters = nodeDevices[n][a.ID.index]
    <3>1. listing[n] = nodeDevices[n]
      BY <2>3, <2>4
    <3>2. a \in Address /\ a.ID.index \in DOMAIN listing[n]
      BY <1>0, <2>3, FreshAddresses
    <3>3. devices'[a].Parameters = listing[n][a.ID.index]
      BY <2>1, <2>4, <3>2 DEF OnNodeAddedUpdate
    <3> QED
      BY <3>1, <3>2, <3>3
  <2>5. ASSUME NEW m \in Node \ {n}, NEW a \in devicesByNodes[m]
        PROVE  devices'[a] = devices[a] /\ devicesByNodes'[m] = devicesByNodes[m]
    <3>1. a.ID.node = m /\ a \in Address
      BY <1>0, <1>1 DEF IDsAgree
    <3>2. a \notin Fresh(n)
      BY <1>0, <2>3, <3>1, FreshAddresses
    <3> QED
      BY <1>0, <2>1, <3>1, <3>2 DEF OnNodeAddedUpdate, TypeOK
  <2>6. \A m \in Node \ {n} : devicesByNodes'[m] = devicesByNodes[m]
    BY <1>0, <2>1 DEF OnNodeAddedUpdate, TypeOK
  <2> QED
    BY <2>1, <2>2, <2>3, <2>4, <2>5, <2>6
<1>9. ASSUME NEW n \in Node, Unregisters(n) PROVE ListingIsThere' /\ ListedIsThere'
  <2>1. UNCHANGED <<devices, listing, nodeDevices, ended>>
    BY <1>9 DEF Unregisters, OnNodeDeleted
  <2>2. \A m \in Node : devicesByNodes'[m] \in {devicesByNodes[m], {}}
    BY <1>0, <1>9 DEF Unregisters, OnNodeDeleted, TypeOK
  <2> QED
    BY <2>1, <2>2
<1>10. ASSUME NEW n \in Node, NodeRestarts(n)
       PROVE  ListingIsThere' /\ ListedIsThere'
  <2>1. UNCHANGED vars /\ ended' = ended \cup {n}
    BY <1>10 DEF NodeRestarts
  <2>2. \A m \in Node \ {n} : nodeDevices'[m] = nodeDevices[m]
    BY <1>0, <1>10 DEF NodeRestarts, Nodes!Restart, Nodes!TypeOK
  <2> QED
    BY <2>1, <2>2 DEF vars
<1>11. ASSUME ControllerRestarts PROVE ListingIsThere' /\ ListedIsThere'
  BY <1>11 DEF ControllerRestarts, Restart
<1>12. ASSUME UNCHANGED cdiVars PROVE ListingIsThere' /\ ListedIsThere'
  BY <1>2, <1>12 DEF cdiVars, vars
<1>13. ASSUME NEW n \in Node, RegistrationFails(n)
       PROVE  ListingIsThere' /\ ListedIsThere'
  BY <1>2, <1>13 DEF RegistrationFails, vars
<1> QED
  BY <1>3, <1>4, <1>5, <1>6, <1>7, <1>8, <1>9, <1>10, <1>11, <1>12, <1>13
     DEF CDINext, RegistrySteps

\* So is every device that the controller ever heard of.
LEMMA KnownStep ==
    ASSUME CDITypeOK, MasterInv, ListingIsThere, KnownIsThere, [CDINext]_cdiVars
    PROVE  KnownIsThere'
<1> USE DEF KnownIsThere, nodeVars, history
<1>0. TypeOK /\ Nodes!TypeOK /\ ReportPending
  BY DEF CDITypeOK, MasterInv
<1>1. \A a \in Address : a.ID.node \in Node
  BY DEF Address, DeviceID
<1>2. ASSUME UNCHANGED <<nodeDevices, ended>>,
             \A a \in Address : devices'[a].Parameters = devices[a].Parameters
      PROVE  KnownIsThere'
  BY <1>2
<1>3. ASSUME NEW c \in Caller, ControllerSteps(c) PROVE KnownIsThere'
  BY <1>0, <1>2, <1>3, ParametersKept DEF ControllerSteps
<1>4. ASSUME NEW c \in Caller, NEW h \in Handler, Asks(c, h) PROVE KnownIsThere'
  BY <1>2, <1>4 DEF Asks, Nodes!CreateVolume, Nodes!DeleteVolume, vars
<1>5. ASSUME NEW c \in Caller, AsksInVain(c) \/ Answered(c) \/ GivesUp(c)
      PROVE  KnownIsThere'
  <2>1. UNCHANGED <<nodeDevices, ended>>
    BY <1>5 DEF AsksInVain, Answered, GivesUp, Nodes!Return
  <2>2. CreateVolumeSucceeds(c) \/ CreateVolumeFails(c) \/ DeleteVolumeReturns(c)
    BY <1>5 DEF AsksInVain, Answered, GivesUp, Ends
  <2> QED
    BY <1>0, <1>2, <2>1, <2>2, ParametersKept
<1>6. ASSUME NEW h \in Handler, NodeSteps(h) PROVE KnownIsThere'
  <2>1. UNCHANGED nodeDevices
    BY <1>0, <1>6, HandlerEffect DEF NodeSteps, Nodes!Return
  <2> QED
    BY <1>2, <1>6, <2>1 DEF NodeSteps, vars
<1>7. ASSUME NEW n \in Node, Registers(n) PROVE KnownIsThere'
  BY <1>2, <1>7 DEF Registers, OnNodeAdded, tables
<1>8. ASSUME NEW n \in Node, ReportTaken(n) PROVE KnownIsThere'
  <2>1. OnNodeAddedUpdate(n) /\ UNCHANGED <<nodeDevices, ended>>
    BY <1>8 DEF ReportTaken
  <2>2. listing[n] # Absent
    BY <2>1 DEF OnNodeAddedUpdate
  <2>3. ASSUME n \notin ended, NEW a \in Fresh(n)
        PROVE  /\ a.ID.node = n /\ a.ID.index \in DOMAIN nodeDevices[n]
               /\ devices'[a].Parameters = nodeDevices[n][a.ID.index]
    <3>1. listing[n] = nodeDevices[n]
      BY <2>2, <2>3 DEF ListingIsThere
    <3>2. a \in Address /\ a.ID.node = n /\ a.ID.index \in DOMAIN listing[n]
      BY <1>0, <2>2, FreshAddresses
    <3>3. devices'[a].Parameters = listing[n][a.ID.index]
      BY <2>1, <2>3, <3>2 DEF OnNodeAddedUpdate
    <3> QED
      BY <3>1, <3>2, <3>3
  <2>4. \A a \in Fresh(n) : a.ID.node = n
    BY <1>0, <2>2, FreshAddresses
  <2>5. \A a \in Address \ Fresh(n) : devices'[a] = devices[a]
    BY <2>1 DEF OnNodeAddedUpdate
  <2> QED
    BY <2>1, <2>3, <2>4, <2>5
<1>9. ASSUME NEW n \in Node, Unregisters(n) PROVE KnownIsThere'
  BY <1>2, <1>9 DEF Unregisters, OnNodeDeleted
<1>10. ASSUME NEW n \in Node, NodeRestarts(n) PROVE KnownIsThere'
  <2>1. UNCHANGED devices /\ ended' = ended \cup {n}
    BY <1>10 DEF NodeRestarts, vars
  <2>2. \A m \in Node \ {n} : nodeDevices'[m] = nodeDevices[m]
    BY <1>0, <1>10 DEF NodeRestarts, Nodes!Restart, Nodes!TypeOK
  <2> QED
    BY <1>1, <2>1, <2>2
<1>11. ASSUME ControllerRestarts PROVE KnownIsThere'
  BY <1>11 DEF ControllerRestarts, Restart
<1>12. ASSUME UNCHANGED cdiVars PROVE KnownIsThere'
  BY <1>2, <1>12 DEF cdiVars, vars
<1>13. ASSUME NEW n \in Node, RegistrationFails(n)
       PROVE  KnownIsThere'
  BY <1>2, <1>13 DEF RegistrationFails, vars
<1> QED
  BY <1>3, <1>4, <1>5, <1>6, <1>7, <1>8, <1>9, <1>10, <1>11, <1>12, <1>13
     DEF CDINext, RegistrySteps

-----------------------------------------------------------------------------
LEMMA CDIInvInit == CDIInit => CDIInv
<1> SUFFICES ASSUME CDIInit PROVE CDIInv
  OBVIOUS
<1>1. CDITypeOK
  BY TypeInitCDI
<1>2. Serving /\ Created
  BY DEF CDIInit, Serving, Created
<1>3. NoOrphans
  BY HandlerTypes DEF CDIInit, NoOrphans, Orphans, Nodes!Init
<1>4. Charged /\ ListingIsThere /\ ListedIsThere /\ KnownIsThere
  BY DEF CDIInit, Init, Charged, ListingIsThere, ListedIsThere, KnownIsThere
<1>5. NodeTablesAgree
  BY DEF CDIInit, Nodes!Init, NodeTablesAgree, Nodes!TablesAgree
<1> QED
  BY <1>1, <1>2, <1>3, <1>4, <1>5 DEF CDIInv

LEMMA CDIInvStep == MasterInv /\ CDIInv /\ [CDINext]_cdiVars => CDIInv'
<1> SUFFICES ASSUME MasterInv, CDIInv, [CDINext]_cdiVars PROVE CDIInv'
  OBVIOUS
<1>0. MutexHeld /\ ReportPending
  BY DEF MasterInv
<1>1. CDITypeOK'
  BY <1>0, TypeStepCDI DEF CDIInv
<1>2. Serving'
  BY <1>0, ServingStep DEF CDIInv
<1>3. NoOrphans'
  BY <1>0, NoOrphansStep DEF CDIInv
<1>4. Created'
  BY <1>0, CreatedStep DEF CDIInv
<1>5. Charged'
  BY ChargedStep DEF CDIInv
<1>6. ListingIsThere' /\ ListedIsThere' /\ KnownIsThere'
  BY ListedStep, KnownStep DEF CDIInv
<1>7. NodeTablesAgree'
  BY <1>0, TablesStep DEF CDIInv
<1> QED
  BY <1>1, <1>2, <1>3, <1>4, <1>5, <1>6, <1>7 DEF CDIInv

\* The inductive invariant of the whole, on top of that of the controller.
THEOREM CDIInvariant == CDISpec => [](MasterInv /\ CDIInv)
<1>1. CDISpec => []MasterInv
  BY MasterImplemented, MasterInvariant, PTL
<1>2. CDIInit => CDIInv
  BY CDIInvInit
<1>3. MasterInv /\ CDIInv /\ [CDINext]_cdiVars => CDIInv'
  BY CDIInvStep
<1> QED
  BY <1>1, <1>2, <1>3, PTL DEF CDISpec

\* What the controller remembers is so on the node (CreateVolume and
\* DeleteVolume of both controllers): until a call is given up or a node ends.
THEOREM ChargedIsAllocatedHolds == CDISpec => []ChargedIsAllocated
<1>1. MasterInv /\ CDIInv => ChargedIsAllocated
  <2> SUFFICES ASSUME MasterInv, CDIInv PROVE ChargedIsAllocated
    OBVIOUS
  <2>1. mutex = Free => \A c \in Caller : ~Named(c)
    BY MasterAssumption DEF MasterInv, MutexHeld, Named
  <2> QED
    BY <2>1 DEF CDIInv, Charged, ChargedIsAllocated
<1> QED
  BY <1>1, CDIInvariant, PTL

\* An identifier means the same device to the controller and to the node.
THEOREM ListedIsThereHolds == CDISpec => []ListedIsThere
<1>1. MasterInv /\ CDIInv => ListedIsThere
  BY DEF CDIInv
<1> QED
  BY <1>1, CDIInvariant, PTL

(***************************************************************************)
(* The node allocates a device that meets the request: what CreateVolume   *)
(* of the controller chose (ChoiceStillFits) is a device it was told of,   *)
(* and that is the device the node finds under the identifier.             *)
(***************************************************************************)
THEOREM AllocatedFitsHolds == CDISpec => AllocatedFits
<1> DEFINE Fits(c, h) ==
        LET n == handlers[h].node
        IN  Match(nodeDevices[n][handlers[h].index],
                  devices[calls[c].device].Volumes,
                  calls[c].request.params) = "OK"
<1>1. ASSUME MasterInv, CDIInv, NEW c \in Caller, NEW h \in Handler,
             asked[c] = h, Nodes!AllocateVolume(h), handlers[h].node \notin ended
      PROVE  Fits(c, h)
  <2> DEFINE a      == calls[c].device
             params == calls[c].request.params
  <2>1. handlers[h].pc = "allocateVolume" /\ asked[c] # Absent
    BY <1>1, HandlerAssumption DEF Nodes!AllocateVolume
  <2>2. /\ calls[c].pc = "create"
        /\ handlers[h].node = a.ID.node /\ handlers[h].index = a.ID.index
    BY <1>1, <2>1 DEF CDIInv, Serving, Target
  <2>3. a \in Address /\ params \in ParamMap
    <3>1. calls[c] \in Call
      BY <1>1 DEF MasterInv, TypeOK
    <3> QED
      BY <2>2, <3>1, CallFields, RequestParams
  <2>4. Match(devices[a].Parameters, devices[a].Volumes, params) = "OK"
    BY <1>1, <2>2 DEF MasterInv, ChoiceStillFits, Matches
  <2>5. devices[a].Parameters # NoDevice.Parameters
    BY <2>3, <2>4, NoDeviceNeverMatches
  <2>6. devices[a].Parameters = nodeDevices[a.ID.node][a.ID.index]
    BY <1>1, <2>2, <2>3, <2>5 DEF CDIInv, KnownIsThere
  <2> QED
    BY <2>2, <2>4, <2>6
<1>2. MasterInv /\ CDIInv /\ [CDINext]_cdiVars =>
          [\A c \in Caller, h \in Handler :
              LET n == handlers[h].node
              IN  (asked[c] = h /\ Nodes!AllocateVolume(h) /\ n \notin ended) =>
                      Match(nodeDevices[n][handlers[h].index],
                            devices[calls[c].device].Volumes,
                            calls[c].request.params) = "OK"]_cdiVars
  BY <1>1
<1> QED
  BY <1>2, CDIInvariant, PTL DEF CDISpec, AllocatedFits

(***************************************************************************)
(* The driver as a whole implements DeviceLedger: among its nodes, with    *)
(* calls that are given up and nodes and controllers that start again, the *)
(* tables of charges change as if every volume were checked and charged in *)
(* one step.                                                               *)
(***************************************************************************)
THEOREM LedgerImplementedByAll == CDISpec => ImplementsLedger
  BY MasterImplemented, LedgerImplemented, PTL

\* The two maps of a node agree, although no lock of the node protects them.
THEOREM NodeTablesAgreeHolds == CDISpec => []NodeTablesAgree
<1>1. MasterInv /\ CDIInv => NodeTablesAgree
  BY DEF CDIInv
<1> QED
  BY <1>1, CDIInvariant, PTL
=============================================================================
