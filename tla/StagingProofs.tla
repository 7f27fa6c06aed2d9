----------------------------- MODULE StagingProofs -----------------------------
(***************************************************************************)
(* Proofs about Staging, for any number of volumes, devices, containers    *)
(* and handlers: what cdi-runc has put into config.json is what the node   *)
(* server has written for the volumes, because a volume that a container   *)
(* needs always has a file.                                                *)
(***************************************************************************)
EXTENDS Staging, TLAPS

-----------------------------------------------------------------------------
\* What the states of handlers and of cdi-runc are made of.

LEMMA HandlerFields ==
    ASSUME NEW handler \in Node!HandlerState
    PROVE  /\ handler.pc \in {"idle", "truncate", "write", "unlinked", "stat",
                               "remove", "done"}
           /\ handler.pc \in {"truncate", "write", "unlinked", "stat", "remove"} =>
                  handler.volume \in Volume
           /\ handler.pc \in {"truncate", "write", "unlinked"} =>
                  handler.device \in Device
  BY DEF Node!HandlerState

LEMMA HandlerTypes ==
    /\ Node!Idle \in Node!HandlerState /\ Node!Idle.pc = "idle"
    /\ \A code \in {"OK", "InvalidArgument", "Internal"} :
           /\ Node!Done(code) \in Node!HandlerState
           /\ Node!Done(code).pc = "done" /\ Node!Done(code).code = code
    /\ \A pc \in {"truncate", "write", "unlinked"}, v \in Volume, d \in Device :
           [pc |-> pc, volume |-> v, device |-> d] \in Node!HandlerState
    /\ \A pc \in {"stat", "remove"}, v \in Volume :
           [pc |-> pc, volume |-> v] \in Node!HandlerState
  BY DEF Node!HandlerState, Node!Idle, Node!Done

LEMMA HandlerGoesOn ==
    ASSUME NEW handler \in Node!HandlerState
    PROVE  /\ handler.pc = "truncate" =>
                  /\ [handler EXCEPT !.pc = "write"] \in Node!HandlerState
                  /\ [handler EXCEPT !.pc = "write"].pc = "write"
                  /\ [handler EXCEPT !.pc = "write"].volume = handler.volume
                  /\ [handler EXCEPT !.pc = "write"].device = handler.device
           /\ handler.pc = "write" =>
                  /\ [handler EXCEPT !.pc = "unlinked"] \in Node!HandlerState
                  /\ [handler EXCEPT !.pc = "unlinked"].pc = "unlinked"
                  /\ [handler EXCEPT !.pc = "unlinked"].volume = handler.volume
                  /\ [handler EXCEPT !.pc = "unlinked"].device = handler.device
           /\ handler.pc = "stat" =>
                  /\ [handler EXCEPT !.pc = "remove"] \in Node!HandlerState
                  /\ [handler EXCEPT !.pc = "remove"].pc = "remove"
                  /\ [handler EXCEPT !.pc = "remove"].volume = handler.volume
  BY DEF Node!HandlerState

LEMMA RuncFields ==
    ASSUME NEW runc \in Runc!RuncState
    PROVE  /\ runc.pc \in {"none", "started", "failed", "find", "load"}
           /\ runc.pc \in {"find", "load"} =>
                  runc.mount \in Nat \ {0} /\ runc.spec \in Seq(Device)
  BY DEF Runc!RuncState

LEMMA RuncTypes ==
    /\ \A pc \in {"none", "started", "failed"} :
           Runc!At(pc) \in Runc!RuncState /\ Runc!At(pc).pc = pc
    /\ \A pc \in {"find", "load"}, mount \in Nat \ {0}, spec \in Seq(Device) :
           [pc |-> pc, mount |-> mount, spec |-> spec] \in Runc!RuncState
  BY DEF Runc!RuncState, Runc!At

LEMMA RuncGoesOn ==
    ASSUME NEW runc \in Runc!RuncState, runc.pc = "find"
    PROVE  /\ [runc EXCEPT !.pc = "load"] \in Runc!RuncState
           /\ [runc EXCEPT !.pc = "load"].pc = "load"
           /\ [runc EXCEPT !.pc = "load"].mount = runc.mount
           /\ [runc EXCEPT !.pc = "load"].spec = runc.spec
           /\ [runc EXCEPT !.mount = @ + 1] \in Runc!RuncState
           /\ [runc EXCEPT !.mount = @ + 1].pc = "find"
           /\ [runc EXCEPT !.mount = @ + 1].mount = runc.mount + 1
           /\ [runc EXCEPT !.mount = @ + 1].spec = runc.spec
  BY DEF Runc!RuncState

-----------------------------------------------------------------------------
(***************************************************************************)
(* What a step of a handler, of cdi-runc and of the kubelet changes.       *)
(***************************************************************************)
WritesFile(v, content) == file' = [file EXCEPT ![v] = content]

OthersGoOn(h) == \A g \in Handler \ {h} : handlers'[g] = handlers[g]

\* The handler g loses its file because h removes it.
LosesFile(h, g) ==
    /\ handlers[h].pc = "remove" /\ handlers[g].pc = "write"
    /\ handlers[g].volume = handlers[h].volume
    /\ handlers'[g].pc = "unlinked"
    /\ handlers'[g].volume = handlers[g].volume
    /\ handlers'[g].device = handlers[g].device

OthersKeepOrLose(h) ==
    \A g \in Handler \ {h} : handlers'[g] = handlers[g] \/ LosesFile(h, g)

LEMMA HandlerEffect ==
    ASSUME TypeOK, NEW h \in Handler, HandlerRuns(h)
    PROVE  /\ UNCHANGED <<devicesByDeviceID, runcs, config, kubelet, history>>
           /\ handlers' \in [Handler -> Node!HandlerState]
           /\ OthersKeepOrLose(h)
           /\ \/ /\ handlers[h].pc = "truncate" /\ handlers'[h].pc = "write"
                 /\ handlers'[h].volume = handlers[h].volume
                 /\ handlers'[h].device = handlers[h].device
                 /\ WritesFile(handlers[h].volume, Torn)
              \/ /\ handlers[h].pc = "write"
                 /\ handlers'[h].pc = "done" /\ handlers'[h].code = "OK"
                 /\ WritesFile(handlers[h].volume, handlers[h].device)
              \/ /\ handlers[h].pc = "unlinked" /\ handlers'[h].pc = "done"
                 /\ UNCHANGED file
              \/ /\ handlers[h].pc \in {"truncate", "write", "unlinked"}
                 /\ handlers'[h].pc = "done" /\ handlers'[h].code = "Internal"
                 /\ UNCHANGED file \/ WritesFile(handlers[h].volume, Torn)
              \/ /\ handlers[h].pc = "stat"
                 /\ \/ handlers'[h].pc = "done"
                    \/ /\ handlers'[h].pc = "remove"
                       /\ handlers'[h].volume = handlers[h].volume
                 /\ UNCHANGED file
              \/ /\ handlers[h].pc = "remove" /\ handlers'[h].pc = "done"
                 /\ UNCHANGED file \/ WritesFile(handlers[h].volume, Absent)
              \/ /\ h \in Orphans
                 /\ handlers[h].pc = "done" /\ handlers'[h].pc = "idle"
                 /\ UNCHANGED file
<1> USE HandlerTypes DEF TypeOK, Node!TypeOK, OthersKeepOrLose, WritesFile
<1>1. handlers \in [Handler -> Node!HandlerState] /\ handlers[h] \in Node!HandlerState
  OBVIOUS
<1>2. UNCHANGED <<devicesByDeviceID, runcs, config, kubelet, history>>
  BY DEF HandlerRuns, Node!HandlerSteps, Node!MarshallTruncates,
         Node!MarshallWrites, Node!MarshallFails, Node!UnstageFinds,
         Node!UnstageRemoves, Node!Return
<1>3. CASE Node!MarshallTruncates(h)
  BY <1>1, <1>2, <1>3, HandlerGoesOn DEF Node!MarshallTruncates
<1>4. CASE Node!MarshallWrites(h)
  BY <1>1, <1>2, <1>4 DEF Node!MarshallWrites
<1>5. CASE Node!MarshallFails(h)
  BY <1>1, <1>2, <1>5 DEF Node!MarshallFails
<1>6. CASE Node!UnstageFinds(h)
  <2>1. CASE handlers' = [handlers EXCEPT ![h] = Node!Done("OK")]
    BY <1>1, <1>2, <1>6, <2>1 DEF Node!UnstageFinds
  <2>2. CASE handlers' = [handlers EXCEPT ![h] = [@ EXCEPT !.pc = "remove"]]
    <3> DEFINE next == [handlers[h] EXCEPT !.pc = "remove"]
    <3>1. /\ next \in Node!HandlerState /\ next.pc = "remove"
          /\ next.volume = handlers[h].volume
      BY <1>1, <1>6, HandlerGoesOn DEF Node!UnstageFinds
    <3>2. handlers' = [handlers EXCEPT ![h] = next]
      BY <2>2
    <3> HIDE DEF next
    <3> QED
      BY <1>1, <1>2, <1>6, <3>1, <3>2 DEF Node!UnstageFinds
  <2> QED
    BY <1>6, <2>1, <2>2 DEF Node!UnstageFinds
<1>7. CASE Node!UnstageRemoves(h)
  <2>1. CASE handlers' = [handlers EXCEPT ![h] = Node!Done("OK")] /\ UNCHANGED file
    BY <1>1, <1>2, <1>7, <2>1 DEF Node!UnstageRemoves
  <2>2. CASE /\ WritesFile(handlers[h].volume, Absent)
             /\ handlers' = [g \in Handler |->
                    IF g = h THEN Node!Done("OK")
                    ELSE IF g \in Node!Writers(handlers[h].volume)
                         THEN [handlers[g] EXCEPT !.pc = "unlinked"]
                         ELSE handlers[g]]
    <3>1. ASSUME NEW g \in Handler \ {h}
          PROVE  /\ handlers'[g] \in Node!HandlerState
                 /\ handlers'[g] = handlers[g] \/ LosesFile(h, g)
      <4>1. CASE g \in Node!Writers(handlers[h].volume)
        <5> DEFINE next == [handlers[g] EXCEPT !.pc = "unlinked"]
        <5>1. /\ next \in Node!HandlerState /\ next.pc = "unlinked"
              /\ next.volume = handlers[g].volume
              /\ next.device = handlers[g].device
          BY <1>1, <4>1, HandlerGoesOn DEF Node!Writers
        <5>2. handlers'[g] = next
          BY <2>2, <4>1
        <5> HIDE DEF next
        <5> QED
          BY <1>7, <4>1, <5>1, <5>2
          DEF Node!Writers, Node!UnstageRemoves, LosesFile
      <4>2. CASE g \notin Node!Writers(handlers[h].volume)
        BY <1>1, <2>2, <4>2
      <4> QED
        BY <4>1, <4>2
    <3>2. handlers'[h] = Node!Done("OK")
      BY <2>2
    <3>3. handlers' \in [Handler -> Node!HandlerState]
      BY <2>2, <3>1, <3>2
    <3> QED
      BY <1>2, <1>7, <2>2, <3>1, <3>2, <3>3 DEF Node!UnstageRemoves
  <2> QED
    BY <1>7, <2>1, <2>2 DEF Node!UnstageRemoves
<1>8. CASE h \in Orphans /\ Node!Return(h)
  BY <1>1, <1>2, <1>8 DEF Node!Return
<1> QED
  BY <1>3, <1>4, <1>5, <1>6, <1>7, <1>8 DEF HandlerRuns, Node!HandlerSteps

LEMMA RuncEffect ==
    ASSUME TypeOK, NEW c \in Container, RuncRuns(c)
    PROVE  /\ UNCHANGED <<devicesByDeviceID, file, handlers, kubelet, history>>
           /\ runcs' \in [Container -> Runc!RuncState]
           /\ config' \in [Container -> Seq(Device)]
           /\ runcs[c].pc # "none"
           /\ \A d \in Container \ {c} :
                  runcs'[d] = runcs[d] /\ config'[d] = config[d]
           /\ \/ /\ runcs[c].pc = "find" /\ runcs'[c].pc = "load"
                 /\ runcs[c].mount <= Len(Mounts[c])
                 /\ runcs'[c].mount = runcs[c].mount
                 /\ runcs'[c].spec = runcs[c].spec
                 /\ config'[c] = config[c]
              \/ /\ runcs[c].pc = "find" /\ runcs'[c].pc = "find"
                 /\ runcs[c].mount <= Len(Mounts[c])
                 /\ file[Mounts[c][runcs[c].mount]] = Absent
                 /\ runcs'[c].mount = runcs[c].mount + 1
                 /\ runcs'[c].spec = runcs[c].spec
                 /\ config'[c] = config[c]
              \/ /\ runcs[c].pc = "load" /\ runcs'[c].pc = "find"
                 /\ file[Mounts[c][runcs[c].mount]] \in Device
                 /\ runcs'[c].mount = runcs[c].mount + 1
                 /\ runcs'[c].spec =
                        Append(runcs[c].spec, file[Mounts[c][runcs[c].mount]])
                 /\ config'[c] = runcs'[c].spec
              \/ /\ Runc!Creating(c) /\ runcs'[c].pc = "failed"
                 /\ config'[c] = config[c]
              \/ /\ runcs[c].pc = "find" /\ runcs'[c].pc = "started"
                 /\ runcs[c].mount > Len(Mounts[c])
                 /\ config'[c] = config[c]
              \/ /\ runcs[c].pc \in {"started", "failed"} /\ runcs'[c].pc = "none"
                 /\ config'[c] = <<>>
<1> USE RuncTypes DEF TypeOK, Runc!TypeOK, Runc!Mounted
<1>1. /\ runcs \in [Container -> Runc!RuncState] /\ runcs[c] \in Runc!RuncState
      /\ config \in [Container -> Seq(Device)] /\ config[c] \in Seq(Device)
  OBVIOUS
<1>2. UNCHANGED <<devicesByDeviceID, file, handlers, kubelet, history>>
  BY DEF RuncRuns, Runc!RuncSteps, Runc!FindsCDI, Runc!FindsNoCDI,
         Runc!UpdateSpec, Runc!Fatal, Runc!RunOrigRunc, Runc!Delete
<1>3. CASE Runc!FindsCDI(c)
  BY <1>1, <1>2, <1>3, RuncGoesOn DEF Runc!FindsCDI
<1>4. CASE Runc!FindsNoCDI(c)
  BY <1>1, <1>2, <1>4, RuncGoesOn DEF Runc!FindsNoCDI
<1>5. CASE Runc!UpdateSpec(c)
  <2> DEFINE spec == Append(runcs[c].spec, file[Mounts[c][runcs[c].mount]])
  <2>1. runcs[c].mount + 1 \in Nat \ {0} /\ spec \in Seq(Device)
    BY <1>1, <1>5, RuncFields DEF Runc!UpdateSpec
  <2>2. runcs' = [runcs EXCEPT ![c] =
            [pc |-> "find", mount |-> runcs[c].mount + 1, spec |-> spec]]
    BY <1>1, <1>5 DEF Runc!UpdateSpec
  <2>3. config' = [config EXCEPT ![c] = spec]
    BY <1>5 DEF Runc!UpdateSpec
  <2> HIDE DEF spec
  <2>4. /\ runcs' \in [Container -> Runc!RuncState]
        /\ config' \in [Container -> Seq(Device)]
        /\ \A d \in Container \ {c} :
                  runcs'[d] = runcs[d] /\ config'[d] = config[d]
        /\ runcs'[c].mount = runcs[c].mount + 1 /\ runcs'[c].pc = "find"
        /\ runcs'[c].spec = spec /\ config'[c] = spec
    BY <1>1, <2>1, <2>2, <2>3
  <2> QED
    BY <1>2, <1>5, <2>4 DEF Runc!UpdateSpec, spec
<1>6. CASE Runc!Fatal(c)
  BY <1>1, <1>2, <1>6 DEF Runc!Fatal, Runc!Creating
<1>7. CASE Runc!RunOrigRunc(c)
  BY <1>1, <1>2, <1>7 DEF Runc!RunOrigRunc
<1>8. CASE Runc!Delete(c)
  BY <1>1, <1>2, <1>8 DEF Runc!Delete
<1> QED
  BY <1>3, <1>4, <1>5, <1>6, <1>7, <1>8 DEF RuncRuns, Runc!RuncSteps

\* The kubelet asks a handler that is idle, and so one that nobody waits for.
StagesDoes(v, h) ==
    /\ UNCHANGED <<devicesByDeviceID, file, runcs, config, history>>
    /\ handlers' \in [Handler -> Node!HandlerState]
    /\ staged[v] \in {"unstaged", "staged", "unsure"}
    /\ staged' = [staged EXCEPT ![v] = "staging"]
    /\ asked' = [asked EXCEPT ![v] = h]
    /\ handlers[h].pc = "idle" /\ OthersGoOn(h)
    /\ \/ handlers'[h].pc = "done" /\ handlers'[h].code # "OK"
       \/ /\ ContextID[v] \in DOMAIN devicesByDeviceID
          /\ handlers'[h].pc = "truncate" /\ handlers'[h].volume = v
          /\ handlers'[h].device = devicesByDeviceID[ContextID[v]]

LEMMA StagesEffect ==
    ASSUME TypeOK, NEW v \in Volume, NEW h \in Handler, KubeletStages(v, h)
    PROVE  StagesDoes(v, h)
<1> USE DEF TypeOK, Node!TypeOK, OthersGoOn, KubeletStages, StagesDoes
<1>1. CASE Node!NodeStageVolumeFails(h)
  BY <1>1, HandlerTypes DEF Node!NodeStageVolumeFails
<1>2. CASE Node!NodeStageVolumeFinds(h, v, ContextID[v])
  <2>1. devicesByDeviceID[ContextID[v]] \in Device
    BY <1>2, StagingAssumption DEF Node!NodeStageVolumeFinds
  <2> QED
    BY <1>2, <2>1, HandlerTypes DEF Node!NodeStageVolumeFinds
<1> QED
  BY <1>1, <1>2 DEF Node!NodeStageVolume

UnstagesDoes(v, h) ==
    /\ UNCHANGED <<devicesByDeviceID, file, runcs, config, history>>
    /\ handlers' \in [Handler -> Node!HandlerState]
    /\ staged[v] \in {"staged", "unsure"}
    /\ \A c \in Container : v \in Needs(c) => runcs[c].pc = "none"
    /\ staged' = [staged EXCEPT ![v] = "unstaging"]
    /\ asked' = [asked EXCEPT ![v] = h]
    /\ handlers[h].pc = "idle" /\ OthersGoOn(h)
    /\ handlers'[h].pc = "stat" /\ handlers'[h].volume = v

LEMMA UnstagesEffect ==
    ASSUME TypeOK, NEW v \in Volume, NEW h \in Handler, KubeletUnstages(v, h)
    PROVE  UnstagesDoes(v, h)
  BY HandlerTypes DEF TypeOK, Node!TypeOK, OthersGoOn, KubeletUnstages,
     UnstagesDoes, Node!NodeUnstageVolume

LEMMA AnswerEffect ==
    ASSUME TypeOK, NEW v \in Volume, KubeletIsAnswered(v)
    PROVE  /\ UNCHANGED <<devicesByDeviceID, file, runcs, config, history>>
           /\ handlers' \in [Handler -> Node!HandlerState]
           /\ asked[v] \in Handler /\ asked' = [asked EXCEPT ![v] = Absent]
           /\ handlers[asked[v]].pc = "done" /\ handlers'[asked[v]].pc = "idle"
           /\ OthersGoOn(asked[v])
           /\ staged' = [staged EXCEPT ![v] =
                  IF handlers[asked[v]].code # "OK" THEN "unsure"
                  ELSE IF staged[v] = "staging" THEN "staged" ELSE "unstaged"]
  BY HandlerTypes DEF TypeOK, Node!TypeOK, OthersGoOn, KubeletIsAnswered,
     Node!Return

LEMMA CreateEffect ==
    ASSUME TypeOK, NEW c \in Container, KubeletCreates(c)
    PROVE  /\ UNCHANGED <<devicesByDeviceID, file, handlers, config, kubelet, history>>
           /\ \A v \in Needs(c) : staged[v] = "staged"
           /\ runcs' \in [Container -> Runc!RuncState]
           /\ \A d \in Container \ {c} : runcs'[d] = runcs[d]
           /\ runcs[c].pc = "none" /\ runcs'[c].pc = "find"
           /\ runcs'[c].mount = 1 /\ runcs'[c].spec = <<>>
<1> DEFINE first == [pc |-> "find", mount |-> 1, spec |-> <<>>]
<1>1. 1 \in Nat \ {0} /\ <<>> \in Seq(Device)
  OBVIOUS
<1>2. first \in Runc!RuncState
  BY <1>1, RuncTypes
<1>3. /\ runcs[c].pc = "none" /\ runcs' = [runcs EXCEPT ![c] = first]
      /\ runcs \in [Container -> Runc!RuncState]
      /\ UNCHANGED <<devicesByDeviceID, file, handlers, config, kubelet, history>>
      /\ \A v \in Needs(c) : staged[v] = "staged"
  BY DEF TypeOK, Runc!TypeOK, KubeletCreates, Runc!Create
<1>4. first.pc = "find" /\ first.mount = 1 /\ first.spec = <<>>
  OBVIOUS
<1> HIDE DEF first
<1> QED
  BY <1>2, <1>3, <1>4

\* The process of the node ends: its handlers are done or have nothing to do.
LEMMA RestartEffect ==
    ASSUME TypeOK, NodeRestarts
    PROVE  /\ UNCHANGED <<file, runcs, config, kubelet, givenUp>>
           /\ devicesByDeviceID' \in Found
           /\ handlers' \in [Handler -> Node!HandlerState]
           /\ meant' = [v \in Volume |-> Absent]
           /\ \A h \in Handler :
                  \/ handlers[h].pc \in {"idle", "done"} /\ handlers'[h] = handlers[h]
                  \/ /\ handlers[h].pc \notin {"idle", "done"}
                     /\ handlers'[h].pc = "done" /\ handlers'[h].code # "OK"
<1>1. /\ UNCHANGED <<file, runcs, config, kubelet, givenUp>>
      /\ devicesByDeviceID' \in Found
      /\ meant' = [v \in Volume |-> Absent]
  BY DEF NodeRestarts, Node!Restart
<1>2. ASSUME NEW h \in Handler
      PROVE  /\ handlers'[h] \in Node!HandlerState
             /\ \/ handlers[h].pc \in {"idle", "done"} /\ handlers'[h] = handlers[h]
                \/ /\ handlers[h].pc \notin {"idle", "done"}
                   /\ handlers'[h] = Node!Done("Internal")
  BY HandlerTypes DEF TypeOK, Node!TypeOK, NodeRestarts, Node!Restart
<1>3. handlers' \in [Handler -> Node!HandlerState]
  BY <1>2 DEF NodeRestarts, Node!Restart
<1> QED
  BY <1>1, <1>2, <1>3, HandlerTypes

-----------------------------------------------------------------------------
\* The parts of the invariant, one after the other.

LEMMA TypeStep ==
    ASSUME TypeOK, Served, [Next]_stagingVars
    PROVE  TypeOK'
<1> USE
  DEF TypeOK, Node!TypeOK, Runc!TypeOK, WritesFile, kubelet, history, Stages
<1>1. ASSUME NEW h \in Handler, HandlerRuns(h) PROVE TypeOK'
  <2>1. handlers[h] \in Node!HandlerState
    OBVIOUS
  <2>2. file' \in [Volume -> Device \cup {Torn, Absent}]
    BY <1>1, <2>1, HandlerEffect, HandlerFields
  <2> QED
    BY <1>1, <2>2, HandlerEffect
<1>2. ASSUME NEW c \in Container, RuncRuns(c) PROVE TypeOK'
  BY <1>2, RuncEffect
<1>3. ASSUME NEW v \in Volume, NEW h \in Handler, KubeletStages(v, h) PROVE TypeOK'
  <2>1. StagesDoes(v, h)
    BY <1>3, StagesEffect
  <2>2. staged' \in [Volume -> Stages] /\ asked' \in [Volume -> Handler \cup {Absent}]
    BY <2>1 DEF StagesDoes
  <2>3. handlers' \in [Handler -> Node!HandlerState]
    BY <2>1 DEF StagesDoes
  <2> QED
    BY <2>1, <2>2, <2>3 DEF StagesDoes
<1>4. ASSUME NEW v \in Volume, NEW h \in Handler, KubeletUnstages(v, h) PROVE TypeOK'
  <2>1. UnstagesDoes(v, h)
    BY <1>4, UnstagesEffect
  <2>2. staged' \in [Volume -> Stages] /\ asked' \in [Volume -> Handler \cup {Absent}]
    BY <2>1 DEF UnstagesDoes
  <2>3. handlers' \in [Handler -> Node!HandlerState]
    BY <2>1 DEF UnstagesDoes
  <2> QED
    BY <2>1, <2>2, <2>3 DEF UnstagesDoes
<1>5. ASSUME NEW v \in Volume, KubeletIsAnswered(v) PROVE TypeOK'
  BY <1>5, AnswerEffect
<1>6. ASSUME NEW v \in Volume, KubeletGivesUp(v) PROVE TypeOK'
  BY <1>6 DEF KubeletGivesUp, Served
<1>7. ASSUME NEW c \in Container, KubeletCreates(c) PROVE TypeOK'
  BY <1>7, CreateEffect
<1>8. CASE NodeRestarts
  BY <1>8, RestartEffect
<1>9. CASE UNCHANGED stagingVars
  BY <1>9 DEF stagingVars
<1> QED
  BY <1>1, <1>2, <1>3, <1>4, <1>5, <1>6, <1>7, <1>8, <1>9 DEF Next

LEMMA MeantStep ==
    ASSUME TypeOK, MeantIsFound, [Next]_stagingVars
    PROVE  MeantIsFound'
<1> USE DEF MeantIsFound, history
<1>1. ASSUME NEW h \in Handler, HandlerRuns(h) PROVE MeantIsFound'
  BY <1>1, HandlerEffect
<1>2. ASSUME NEW c \in Container, RuncRuns(c) PROVE MeantIsFound'
  BY <1>2, RuncEffect
<1>3. ASSUME NEW v \in Volume, NEW h \in Handler, KubeletStages(v, h)
      PROVE  MeantIsFound'
  BY <1>3, StagesEffect DEF StagesDoes
<1>4. ASSUME NEW v \in Volume, NEW h \in Handler, KubeletUnstages(v, h)
      PROVE  MeantIsFound'
  BY <1>4, UnstagesEffect DEF UnstagesDoes
<1>5. ASSUME NEW v \in Volume, KubeletIsAnswered(v) PROVE MeantIsFound'
  BY <1>5, AnswerEffect
<1>6. ASSUME NEW v \in Volume, KubeletGivesUp(v) PROVE MeantIsFound'
  BY <1>6 DEF KubeletGivesUp
<1>7. ASSUME NEW c \in Container, KubeletCreates(c) PROVE MeantIsFound'
  BY <1>7, CreateEffect
<1>8. CASE NodeRestarts
  BY <1>8, RestartEffect
<1>9. CASE UNCHANGED stagingVars
  BY <1>9 DEF stagingVars
<1> QED
  BY <1>1, <1>2, <1>3, <1>4, <1>5, <1>6, <1>7, <1>8, <1>9 DEF Next

LEMMA DescribedStep ==
    ASSUME TypeOK, MeantIsFound, Described, [Next]_stagingVars
    PROVE  Described'
<1> USE
  DEF Described, Is, TypeOK, Node!TypeOK, WritesFile, OthersGoOn, history,
      kubelet, OthersKeepOrLose, LosesFile
<1>1. ASSUME NEW h \in Handler, HandlerRuns(h) PROVE Described'
  <2>1. handlers[h] \in Node!HandlerState
    OBVIOUS
  <2>2. UNCHANGED meant
    BY <1>1, HandlerEffect
  <2>3. ASSUME NEW v \in Volume, file'[v] \in Device
        PROVE  Is(file'[v], v)
    <3>1. CASE file'[v] = file[v]
      BY <2>3, <3>1
    <3>2. CASE /\ handlers[h].pc = "write" /\ handlers[h].volume = v
               /\ file'[v] = handlers[h].device
      BY <3>2
    <3>3. CASE file'[v] \in {Torn, Absent}
      BY <2>3, <3>3, StagingAssumption
    <3>4. \/ file'[v] = file[v]
          \/ /\ handlers[h].pc = "write" /\ handlers[h].volume = v
             /\ file'[v] = handlers[h].device
          \/ file'[v] \in {Torn, Absent}
      BY <1>1, <2>1, HandlerEffect, HandlerFields
    <3> QED
      BY <3>1, <3>2, <3>3, <3>4
  <2>4. \A g \in Handler : handlers'[g].pc \in {"truncate", "write", "unlinked"} =>
            Is(handlers'[g].device, handlers'[g].volume)
    BY <1>1, <2>1, HandlerEffect, HandlerFields
  <2> QED
    BY <2>2, <2>3, <2>4
<1>2. ASSUME NEW c \in Container, RuncRuns(c) PROVE Described'
  BY <1>2, RuncEffect
<1>3. ASSUME NEW v \in Volume, NEW h \in Handler, KubeletStages(v, h)
      PROVE  Described'
  BY <1>3, StagesEffect DEF StagesDoes, MeantIsFound
<1>4. ASSUME NEW v \in Volume, NEW h \in Handler, KubeletUnstages(v, h)
      PROVE  Described'
  BY <1>4, UnstagesEffect DEF UnstagesDoes
<1>5. ASSUME NEW v \in Volume, KubeletIsAnswered(v) PROVE Described'
  BY <1>5, AnswerEffect
<1>6. ASSUME NEW v \in Volume, KubeletGivesUp(v) PROVE Described'
  BY <1>6 DEF KubeletGivesUp
<1>7. ASSUME NEW c \in Container, KubeletCreates(c) PROVE Described'
  BY <1>7, CreateEffect
<1>8. CASE NodeRestarts
  BY <1>8, RestartEffect
<1>9. CASE UNCHANGED stagingVars
  BY <1>9 DEF stagingVars
<1> QED
  BY <1>1, <1>2, <1>3, <1>4, <1>5, <1>6, <1>7, <1>8, <1>9 DEF Next

LEMMA ServedStep ==
    ASSUME TypeOK, Served, [Next]_stagingVars
    PROVE  Served'
<1> USE StagingAssumption
  DEF Served, TypeOK, Node!TypeOK, WritesFile, OthersGoOn, history, kubelet,
      Stages, Orphans
<1>1. ASSUME NEW h \in Handler, HandlerRuns(h) PROVE Served'
  <2>1. UNCHANGED <<staged, asked>>
    BY <1>1, HandlerEffect
  <2>2. ASSUME NEW v \in Volume, asked[v] = h
        PROVE  /\ handlers'[h].pc \in IF staged[v] = "staging"
                                     THEN {"truncate", "write", "unlinked", "done"}
                                     ELSE {"stat", "remove", "done"}
               /\ handlers'[h].pc # "done" => handlers'[h].volume = v
    <3>1. /\ handlers[h].pc \in IF staged[v] = "staging"
                               THEN {"truncate", "write", "unlinked", "done"}
                               ELSE {"stat", "remove", "done"}
          /\ handlers[h].pc # "done" => handlers[h].volume = v
          /\ h \notin Orphans
      BY <2>2
    <3>2. \/ handlers[h].pc = "truncate" /\ handlers'[h].pc = "write"
             /\ handlers'[h].volume = handlers[h].volume
          \/ /\ handlers[h].pc \in {"truncate", "write", "unlinked", "stat", "remove"}
             /\ handlers'[h].pc = "done"
          \/ handlers[h].pc = "stat" /\ handlers'[h].pc = "remove"
             /\ handlers'[h].volume = handlers[h].volume
      BY <1>1, <3>1, HandlerEffect
    <3> QED
      BY <3>1, <3>2
  <2>3. ASSUME NEW v \in Volume, asked[v] # Absent, asked[v] # h
        PROVE  \/ handlers'[asked[v]] = handlers[asked[v]]
               \/ LosesFile(h, asked[v])
    BY <1>1, <2>3, HandlerEffect DEF OthersKeepOrLose
  <2>4. ASSUME NEW v \in Volume, asked[v] # Absent, asked[v] # h
        PROVE  /\ handlers'[asked[v]].pc \in IF staged[v] = "staging"
                                            THEN {"truncate", "write", "unlinked", "done"}
                                            ELSE {"stat", "remove", "done"}
               /\ handlers'[asked[v]].pc # "done" => handlers'[asked[v]].volume = v
    <3>1. /\ handlers[asked[v]].pc \in IF staged[v] = "staging"
                                      THEN {"truncate", "write", "unlinked", "done"}
                                      ELSE {"stat", "remove", "done"}
          /\ handlers[asked[v]].pc # "done" => handlers[asked[v]].volume = v
      BY <2>4
    <3>2. CASE handlers'[asked[v]] = handlers[asked[v]]
      BY <3>1, <3>2
    <3>3. CASE LosesFile(h, asked[v])
      BY <3>1, <3>3 DEF LosesFile
    <3> QED
      BY <2>3, <2>4, <3>2, <3>3
  <2> QED
    BY <2>1, <2>2, <2>4
<1>2. ASSUME NEW c \in Container, RuncRuns(c) PROVE Served'
  BY <1>2, RuncEffect
<1>3. ASSUME NEW v \in Volume, NEW h \in Handler, KubeletStages(v, h)
      PROVE  Served'
  <2>0. StagesDoes(v, h)
    BY <1>3, StagesEffect
  <2>1. \A w \in Volume : asked[w] # h
    BY <2>0 DEF StagesDoes
  <2>2. ASSUME NEW w \in Volume \ {v}
        PROVE  /\ staged'[w] = staged[w] /\ asked'[w] = asked[w] /\ asked[w] # h
               /\ asked[w] # Absent => handlers'[asked[w]] = handlers[asked[w]]
    BY <2>0, <2>1 DEF StagesDoes
  <2>3. staged'[v] = "staging" /\ asked'[v] = h /\ h # Absent
    BY <2>0 DEF StagesDoes
  <2>4. handlers'[h].pc # "done" => handlers'[h].volume = v
    BY <2>0 DEF StagesDoes
  <2>5. handlers'[h].pc \in IF staged'[v] = "staging"
                            THEN {"truncate", "write", "unlinked", "done"}
                            ELSE {"stat", "remove", "done"}
    BY <2>0, <2>3 DEF StagesDoes
  <2> QED
    BY <2>2, <2>3, <2>4, <2>5
<1>4. ASSUME NEW v \in Volume, NEW h \in Handler, KubeletUnstages(v, h)
      PROVE  Served'
  <2>0. UnstagesDoes(v, h)
    BY <1>4, UnstagesEffect
  <2>1. \A w \in Volume : asked[w] # h
    BY <2>0 DEF UnstagesDoes
  <2>2. ASSUME NEW w \in Volume \ {v}
        PROVE  /\ staged'[w] = staged[w] /\ asked'[w] = asked[w] /\ asked[w] # h
               /\ asked[w] # Absent => handlers'[asked[w]] = handlers[asked[w]]
    BY <2>0, <2>1 DEF UnstagesDoes
  <2>3. staged'[v] = "unstaging" /\ asked'[v] = h /\ h # Absent
    BY <2>0 DEF UnstagesDoes
  <2>4. handlers'[h].pc # "done" => handlers'[h].volume = v
    BY <2>0 DEF UnstagesDoes
  <2>5. handlers'[h].pc \in IF staged'[v] = "staging"
                            THEN {"truncate", "write", "unlinked", "done"}
                            ELSE {"stat", "remove", "done"}
    BY <2>0, <2>3 DEF UnstagesDoes
  <2> QED
    BY <2>2, <2>3, <2>4, <2>5
<1>5. ASSUME NEW v \in Volume, KubeletIsAnswered(v) PROVE Served'
  <2>1. ASSUME NEW w \in Volume \ {v}
        PROVE  /\ staged'[w] = staged[w] /\ asked'[w] = asked[w]
               /\ asked[w] # Absent =>
                      asked[w] # asked[v] /\ handlers'[asked[w]] = handlers[asked[w]]
    BY <1>5, AnswerEffect
  <2>2. asked'[v] = Absent /\ staged'[v] \notin {"staging", "unstaging"}
    BY <1>5, AnswerEffect
  <2> QED
    BY <2>1, <2>2
<1>6. ASSUME NEW v \in Volume, KubeletGivesUp(v) PROVE Served'
  BY <1>6 DEF KubeletGivesUp
<1>7. ASSUME NEW c \in Container, KubeletCreates(c) PROVE Served'
  BY <1>7, CreateEffect
<1>8. CASE NodeRestarts
  BY <1>8, RestartEffect
<1>9. CASE UNCHANGED stagingVars
  BY <1>9 DEF stagingVars
<1> QED
  BY <1>1, <1>2, <1>3, <1>4, <1>5, <1>6, <1>7, <1>8, <1>9 DEF Next

\* A handler that is asked leaves the orphans, and nobody joins them.
LEMMA OrphansAsked ==
    ASSUME TypeOK, Served, NEW v \in Volume, NEW h \in Handler,
           asked' = [asked EXCEPT ![v] = h],
           staged[v] \notin {"staging", "unstaging"}, OthersGoOn(h)
    PROVE  \A g \in Orphans' : g \in Orphans /\ handlers'[g] = handlers[g]
<1> SUFFICES ASSUME NEW g \in Handler, \A w \in Volume : asked'[w] # g
             PROVE  g \in Orphans /\ handlers'[g] = handlers[g]
  BY DEF Orphans
<1>1. asked \in [Volume -> Handler \cup {Absent}] /\ asked[v] = Absent
  BY DEF TypeOK, Served
<1>2. asked'[v] = h /\ \A w \in Volume \ {v} : asked'[w] = asked[w]
  BY <1>1
<1>3. g # h /\ \A w \in Volume : asked[w] # g
  BY <1>1, <1>2, StagingAssumption
<1> QED
  BY <1>3 DEF Orphans, OthersGoOn

LEMMA NoLateUnstagingStep ==
    ASSUME TypeOK, Served, NoLateUnstaging, [Next]_stagingVars
    PROVE  NoLateUnstaging'
<1>1. ASSUME NEW h \in Handler, HandlerRuns(h) PROVE NoLateUnstaging'
  BY <1>1, HandlerEffect
  DEF NoLateUnstaging, Orphans, Served, TypeOK, Node!TypeOK, OthersGoOn,
      history, kubelet, OthersKeepOrLose,
      LosesFile
<1>2. ASSUME NEW c \in Container, RuncRuns(c) PROVE NoLateUnstaging'
  BY <1>2, RuncEffect
  DEF NoLateUnstaging, Orphans, Served, TypeOK, Node!TypeOK, OthersGoOn,
      history, kubelet
<1>3. ASSUME NEW v \in Volume, NEW h \in Handler, KubeletStages(v, h)
      PROVE  NoLateUnstaging'
  <2>1. StagesDoes(v, h)
    BY <1>3, StagesEffect
  <2>2. \A g \in Orphans' : g \in Orphans /\ handlers'[g] = handlers[g]
    BY <2>1, OrphansAsked DEF StagesDoes
  <2>3. UNCHANGED givenUp
    BY <2>1 DEF StagesDoes, history
  <2> QED
    BY <2>2, <2>3 DEF NoLateUnstaging
<1>4. ASSUME NEW v \in Volume, NEW h \in Handler, KubeletUnstages(v, h)
      PROVE  NoLateUnstaging'
  <2>1. UnstagesDoes(v, h)
    BY <1>4, UnstagesEffect
  <2>2. \A g \in Orphans' : g \in Orphans /\ handlers'[g] = handlers[g]
    BY <2>1, OrphansAsked DEF UnstagesDoes
  <2>3. UNCHANGED givenUp
    BY <2>1 DEF UnstagesDoes, history
  <2> QED
    BY <2>2, <2>3 DEF NoLateUnstaging
<1>5. ASSUME NEW v \in Volume, KubeletIsAnswered(v) PROVE NoLateUnstaging'
  BY <1>5, AnswerEffect
  DEF NoLateUnstaging, Orphans, Served, TypeOK, Node!TypeOK, OthersGoOn,
      history, kubelet
<1>6. ASSUME NEW v \in Volume, KubeletGivesUp(v) PROVE NoLateUnstaging'
  BY <1>6
  DEF KubeletGivesUp, NoLateUnstaging, Orphans, Served, TypeOK, Node!TypeOK,
      OthersGoOn, history, kubelet
<1>7. ASSUME NEW c \in Container, KubeletCreates(c) PROVE NoLateUnstaging'
  BY <1>7, CreateEffect
  DEF NoLateUnstaging, Orphans, Served, TypeOK, Node!TypeOK, OthersGoOn,
      history, kubelet
<1>8. CASE NodeRestarts
  BY <1>8, RestartEffect
  DEF NoLateUnstaging, Orphans, Served, TypeOK, Node!TypeOK, OthersGoOn,
      history, kubelet
<1>9. CASE UNCHANGED stagingVars
  BY <1>9
  DEF stagingVars, NoLateUnstaging, Orphans, Served, TypeOK, Node!TypeOK,
      OthersGoOn, history, kubelet
<1> QED
  BY <1>1, <1>2, <1>3, <1>4, <1>5, <1>6, <1>7, <1>8, <1>9 DEF Next

LEMMA NoLateCallStep ==
    ASSUME TypeOK, Served, NoLateCall, [Next]_stagingVars
    PROVE  NoLateCall'
<1>1. ASSUME NEW h \in Handler, HandlerRuns(h) PROVE NoLateCall'
  BY <1>1, HandlerEffect
  DEF NoLateCall, Orphans, Served, TypeOK, Node!TypeOK, OthersGoOn, history,
      kubelet, OthersKeepOrLose,
      LosesFile
<1>2. ASSUME NEW c \in Container, RuncRuns(c) PROVE NoLateCall'
  BY <1>2, RuncEffect
  DEF NoLateCall, Orphans, Served, TypeOK, Node!TypeOK, OthersGoOn, history,
      kubelet
<1>3. ASSUME NEW v \in Volume, NEW h \in Handler, KubeletStages(v, h)
      PROVE  NoLateCall'
  <2>1. StagesDoes(v, h)
    BY <1>3, StagesEffect
  <2>2. \A g \in Orphans' : g \in Orphans /\ handlers'[g] = handlers[g]
    BY <2>1, OrphansAsked DEF StagesDoes
  <2>3. UNCHANGED givenUp
    BY <2>1 DEF StagesDoes, history
  <2> QED
    BY <2>2, <2>3 DEF NoLateCall
<1>4. ASSUME NEW v \in Volume, NEW h \in Handler, KubeletUnstages(v, h)
      PROVE  NoLateCall'
  <2>1. UnstagesDoes(v, h)
    BY <1>4, UnstagesEffect
  <2>2. \A g \in Orphans' : g \in Orphans /\ handlers'[g] = handlers[g]
    BY <2>1, OrphansAsked DEF UnstagesDoes
  <2>3. UNCHANGED givenUp
    BY <2>1 DEF UnstagesDoes, history
  <2> QED
    BY <2>2, <2>3 DEF NoLateCall
<1>5. ASSUME NEW v \in Volume, KubeletIsAnswered(v) PROVE NoLateCall'
  BY <1>5, AnswerEffect
  DEF NoLateCall, Orphans, Served, TypeOK, Node!TypeOK, OthersGoOn, history,
      kubelet
<1>6. ASSUME NEW v \in Volume, KubeletGivesUp(v) PROVE NoLateCall'
  BY <1>6
  DEF KubeletGivesUp, NoLateCall, Orphans, Served, TypeOK, Node!TypeOK,
      OthersGoOn, history, kubelet
<1>7. ASSUME NEW c \in Container, KubeletCreates(c) PROVE NoLateCall'
  BY <1>7, CreateEffect
  DEF NoLateCall, Orphans, Served, TypeOK, Node!TypeOK, OthersGoOn, history,
      kubelet
<1>8. CASE NodeRestarts
  BY <1>8, RestartEffect
  DEF NoLateCall, Orphans, Served, TypeOK, Node!TypeOK, OthersGoOn, history,
      kubelet
<1>9. CASE UNCHANGED stagingVars
  BY <1>9
  DEF stagingVars, NoLateCall, Orphans, Served, TypeOK, Node!TypeOK,
      OthersGoOn, history, kubelet
<1> QED
  BY <1>1, <1>2, <1>3, <1>4, <1>5, <1>6, <1>7, <1>8, <1>9 DEF Next

\* Who is at work on a volume: the handler that the kubelet waits for.
LEMMA UnstagerIsAsked ==
    ASSUME TypeOK, Served, NoLateUnstaging, "unstaging" \notin givenUp,
           NEW h \in Handler, handlers[h].pc = "remove"
    PROVE  staged[handlers[h].volume] = "unstaging"
<1>1. PICK w \in Volume : asked[w] = h
  BY DEF NoLateUnstaging, Orphans
<1>2. staged[w] \in {"staging", "unstaging"} /\ asked[w] # Absent
  BY <1>1, StagingAssumption DEF Served
<1> QED
  BY <1>1, <1>2 DEF Served

LEMMA WorkerIsAsked ==
    ASSUME TypeOK, Served, NoLateCall, givenUp = {},
           NEW h \in Handler, handlers[h].pc # "idle"
    PROVE  \E w \in Volume :
               /\ asked[w] = h /\ staged[w] \in {"staging", "unstaging"}
               /\ handlers[h].pc # "done" => handlers[h].volume = w
<1>1. PICK w \in Volume : asked[w] = h
  BY DEF NoLateCall, Orphans
<1> QED
  BY <1>1, StagingAssumption DEF Served

LEMMA NoLostWriteStep ==
    ASSUME TypeOK, Served, NoLateUnstaging, NoLostWrite, [Next]_stagingVars
    PROVE  NoLostWrite'
<1>1. ASSUME NEW h \in Handler, HandlerRuns(h) PROVE NoLostWrite'
  <2>1. UNCHANGED <<asked, staged, givenUp>>
    BY <1>1, HandlerEffect DEF kubelet, history
  <2> SUFFICES ASSUME "unstaging" \notin givenUp, NEW v \in Volume,
                      asked[v] # Absent, handlers'[asked[v]].pc = "unlinked"
               PROVE  FALSE
    BY <2>1 DEF NoLostWrite
  <2>2. asked[v] \in Handler /\ handlers[asked[v]].pc # "unlinked"
    BY DEF TypeOK, NoLostWrite
  <2>3. asked[v] # h
    BY <1>1, <2>2, HandlerEffect
  <2>4. LosesFile(h, asked[v])
    BY <1>1, <2>2, <2>3, HandlerEffect DEF OthersKeepOrLose
  <2>5. handlers[h].volume = v /\ staged[v] = "staging"
    BY <2>4 DEF LosesFile, Served
  <2>6. staged[v] = "unstaging"
    BY <2>4, <2>5, UnstagerIsAsked DEF LosesFile
  <2> QED
    BY <2>5, <2>6
<1>2. ASSUME NEW c \in Container, RuncRuns(c) PROVE NoLostWrite'
  BY <1>2, RuncEffect DEF NoLostWrite, history, kubelet
<1>3. ASSUME NEW v \in Volume, NEW h \in Handler, KubeletStages(v, h)
      PROVE  NoLostWrite'
  BY <1>3, StagesEffect
  DEF NoLostWrite, StagesDoes, OthersGoOn, TypeOK, history
<1>4. ASSUME NEW v \in Volume, NEW h \in Handler, KubeletUnstages(v, h)
      PROVE  NoLostWrite'
  BY <1>4, UnstagesEffect
  DEF NoLostWrite, UnstagesDoes, OthersGoOn, TypeOK, history
<1>5. ASSUME NEW v \in Volume, KubeletIsAnswered(v) PROVE NoLostWrite'
  BY <1>5, AnswerEffect DEF NoLostWrite, OthersGoOn, TypeOK, history
<1>6. ASSUME NEW v \in Volume, KubeletGivesUp(v) PROVE NoLostWrite'
  BY <1>6 DEF KubeletGivesUp, NoLostWrite, TypeOK
<1>7. ASSUME NEW c \in Container, KubeletCreates(c) PROVE NoLostWrite'
  BY <1>7, CreateEffect DEF NoLostWrite, history, kubelet
<1>8. CASE NodeRestarts
  BY <1>8, RestartEffect DEF NoLostWrite, TypeOK, kubelet
<1>9. CASE UNCHANGED stagingVars
  BY <1>9 DEF stagingVars, NoLostWrite, history, kubelet
<1> QED
  BY <1>1, <1>2, <1>3, <1>4, <1>5, <1>6, <1>7, <1>8, <1>9 DEF Next

\* The handler that a staging waits for answers OK once it has written.
LEMMA NewAnswer ==
    ASSUME TypeOK, Served, NoLostWrite, "unstaging" \notin givenUp,
           NEW h \in Handler, HandlerRuns(h), NEW v \in Volume, Answers(v)'
    PROVE  \/ Answers(v)
           \/ /\ handlers[h].pc = "write" /\ handlers[h].volume = v
              /\ file'[v] = handlers[h].device /\ file'[v] \in Device
<1>1. /\ staged[v] = "staging" /\ asked[v] # Absent /\ asked[v] \in Handler
      /\ handlers'[asked[v]].pc = "done" /\ handlers'[asked[v]].code = "OK"
  BY HandlerEffect DEF Answers, kubelet, TypeOK
<1>2. CASE asked[v] # h
  BY <1>1, <1>2, HandlerEffect DEF OthersKeepOrLose, LosesFile, Answers
<1>3. CASE asked[v] = h
  <2>1. handlers[h].pc \in {"truncate", "write", "done"}
    BY <1>1, <1>3 DEF Served, NoLostWrite
  <2>2. handlers[h].pc = "write" /\ WritesFile(handlers[h].volume, handlers[h].device)
    BY <1>1, <1>3, <2>1, HandlerEffect
  <2>3. handlers[h].volume = v /\ handlers[h] \in Node!HandlerState
    BY <1>1, <1>3, <2>2 DEF Served, TypeOK, Node!TypeOK
  <2>4. handlers[h].device \in Device
    BY <2>2, <2>3, HandlerFields
  <2> QED
    BY <2>2, <2>3, <2>4 DEF WritesFile, TypeOK, Node!TypeOK
<1> QED
  BY <1>2, <1>3

\* The asked handlers of the other volumes, when one volume is asked for.
LEMMA AnswersOfOthers ==
    ASSUME TypeOK, Served, NEW v \in Volume, NEW h \in Handler,
           StagesDoes(v, h) \/ UnstagesDoes(v, h)
    PROVE  \A w \in Volume : Answers(w)' => Answers(w) /\ w # v
<1>1. /\ handlers[h].pc = "idle" /\ OthersGoOn(h)
      /\ asked' = [asked EXCEPT ![v] = h]
      /\ \A w \in Volume \ {v} : staged'[w] = staged[w]
  BY DEF StagesDoes, UnstagesDoes, TypeOK
<1>2. ~Answers(v)'
  BY <1>1 DEF StagesDoes, UnstagesDoes, Answers, TypeOK
<1>3. ASSUME NEW w \in Volume \ {v}, Answers(w)' PROVE Answers(w)
  <2>1. asked'[w] = asked[w] /\ asked[w] # Absent /\ asked[w] \in Handler
    BY <1>1, <1>3 DEF Answers, TypeOK
  <2>2. asked[w] # h
    BY <1>1, <2>1 DEF Served
  <2> QED
    BY <1>1, <1>3, <2>1, <2>2 DEF Answers, OthersGoOn
<1> QED
  BY <1>2, <1>3

LEMMA PresentStep ==
    ASSUME TypeOK, Served, NoLateUnstaging, NoLostWrite, Present, [Next]_stagingVars
    PROVE  Present'
<1>1. ASSUME NEW h \in Handler, HandlerRuns(h) PROVE Present'
  <2>1. UNCHANGED <<staged, runcs, givenUp>>
    BY <1>1, HandlerEffect DEF kubelet, history
  <2>2. ASSUME NEW v \in Volume
        PROVE  Needed(v)' => staged'[v] \notin {"unstaged", "unstaging"}
    BY <2>1 DEF Present, Needed
  <2>3. ASSUME NEW v \in Volume, "unstaging" \notin givenUp,
               staged[v] = "staged" \/ Answers(v)' \/ Needed(v)
        PROVE  file'[v] # Absent
    <3>1. CASE handlers[h].pc = "write" /\ handlers[h].volume = v /\ file'[v] \in Device
      BY <3>1, StagingAssumption
    <3>2. CASE staged[v] = "staged" \/ Answers(v) \/ Needed(v)
      <4>1. file[v] # Absent /\ staged[v] # "unstaging"
        BY <2>3, <3>2 DEF Present, Answers
      <4>2. handlers[h].pc = "remove" => handlers[h].volume # v
        BY <2>3, <4>1, UnstagerIsAsked
      <4>3. handlers[h] \in Node!HandlerState
        BY DEF TypeOK, Node!TypeOK
      <4>4. \/ file'[v] = file[v]
            \/ file'[v] = Torn
            \/ handlers[h].pc = "write" /\ file'[v] = handlers[h].device
        BY <1>1, <4>2, <4>3, HandlerEffect, HandlerFields
        DEF WritesFile, TypeOK, Node!TypeOK
      <4> QED
        BY <4>1, <4>3, <4>4, HandlerFields, StagingAssumption
    <3> QED
      BY <1>1, <2>3, <3>1, <3>2, NewAnswer
  <2> QED
    BY <2>1, <2>2, <2>3 DEF Present, Needed
<1>2. ASSUME NEW c \in Container, RuncRuns(c) PROVE Present'
  <2>1. UNCHANGED <<file, handlers, staged, asked, givenUp>>
    BY <1>2, RuncEffect DEF kubelet, history
  <2>2. \A v \in Volume : Needed(v)' => Needed(v)
    BY <1>2, RuncEffect DEF Needed
  <2>3. \A v \in Volume : Answers(v)' <=> Answers(v)
    BY <2>1 DEF Answers
  <2> QED
    BY <2>1, <2>2, <2>3 DEF Present
<1>3. ASSUME NEW v \in Volume, NEW h \in Handler, KubeletStages(v, h)
      PROVE  Present'
  <2>1. StagesDoes(v, h)
    BY <1>3, StagesEffect
  <2>2. \A w \in Volume : Answers(w)' => Answers(w) /\ w # v
    BY <2>1, AnswersOfOthers
  <2>3. UNCHANGED <<file, runcs, givenUp>>
    BY <2>1 DEF StagesDoes, history
  <2>4. \A w \in Volume : Needed(w)' <=> Needed(w)
    BY <2>3 DEF Needed
  <2> QED
    BY <2>1, <2>2, <2>3, <2>4 DEF StagesDoes, Present, Needed, TypeOK
<1>4. ASSUME NEW v \in Volume, NEW h \in Handler, KubeletUnstages(v, h)
      PROVE  Present'
  <2>1. UnstagesDoes(v, h)
    BY <1>4, UnstagesEffect
  <2>2. \A w \in Volume : Answers(w)' => Answers(w) /\ w # v
    BY <2>1, AnswersOfOthers
  <2>3. UNCHANGED <<file, runcs, givenUp>>
    BY <2>1 DEF UnstagesDoes, history
  <2>4. \A w \in Volume : Needed(w)' <=> Needed(w)
    BY <2>3 DEF Needed
  <2> QED
    BY <2>1, <2>2, <2>3, <2>4 DEF UnstagesDoes, Present, Needed, TypeOK
<1>5. ASSUME NEW v \in Volume, KubeletIsAnswered(v) PROVE Present'
  <2>1. UNCHANGED <<file, runcs, givenUp>>
    BY <1>5, AnswerEffect DEF history
  <2>2. \A w \in Volume : Needed(w)' <=> Needed(w)
    BY <2>1 DEF Needed
  <2>3. staged[v] \in {"staging", "unstaging"}
    BY <1>5, AnswerEffect, StagingAssumption DEF Served
  <2>4. /\ staged'[v] = "staged" => Answers(v)
        /\ staged'[v] = "unstaged" => staged[v] = "unstaging"
        /\ staged'[v] \in {"staged", "unstaged", "unsure"}
    BY <1>5, <2>3, AnswerEffect, StagingAssumption DEF TypeOK, Answers
  <2>5. ASSUME NEW w \in Volume \ {v}
        PROVE  staged'[w] = staged[w] /\ (Answers(w)' => Answers(w))
    BY <1>5, AnswerEffect DEF TypeOK, Answers, OthersGoOn, Served
  <2> QED
    BY <2>1, <2>2, <2>3, <2>4, <2>5 DEF Present, Answers
<1>6. ASSUME NEW v \in Volume, KubeletGivesUp(v) PROVE Present'
  <2>1. /\ UNCHANGED <<file, handlers, runcs>> /\ givenUp \subseteq givenUp'
        /\ staged' = [staged EXCEPT ![v] = "unsure"]
        /\ asked' = [asked EXCEPT ![v] = Absent]
    BY <1>6 DEF KubeletGivesUp
  <2>2. \A w \in Volume : Needed(w)' <=> Needed(w)
    BY <2>1 DEF Needed
  <2>3. \A w \in Volume : Answers(w)' => Answers(w)
    BY <2>1 DEF Answers, TypeOK
  <2> QED
    BY <2>1, <2>2, <2>3 DEF Present, TypeOK
<1>7. ASSUME NEW c \in Container, KubeletCreates(c) PROVE Present'
  <2>1. UNCHANGED <<file, handlers, staged, asked, givenUp>>
    BY <1>7, CreateEffect DEF kubelet, history
  <2>2. \A v \in Volume : Needed(v)' => Needed(v) \/ staged[v] = "staged"
    BY <1>7, CreateEffect DEF Needed
  <2>3. \A v \in Volume : Answers(v)' <=> Answers(v)
    BY <2>1 DEF Answers
  <2> QED
    BY <2>1, <2>2, <2>3 DEF Present
<1>8. CASE NodeRestarts
  <2>1. UNCHANGED <<file, runcs, staged, asked, givenUp>>
    BY <1>8, RestartEffect DEF kubelet
  <2>2. \A v \in Volume : Needed(v)' <=> Needed(v)
    BY <2>1 DEF Needed
  <2>3. \A v \in Volume : Answers(v)' => Answers(v)
    BY <1>8, <2>1, RestartEffect DEF Answers, TypeOK
  <2> QED
    BY <2>1, <2>2, <2>3 DEF Present
<1>9. CASE UNCHANGED stagingVars
  BY <1>9 DEF stagingVars, Present, Needed, Answers, kubelet, history
<1> QED
  BY <1>1, <1>2, <1>3, <1>4, <1>5, <1>6, <1>7, <1>8, <1>9 DEF Next

LEMMA WholeStep ==
    ASSUME TypeOK, Served, NoLateCall, NoLostWrite, Whole, [Next]_stagingVars
    PROVE  Whole'
<1>1. ASSUME NEW h \in Handler, HandlerRuns(h) PROVE Whole'
  <2>1. UNCHANGED <<staged, asked, givenUp>>
    BY <1>1, HandlerEffect DEF kubelet, history
  <2>2. ASSUME NEW v \in Volume, givenUp = {}, staged[v] = "staged" \/ Answers(v)'
        PROVE  file'[v] \in Device
    <3>1. CASE handlers[h].pc = "write" /\ handlers[h].volume = v /\ file'[v] \in Device
      BY <3>1
    <3>2. CASE staged[v] = "staged" \/ Answers(v)
      <4>1. file[v] \in Device
        BY <2>2, <3>2 DEF Whole
      <4>2. handlers[h].pc # "idle" /\ handlers[h] \in Node!HandlerState
        BY <1>1, HandlerEffect DEF TypeOK, Node!TypeOK
      <4>3. PICK w \in Volume :
                 /\ asked[w] = h /\ staged[w] \in {"staging", "unstaging"}
                 /\ handlers[h].pc # "done" => handlers[h].volume = w
        BY <2>2, <4>2, WorkerIsAsked
      <4>4. handlers[h].pc # "done" => handlers[h].volume # v
        BY <3>2, <4>3 DEF Answers
      <4> QED
        BY <1>1, <4>1, <4>2, <4>4, HandlerEffect, HandlerFields
        DEF WritesFile, TypeOK, Node!TypeOK
    <3> QED
      BY <1>1, <2>2, <3>1, <3>2, NewAnswer
  <2> QED
    BY <2>1, <2>2 DEF Whole
<1>2. ASSUME NEW c \in Container, RuncRuns(c) PROVE Whole'
  <2>1. UNCHANGED <<file, handlers, staged, asked, givenUp>>
    BY <1>2, RuncEffect DEF kubelet, history
  <2> QED
    BY <2>1 DEF Whole, Answers
<1>3. ASSUME NEW v \in Volume, NEW h \in Handler, KubeletStages(v, h)
      PROVE  Whole'
  <2>1. StagesDoes(v, h)
    BY <1>3, StagesEffect
  <2>2. \A w \in Volume : Answers(w)' => Answers(w) /\ w # v
    BY <2>1, AnswersOfOthers
  <2>3. UNCHANGED <<file, givenUp>>
    BY <2>1 DEF StagesDoes, history
  <2> QED
    BY <2>1, <2>2, <2>3 DEF StagesDoes, Whole, TypeOK
<1>4. ASSUME NEW v \in Volume, NEW h \in Handler, KubeletUnstages(v, h)
      PROVE  Whole'
  <2>1. UnstagesDoes(v, h)
    BY <1>4, UnstagesEffect
  <2>2. \A w \in Volume : Answers(w)' => Answers(w) /\ w # v
    BY <2>1, AnswersOfOthers
  <2>3. UNCHANGED <<file, givenUp>>
    BY <2>1 DEF UnstagesDoes, history
  <2> QED
    BY <2>1, <2>2, <2>3 DEF UnstagesDoes, Whole, TypeOK
<1>5. ASSUME NEW v \in Volume, KubeletIsAnswered(v) PROVE Whole'
  <2>1. UNCHANGED <<file, givenUp>>
    BY <1>5, AnswerEffect DEF history
  <2>2. staged[v] \in {"staging", "unstaging"}
    BY <1>5, AnswerEffect, StagingAssumption DEF Served
  <2>3. /\ staged'[v] = "staged" => Answers(v)
        /\ staged'[v] \in {"staged", "unstaged", "unsure"}
    BY <1>5, <2>2, AnswerEffect, StagingAssumption DEF TypeOK, Answers
  <2>4. ASSUME NEW w \in Volume \ {v}
        PROVE  staged'[w] = staged[w] /\ (Answers(w)' => Answers(w))
    BY <1>5, AnswerEffect DEF TypeOK, Answers, OthersGoOn, Served
  <2> QED
    BY <2>1, <2>3, <2>4 DEF Whole, Answers
<1>6. ASSUME NEW v \in Volume, KubeletGivesUp(v) PROVE Whole'
  <2>1. UNCHANGED <<file, handlers>> /\ givenUp \subseteq givenUp'
    BY <1>6 DEF KubeletGivesUp
  <2>2. \A w \in Volume :
            /\ Answers(w)' => Answers(w)
            /\ staged'[w] = "staged" => staged[w] = "staged"
    BY <1>6 DEF KubeletGivesUp, Answers, TypeOK
  <2> QED
    BY <2>1, <2>2 DEF Whole
<1>7. ASSUME NEW c \in Container, KubeletCreates(c) PROVE Whole'
  <2>1. UNCHANGED <<file, handlers, staged, asked, givenUp>>
    BY <1>7, CreateEffect DEF kubelet, history
  <2> QED
    BY <2>1 DEF Whole, Answers
<1>8. CASE NodeRestarts
  <2>1. UNCHANGED <<file, staged, asked, givenUp>>
    BY <1>8, RestartEffect DEF kubelet
  <2>2. \A v \in Volume : Answers(v)' => Answers(v)
    BY <1>8, <2>1, RestartEffect DEF Answers, TypeOK
  <2> QED
    BY <2>1, <2>2 DEF Whole
<1>9. CASE UNCHANGED stagingVars
  BY <1>9 DEF stagingVars, Whole, Answers, kubelet, history
<1> QED
  BY <1>1, <1>2, <1>3, <1>4, <1>5, <1>6, <1>7, <1>8, <1>9 DEF Next

\* SoFar, of one container.
SoFarOf(c) ==
    /\ runcs[c].pc = "none" => config[c] = <<>>
    /\ Runc!Creating(c) =>
           /\ config[c] = runcs[c].spec
           /\ runcs[c].mount <= Len(Mounts[c]) + 1
           /\ runcs[c].pc = "load" => runcs[c].mount <= Len(Mounts[c])
           /\ "unstaging" \notin givenUp =>
                  /\ runcs[c].mount = Len(runcs[c].spec) + 1
                  /\ \A i \in DOMAIN runcs[c].spec :
                         Is(runcs[c].spec[i], Mounts[c][i])

LEMMA SoFarStep ==
    ASSUME TypeOK, Described, Present, SoFar, StartedHasDevices, [Next]_stagingVars
    PROVE  SoFar' /\ StartedHasDevices'
<1>1. ASSUME NEW h \in Handler, HandlerRuns(h)
      PROVE  SoFar' /\ StartedHasDevices'
  <2>1. UNCHANGED <<runcs, config, meant, givenUp>>
    BY <1>1, HandlerEffect DEF history
  <2> QED
    BY <2>1 DEF SoFar, StartedHasDevices, Runc!Creating, Is
<1>2. ASSUME NEW c \in Container, RuncRuns(c) PROVE SoFar' /\ StartedHasDevices'
  <2>1. UNCHANGED <<file, meant, givenUp>>
    BY <1>2, RuncEffect DEF history
  <2>2. \A d \in Container \ {c} : runcs'[d] = runcs[d] /\ config'[d] = config[d]
    BY <1>2, RuncEffect
  <2>3. /\ Mounts[c] \in Seq(Volume) /\ config[c] \in Seq(Device)
        /\ runcs[c] \in Runc!RuncState
    BY StagingAssumption DEF TypeOK, Runc!TypeOK
  <2> DEFINE v == Mounts[c][runcs[c].mount]
  <2>4. SoFarOf(c)'
    <3>1. CASE runcs[c].pc = "find" /\ runcs'[c].pc = "load"
      <4>1. /\ runcs[c].mount <= Len(Mounts[c]) /\ runcs'[c].mount = runcs[c].mount
            /\ runcs'[c].spec = runcs[c].spec /\ config'[c] = config[c]
        BY <1>2, <3>1, RuncEffect
      <4> QED
        BY <2>1, <3>1, <4>1 DEF SoFar, SoFarOf, Runc!Creating, Is
    <3>2. CASE runcs[c].pc = "find" /\ runcs'[c].pc = "find"
      <4>1. /\ runcs[c].mount <= Len(Mounts[c]) /\ file[v] = Absent
            /\ runcs'[c].mount = runcs[c].mount + 1
            /\ runcs'[c].spec = runcs[c].spec /\ config'[c] = config[c]
        BY <1>2, <3>2, RuncEffect
      <4>2. runcs[c].mount \in DOMAIN Mounts[c]
        BY <2>3, <3>2, <4>1, RuncFields
      <4>3. Needed(v) /\ v \in Volume
        BY <2>3, <3>2, <4>2 DEF Needed, Needs
      <4>4. "unstaging" \in givenUp
        BY <4>1, <4>3 DEF Present
      <4> QED
        BY <2>1, <2>3, <3>2, <4>1, <4>4, RuncFields
        DEF SoFar, SoFarOf, Runc!Creating
    <3>3. CASE runcs[c].pc = "load" /\ runcs'[c].pc = "find"
      <4>1. /\ file[v] \in Device /\ runcs'[c].mount = runcs[c].mount + 1
            /\ runcs'[c].spec = Append(runcs[c].spec, file[v])
            /\ config'[c] = runcs'[c].spec
        BY <1>2, <3>3, RuncEffect
      <4>2. runcs[c].mount \in Nat \ {0} /\ runcs[c].spec \in Seq(Device)
        BY <2>3, <3>3, RuncFields
      <4>3. runcs[c].mount <= Len(Mounts[c])
        BY <3>3 DEF SoFar, Runc!Creating
      <4>4. v \in Volume
        BY <2>3, <4>2, <4>3
      <4>5. Is(file[v], v)
        BY <4>1, <4>4 DEF Described
      <4>6. ASSUME "unstaging" \notin givenUp
            PROVE  /\ runcs'[c].mount = Len(runcs'[c].spec) + 1
                   /\ \A i \in DOMAIN runcs'[c].spec :
                          Is(runcs'[c].spec[i], Mounts[c][i])
        <5>1. /\ runcs[c].mount = Len(runcs[c].spec) + 1
              /\ \A i \in DOMAIN runcs[c].spec : Is(runcs[c].spec[i], Mounts[c][i])
          BY <3>3, <4>6 DEF SoFar, Runc!Creating
        <5>2. /\ Len(runcs'[c].spec) = Len(runcs[c].spec) + 1
              /\ DOMAIN runcs'[c].spec = 1 .. Len(runcs[c].spec) + 1
              /\ runcs'[c].spec[Len(runcs[c].spec) + 1] = file[v]
              /\ \A i \in 1 .. Len(runcs[c].spec) :
                     runcs'[c].spec[i] = runcs[c].spec[i]
          BY <4>1, <4>2
        <5> QED
          <6>1. ASSUME NEW i \in 1 .. Len(runcs[c].spec)
                PROVE  Is(runcs'[c].spec[i], Mounts[c][i])
            BY <4>2, <5>1, <5>2
          <6>2. Is(runcs'[c].spec[Len(runcs[c].spec) + 1],
                   Mounts[c][Len(runcs[c].spec) + 1])
            BY <4>5, <5>1, <5>2
          <6>3. \A i \in 1 .. Len(runcs[c].spec) + 1 :
                    i \in 1 .. Len(runcs[c].spec) \/ i = Len(runcs[c].spec) + 1
            BY <4>2
          <6>4. runcs'[c].mount = Len(runcs'[c].spec) + 1
            BY <4>1, <5>1, <5>2
          <6> QED
            BY <5>2, <6>1, <6>2, <6>3, <6>4
      <4> QED
        BY <2>1, <2>3, <3>3, <4>1, <4>2, <4>3, <4>6
        DEF SoFarOf, Runc!Creating, Is
    <3>4. CASE runcs'[c].pc \in {"failed", "started"}
      BY <3>4 DEF SoFarOf, Runc!Creating
    <3>5. CASE runcs'[c].pc = "none" /\ config'[c] = <<>>
      BY <3>5 DEF SoFarOf, Runc!Creating
    <3> QED
      BY <1>2, <3>1, <3>2, <3>3, <3>4, <3>5, RuncEffect
  <2>5. ASSUME "unstaging" \notin givenUp, runcs'[c].pc = "started"
        PROVE  /\ Len(config'[c]) = Len(Mounts[c])
               /\ \A i \in DOMAIN Mounts[c] : Is(config'[c][i], Mounts[c][i])
    <3>1. /\ runcs[c].pc = "find" /\ runcs[c].mount > Len(Mounts[c])
          /\ config'[c] = config[c]
      BY <1>2, <2>5, RuncEffect
    <3>2. /\ config[c] = runcs[c].spec /\ runcs[c].mount <= Len(Mounts[c]) + 1
          /\ runcs[c].mount = Len(runcs[c].spec) + 1
          /\ \A i \in DOMAIN runcs[c].spec : Is(runcs[c].spec[i], Mounts[c][i])
      BY <2>5, <3>1 DEF SoFar, Runc!Creating
    <3>3. Len(config[c]) = Len(Mounts[c])
      BY <2>3, <3>1, <3>2, RuncFields
    <3> QED
      BY <2>3, <3>1, <3>2, <3>3
  <2>6. ASSUME NEW d \in Container \ {c} PROVE SoFarOf(d)'
    BY <2>1, <2>2 DEF SoFar, SoFarOf, Runc!Creating, Is
  <2>7. SoFar'
    BY <2>4, <2>6 DEF SoFar, SoFarOf
  <2>8. ASSUME NEW d \in Container \ {c}, "unstaging" \notin givenUp,
               runcs'[d].pc = "started"
        PROVE  /\ Len(config'[d]) = Len(Mounts[d])
               /\ \A i \in DOMAIN Mounts[d] : Is(config'[d][i], Mounts[d][i])
    BY <2>2, <2>8 DEF StartedHasDevices
  <2> QED
    BY <2>1, <2>5, <2>7, <2>8 DEF StartedHasDevices, Is
<1>3. ASSUME NEW v \in Volume, NEW h \in Handler, KubeletStages(v, h)
      PROVE  SoFar' /\ StartedHasDevices'
  <2>1. UNCHANGED <<runcs, config, meant, givenUp>>
    BY <1>3, StagesEffect DEF StagesDoes, history
  <2> QED
    BY <2>1 DEF SoFar, StartedHasDevices, Runc!Creating, Is
<1>4. ASSUME NEW v \in Volume, NEW h \in Handler, KubeletUnstages(v, h)
      PROVE  SoFar' /\ StartedHasDevices'
  <2>1. UNCHANGED <<runcs, config, meant, givenUp>>
    BY <1>4, UnstagesEffect DEF UnstagesDoes, history
  <2> QED
    BY <2>1 DEF SoFar, StartedHasDevices, Runc!Creating, Is
<1>5. ASSUME NEW v \in Volume, KubeletIsAnswered(v)
      PROVE  SoFar' /\ StartedHasDevices'
  <2>1. UNCHANGED <<runcs, config, meant, givenUp>>
    BY <1>5, AnswerEffect DEF history
  <2> QED
    BY <2>1 DEF SoFar, StartedHasDevices, Runc!Creating, Is
<1>6. ASSUME NEW v \in Volume, KubeletGivesUp(v)
      PROVE  SoFar' /\ StartedHasDevices'
  <2>1. UNCHANGED <<runcs, config, meant>> /\ givenUp \subseteq givenUp'
    BY <1>6 DEF KubeletGivesUp
  <2> QED
    BY <2>1 DEF SoFar, StartedHasDevices, Runc!Creating, Is
<1>7. ASSUME NEW c \in Container, KubeletCreates(c)
      PROVE  SoFar' /\ StartedHasDevices'
  <2>1. UNCHANGED <<config, meant, givenUp>>
    BY <1>7, CreateEffect DEF history
  <2>2. \A d \in Container \ {c} : runcs'[d] = runcs[d]
    BY <1>7, CreateEffect
  <2>3. /\ runcs[c].pc = "none" /\ runcs'[c].pc = "find" /\ runcs'[c].mount = 1
        /\ runcs'[c].spec = <<>>
    BY <1>7, CreateEffect
  <2>4. config[c] = <<>> /\ Mounts[c] \in Seq(Volume)
    BY <2>3, StagingAssumption DEF SoFar
  <2> QED
    BY <2>1, <2>2, <2>3, <2>4 DEF SoFar, StartedHasDevices, Runc!Creating, Is
<1>8. CASE NodeRestarts
  <2>1. UNCHANGED <<runcs, config, givenUp>> /\ \A v \in Volume : meant'[v] = Absent
    BY <1>8, RestartEffect
  <2>2. ASSUME NEW c \in Container
        PROVE  \A i \in DOMAIN Mounts[c] : Mounts[c][i] \in Volume
    BY StagingAssumption
  <2>3. ASSUME NEW c \in Container, "unstaging" \notin givenUp, runcs[c].pc = "started"
        PROVE  /\ Len(config[c]) = Len(Mounts[c])
               /\ \A i \in DOMAIN Mounts[c] : meant'[Mounts[c][i]] = Absent
    BY <2>1, <2>2, <2>3 DEF StartedHasDevices
  <2>4. ASSUME NEW c \in Container, "unstaging" \notin givenUp, Runc!Creating(c)
        PROVE  /\ runcs[c].mount = Len(runcs[c].spec) + 1
               /\ \A i \in DOMAIN runcs[c].spec : meant'[Mounts[c][i]] = Absent
    <3>1. /\ runcs[c].mount = Len(runcs[c].spec) + 1
          /\ runcs[c].mount <= Len(Mounts[c]) + 1
      BY <2>4 DEF SoFar
    <3>2. runcs[c].spec \in Seq(Device) /\ Mounts[c] \in Seq(Volume)
      BY <2>4, RuncFields, StagingAssumption
      DEF Runc!Creating, TypeOK, Runc!TypeOK
    <3>3. DOMAIN runcs[c].spec \subseteq DOMAIN Mounts[c]
      BY <3>1, <3>2
    <3> QED
      BY <2>1, <2>2, <3>1, <3>3
  <2> QED
    BY <2>1, <2>3, <2>4 DEF SoFar, StartedHasDevices, Runc!Creating, Is
<1>9. CASE UNCHANGED stagingVars
  BY <1>9 DEF stagingVars, SoFar, StartedHasDevices, Runc!Creating, Is, history
<1> QED
  BY <1>1, <1>2, <1>3, <1>4, <1>5, <1>6, <1>7, <1>8, <1>9 DEF Next

-----------------------------------------------------------------------------
LEMMA StagingInvInit == Init => StagingInv
<1> SUFFICES ASSUME Init PROVE StagingInv
  OBVIOUS
<1> USE DEF Init, Node!Init, Runc!Init
<1>1. \A v \in Volume : ContextID[v] \in DOMAIN devicesByDeviceID =>
          devicesByDeviceID[ContextID[v]] \in Device
  BY StagingAssumption
<1>2. TypeOK
  <2>1. meant \in [Volume -> Device \cup {Absent}]
    BY <1>1
  <2>2. Node!TypeOK
    BY HandlerTypes DEF Node!TypeOK
  <2>3. Runc!TypeOK
    BY RuncTypes DEF Runc!TypeOK
  <2> QED
    BY <2>1, <2>2, <2>3 DEF TypeOK, Stages
<1>3. \A c \in Container : runcs[c].pc = "none" /\ config[c] = <<>>
  BY RuncTypes
<1>4. \A h \in Handler : handlers[h].pc = "idle"
  BY HandlerTypes
<1>5. \A v \in Volume :
          staged[v] = "unstaged" /\ asked[v] = Absent /\ file[v] = Absent
  OBVIOUS
<1>6. MeantIsFound
  BY DEF MeantIsFound
<1>7. Described
  BY <1>4, <1>5, StagingAssumption DEF Described
<1>8. Served
  BY <1>5 DEF Served
<1>9. NoLateUnstaging /\ NoLateCall /\ NoLostWrite
  BY <1>4, <1>5 DEF NoLateUnstaging, NoLateCall, NoLostWrite, Orphans
<1>10. Present /\ Whole
  BY <1>3, <1>5 DEF Present, Whole, Needed, Answers
<1>11. SoFar /\ StartedHasDevices
  BY <1>3 DEF SoFar, StartedHasDevices, Runc!Creating
<1> QED
  BY <1>2, <1>6, <1>7, <1>8, <1>9, <1>10, <1>11 DEF StagingInv

(***************************************************************************)
(* The inductive invariant of the node server, cdi-runc and the kubelet.   *)
(***************************************************************************)
THEOREM StagingInvariant == Spec => []StagingInv
<1>1. StagingInv /\ [Next]_stagingVars => StagingInv'
  BY TypeStep, MeantStep, DescribedStep, ServedStep, NoLateUnstagingStep,
     NoLateCallStep, NoLostWriteStep, PresentStep, WholeStep, SoFarStep
  DEF StagingInv
<1> QED
  BY StagingInvInit, <1>1, PTL DEF Spec

(***************************************************************************)
(* A container that is started has one device for every volume it mounts,  *)
(* and the right one, unless a NodeUnstageVolume was given up.             *)
(***************************************************************************)
THEOREM StartedHasDevicesHolds == Spec => []StartedHasDevices
<1>1. StagingInv => StartedHasDevices
  BY DEF StagingInv
<1> QED
  BY StagingInvariant, <1>1, PTL

(***************************************************************************)
(* What is staged is described by a whole file, unless a call was given up.*)
(***************************************************************************)
THEOREM StagedIsWholeHolds == Spec => []StagedIsWhole
<1>1. StagingInv => StagedIsWhole
  BY DEF StagingInv, Whole, Described, StagedIsWhole
<1> QED
  BY StagingInvariant, <1>1, PTL
=============================================================================
