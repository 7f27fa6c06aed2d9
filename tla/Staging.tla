-------------------------------- MODULE Staging --------------------------------
(***************************************************************************)
(* How a device gets into a container: the node server (NodeServer) and    *)
(* cdi-runc (CdiRunc), which share nothing but the CDI.json files, and the *)
(* kubelet, which calls both and is not part of the driver.  It stages the *)
(* volumes of a container first, again for every container, and unstages a *)
(* volume when no container mounts it any more.  A call that it gives up   *)
(* may still be served.                                                    *)
(***************************************************************************)
EXTENDS Sequences, Naturals

CONSTANTS
    Volume,     \* volumes, each with its own staging directory
    Device,     \* the devices of the node, each standing for its device files
    DeviceID,   \* the identifiers that discovery gives out
    Found,      \* what discovery may find: identifier |-> device
    ContextID,  \* volume |-> the identifier in its volume context
    Container,  \* containers
    Mounts,     \* container |-> the volumes it mounts, in order
    Handler,    \* goroutines serving calls of the node server
    Torn,       \* a file that is empty or cut off
    Absent      \* no such file or handler, or not known

ASSUME StagingAssumption ==
    /\ \A devices \in Found :
           /\ DOMAIN devices \subseteq DeviceID
           /\ devices \in [DOMAIN devices -> Device]
    /\ ContextID \in [Volume -> DeviceID]
    /\ Mounts \in [Container -> Seq(Volume)]
    /\ Torn \notin Device /\ Absent \notin Device /\ Torn # Absent
    /\ Absent \notin Handler

VARIABLES
    devicesByDeviceID,  \* what discovery found when the node was started
    file,               \* volume |-> the device described in its CDI.json
    handlers,           \* what every handler is doing
    runcs,              \* what the cdi-runc of every container is doing
    config,             \* container |-> the devices added to its config.json
    staged,             \* volume |-> what the kubelet thinks of it
    asked,              \* volume |-> the handler the kubelet waits for, or Absent
    meant,              \* history: volume |-> the device its identifier meant
                        \* when it was made, or Absent once the node restarted
    givenUp             \* history: the kinds of calls that were given up

Node == INSTANCE NodeServer

Runc == INSTANCE CdiRunc

kubelet == <<staged, asked>>

history == <<meant, givenUp>>

stagingVars ==
    <<devicesByDeviceID, file, handlers, runcs, config, kubelet, history>>

Stages == {"unstaged", "staging", "staged", "unsure", "unstaging"}

\* The handlers whose caller has given up.
Orphans == {h \in Handler : \A v \in Volume : asked[v] # h}

\* The volumes that a container needs.
Needs(c) == {Mounts[c][i] : i \in DOMAIN Mounts[c]}

-----------------------------------------------------------------------------
Init ==
    /\ Node!Init /\ Runc!Init
    /\ staged = [v \in Volume |-> "unstaged"]
    /\ asked = [v \in Volume |-> Absent]
    /\ meant = [v \in Volume |->
           IF ContextID[v] \in DOMAIN devicesByDeviceID
           THEN devicesByDeviceID[ContextID[v]]
           ELSE Absent]
    /\ givenUp = {}

NodeRestarts ==
    /\ Node!Restart
    /\ meant' = [v \in Volume |-> Absent]
    /\ UNCHANGED <<runcs, config, kubelet, givenUp>>

HandlerRuns(h) ==
    /\ Node!HandlerSteps(h) \/ (h \in Orphans /\ Node!Return(h))
    /\ UNCHANGED <<runcs, config, kubelet, history>>

RuncRuns(c) ==
    /\ Runc!RuncSteps(c) \/ Runc!Delete(c)
    /\ UNCHANGED <<devicesByDeviceID, handlers, kubelet, history>>

-----------------------------------------------------------------------------
\* The kubelet, which does one thing at a time with a volume.
KubeletStages(v, h) ==
    /\ staged[v] \in {"unstaged", "staged", "unsure"}
    /\ Node!NodeStageVolume(h, v, ContextID[v])
    /\ staged' = [staged EXCEPT ![v] = "staging"]
    /\ asked' = [asked EXCEPT ![v] = h]
    /\ UNCHANGED <<runcs, config, history>>

KubeletUnstages(v, h) ==
    /\ staged[v] \in {"staged", "unsure"}
    /\ \A c \in Container : v \in Needs(c) => runcs[c].pc = "none"
    /\ Node!NodeUnstageVolume(h, v)
    /\ staged' = [staged EXCEPT ![v] = "unstaging"]
    /\ asked' = [asked EXCEPT ![v] = h]
    /\ UNCHANGED <<runcs, config, history>>

\* The answer arrives.
KubeletIsAnswered(v) ==
    /\ asked[v] # Absent
    /\ handlers[asked[v]].pc = "done"
    /\ staged' = [staged EXCEPT ![v] =
           IF handlers[asked[v]].code # "OK" THEN "unsure"
           ELSE IF @ = "staging" THEN "staged" ELSE "unstaged"]
    /\ Node!Return(asked[v])
    /\ asked' = [asked EXCEPT ![v] = Absent]
    /\ UNCHANGED <<runcs, config, history>>

\* The deadline passes: the kubelet has its error, and the handler runs on.
KubeletGivesUp(v) ==
    /\ asked[v] # Absent
    /\ givenUp' = givenUp \cup {staged[v]}
    /\ staged' = [staged EXCEPT ![v] = "unsure"]
    /\ asked' = [asked EXCEPT ![v] = Absent]
    /\ UNCHANGED <<devicesByDeviceID, file, handlers, runcs, config, meant>>

\* A container is created when all its volumes are staged.
KubeletCreates(c) ==
    /\ \A v \in Needs(c) : staged[v] = "staged"
    /\ Runc!Create(c)
    /\ UNCHANGED <<devicesByDeviceID, handlers, kubelet, history>>

Next ==
    \/ NodeRestarts
    \/ \E h \in Handler : HandlerRuns(h)
    \/ \E c \in Container : RuncRuns(c) \/ KubeletCreates(c)
    \/ \E v \in Volume :
           \/ KubeletIsAnswered(v) \/ KubeletGivesUp(v)
           \/ \E h \in Handler : KubeletStages(v, h) \/ KubeletUnstages(v, h)

Spec == Init /\ [][Next]_stagingVars

-----------------------------------------------------------------------------
\* Every variable has its type.
TypeOK ==
    /\ Node!TypeOK /\ Runc!TypeOK
    /\ staged \in [Volume -> Stages]
    /\ asked \in [Volume -> Handler \cup {Absent}]
    /\ meant \in [Volume -> Device \cup {Absent}]
    /\ givenUp \subseteq {"staging", "unstaging"}

\* The device is the one that the volume was made for, as far as that is known.
Is(device, v) == device = meant[v] \/ meant[v] = Absent

(***************************************************************************)
(* A container that cdi-runc has started has all its devices: one for      *)
(* every volume it mounts, in the order of the mounts, and the one that    *)
(* the volume was made for unless the node has restarted.  The files are   *)
(* truncated, written again and removed while cdi-runc reads them, and the *)
(* node may end in between.  A NodeUnstageVolume that was given up is the  *)
(* exception: it may remove a file that was just staged again.             *)
(***************************************************************************)
StartedHasDevices ==
    "unstaging" \notin givenUp =>
        \A c \in Container : runcs[c].pc = "started" =>
            /\ Len(config[c]) = Len(Mounts[c])
            /\ \A i \in DOMAIN Mounts[c] :
                   Is(config[c][i], Mounts[c][i])

(***************************************************************************)
(* What the kubelet takes for staged has a whole CDI.json, with the device *)
(* of the volume: an earlier attempt that failed half-way, in the handler  *)
(* or because the node ended, leaves nothing behind.  A call that was      *)
(* given up is again the exception.                                        *)
(***************************************************************************)
StagedIsWhole ==
    givenUp = {} =>
        \A v \in Volume : staged[v] = "staged" =>
            file[v] \in Device /\ Is(file[v], v)

(***************************************************************************)
(* The inductive invariant of the two properties.  Served: what the kubelet*)
(* waits for is done by the handler it asked.  NoLateUnstaging, NoLateCall:*)
(* nobody else is at work until a call is given up.  NoLostWrite: nobody   *)
(* waits for a handler whose file was removed.  Present: a volume that is  *)
(* staged, or that a container needs, has a file.  SoFar: what cdi-runc    *)
(* has added up to the mount that it looks at.                             *)
(***************************************************************************)
MeantIsFound ==
    \A v \in Volume : meant[v] # Absent =>
        /\ ContextID[v] \in DOMAIN devicesByDeviceID
        /\ meant[v] = devicesByDeviceID[ContextID[v]]

Described ==
    /\ \A v \in Volume : file[v] \in Device => Is(file[v], v)
    /\ \A h \in Handler : handlers[h].pc \in {"truncate", "write", "unlinked"} =>
           Is(handlers[h].device, handlers[h].volume)

Served ==
    \A v \in Volume :
        /\ staged[v] \in {"staging", "unstaging"} <=> asked[v] # Absent
        /\ asked[v] # Absent =>
               /\ handlers[asked[v]].pc \in
                      IF staged[v] = "staging"
                      THEN {"truncate", "write", "unlinked", "done"}
                      ELSE {"stat", "remove", "done"}
               /\ handlers[asked[v]].pc # "done" => handlers[asked[v]].volume = v
               /\ \A w \in Volume : asked[w] = asked[v] => w = v

NoLateUnstaging ==
    "unstaging" \notin givenUp =>
        \A h \in Orphans : handlers[h].pc \notin {"stat", "remove"}

NoLateCall ==
    givenUp = {} => \A h \in Orphans : handlers[h].pc = "idle"

NoLostWrite ==
    "unstaging" \notin givenUp =>
        \A v \in Volume : asked[v] # Absent => handlers[asked[v]].pc # "unlinked"

\* The node has staged the volume, and the answer is on its way.
Answers(v) ==
    /\ staged[v] = "staging" /\ asked[v] # Absent
    /\ handlers[asked[v]].pc = "done" /\ handlers[asked[v]].code = "OK"

Needed(v) == \E c \in Container : v \in Needs(c) /\ runcs[c].pc # "none"

Present ==
    \A v \in Volume :
        /\ Needed(v) => staged[v] \notin {"unstaged", "unstaging"}
        /\ ("unstaging" \notin givenUp
               /\ (staged[v] = "staged" \/ Answers(v) \/ Needed(v)))
           => file[v] # Absent

Whole ==
    givenUp = {} =>
        \A v \in Volume :
            staged[v] = "staged" \/ Answers(v) => file[v] \in Device

SoFar ==
    \A c \in Container :
        /\ runcs[c].pc = "none" => config[c] = <<>>
        /\ Runc!Creating(c) =>
               /\ config[c] = runcs[c].spec
               /\ runcs[c].mount <= Len(Mounts[c]) + 1
               /\ runcs[c].pc = "load" => runcs[c].mount <= Len(Mounts[c])
               /\ "unstaging" \notin givenUp =>
                      /\ runcs[c].mount = Len(runcs[c].spec) + 1
                      /\ \A i \in DOMAIN runcs[c].spec :
                             Is(runcs[c].spec[i], Mounts[c][i])

StagingInv ==
    /\ TypeOK /\ MeantIsFound /\ Described /\ Served
    /\ NoLateUnstaging /\ NoLateCall /\ NoLostWrite /\ Present /\ Whole
    /\ SoFar /\ StartedHasDevices
=============================================================================
