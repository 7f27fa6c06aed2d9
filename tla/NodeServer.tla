------------------------------ MODULE NodeServer ------------------------------
(***************************************************************************)
(* The node server of one node (pkg/cdi-driver/nodeserver.go): staging a   *)
(* volume writes the description of its device to CDI.json in the staging  *)
(* directory of the volume, unstaging removes the file.                    *)
(*                                                                         *)
(* The handlers of gRPC run concurrently, and they, the process itself and *)
(* the file system may fail between any two of their steps.  A file is     *)
(* first truncated and then written, so that it is Torn in between, and    *)
(* stays so if nobody comes to write it.  A handler whose file is removed  *)
(* before it has written goes on with a file that has no name any more     *)
(* (Linux keeps it until it is closed), and its write is lost.             *)
(***************************************************************************)
CONSTANTS
    Volume,    \* volumes, each with its own staging directory
    Device,    \* the devices of the node, each standing for its device files
    DeviceID,  \* the identifiers that discovery gives out
    Found,     \* what discovery may find: identifier |-> device
    Handler,   \* goroutines serving calls
    Torn,      \* a file that is empty or cut off
    Absent     \* no such file

VARIABLES
    devicesByDeviceID,  \* what discovery found when the process was started
    file,               \* volume |-> the device described in its CDI.json
    handlers            \* what every handler is doing

vars == <<devicesByDeviceID, file, handlers>>

HandlerState ==
    [pc : {"idle"}]
      \cup [pc : {"truncate", "write", "unlinked"},
            volume : Volume, device : Device]
      \cup [pc : {"stat", "remove"}, volume : Volume]
      \cup [pc : {"done"}, code : {"OK", "InvalidArgument", "Internal"}]

Idle == [pc |-> "idle"]

Done(code) == [pc |-> "done", code |-> code]

Init ==
    /\ devicesByDeviceID \in Found
    /\ file = [v \in Volume |-> Absent]
    /\ handlers = [h \in Handler |-> Idle]

(***************************************************************************)
(* The process ends, the calls it was serving fail, and it is started      *)
(* again: the devices are discovered anew, and the files stay as they are. *)
(***************************************************************************)
Restart ==
    /\ devicesByDeviceID' \in Found
    /\ handlers' = [h \in Handler |->
           IF handlers[h].pc \in {"idle", "done"}
           THEN handlers[h]
           ELSE Done("Internal")]
    /\ UNCHANGED file

-----------------------------------------------------------------------------
(***************************************************************************)
(* An argument is missing or the volume is a block volume, the directory   *)
(* cannot be made, or the device identifier is not known (GetDevice).      *)
(***************************************************************************)
NodeStageVolumeFails(h) ==
    /\ handlers[h].pc = "idle"
    /\ \E code \in {"InvalidArgument", "Internal"} :
           handlers' = [handlers EXCEPT ![h] = Done(code)]
    /\ UNCHANGED <<devicesByDeviceID, file>>

NodeStageVolumeFinds(h, v, id) ==
    /\ handlers[h].pc = "idle"
    /\ id \in DOMAIN devicesByDeviceID
    /\ handlers' = [handlers EXCEPT ![h] =
           [pc |-> "truncate", volume |-> v, device |-> devicesByDeviceID[id]]]
    /\ UNCHANGED <<devicesByDeviceID, file>>

NodeStageVolume(h, v, id) ==
    NodeStageVolumeFinds(h, v, id) \/ NodeStageVolumeFails(h)

\* Mutant: the old file is removed first and the new one is made by the write.
MarshallRemoves(h) ==
    /\ handlers[h].pc = "truncate"
    /\ file' = [file EXCEPT ![handlers[h].volume] = Absent]
    /\ handlers' = [handlers EXCEPT ![h].pc = "write"]
    /\ UNCHANGED devicesByDeviceID

\* Marshall: ioutil.WriteFile truncates the file, or makes it, and writes it.
MarshallTruncates(h) ==
    /\ handlers[h].pc = "truncate"
    /\ file' = [file EXCEPT ![handlers[h].volume] = Torn]
    /\ handlers' = [handlers EXCEPT ![h].pc = "write"]
    /\ UNCHANGED devicesByDeviceID

MarshallWrites(h) ==
    /\ \/ /\ handlers[h].pc = "write"
          /\ file' = [file EXCEPT ![handlers[h].volume] = handlers[h].device]
       \/ handlers[h].pc = "unlinked" /\ UNCHANGED file
    /\ handlers' = [handlers EXCEPT ![h] = Done("OK")]
    /\ UNCHANGED devicesByDeviceID

\* Mutant: the error of WriteFile is ignored.
MarshallFailsUnseen(h) ==
    /\ handlers[h].pc \in {"truncate", "write", "unlinked"}
    /\ handlers' = [handlers EXCEPT ![h] = Done("OK")]
    /\ \/ UNCHANGED file
       \/ /\ handlers[h].pc = "write"
          /\ file' = [file EXCEPT ![handlers[h].volume] = Torn]
    /\ UNCHANGED devicesByDeviceID

\* The file cannot be opened, or not be written to the end.
MarshallFails(h) ==
    /\ handlers[h].pc \in {"truncate", "write", "unlinked"}
    /\ handlers' = [handlers EXCEPT ![h] = Done("Internal")]
    /\ \/ UNCHANGED file
       \/ /\ handlers[h].pc = "write"
          /\ file' = [file EXCEPT ![handlers[h].volume] = Torn]
    /\ UNCHANGED devicesByDeviceID

-----------------------------------------------------------------------------
NodeUnstageVolume(h, v) ==
    /\ handlers[h].pc = "idle"
    /\ handlers' = [handlers EXCEPT ![h] = [pc |-> "stat", volume |-> v]]
    /\ UNCHANGED <<devicesByDeviceID, file>>

\* os.Stat, which finds nothing if it fails.
UnstageFinds(h) ==
    /\ handlers[h].pc = "stat"
    /\ \/ /\ file[handlers[h].volume] # Absent
          /\ handlers' = [handlers EXCEPT ![h].pc = "remove"]
       \/ handlers' = [handlers EXCEPT ![h] = Done("OK")]
    /\ UNCHANGED <<devicesByDeviceID, file>>

\* The handlers that have the file of the volume open.
Writers(v) ==
    {h \in Handler : handlers[h].pc = "write" /\ handlers[h].volume = v}

\* os.Remove, whose error is ignored.
UnstageRemoves(h) ==
    /\ handlers[h].pc = "remove"
    /\ \/ /\ file' = [file EXCEPT ![handlers[h].volume] = Absent]
          /\ handlers' = [g \in Handler |->
                 IF g = h THEN Done("OK")
                 ELSE IF g \in Writers(handlers[h].volume)
                      THEN [handlers[g] EXCEPT !.pc = "unlinked"]
                      ELSE handlers[g]]
       \/ /\ handlers' = [handlers EXCEPT ![h] = Done("OK")]
          /\ UNCHANGED file
    /\ UNCHANGED devicesByDeviceID

\* The answer is sent.
Return(h) ==
    /\ handlers[h].pc = "done"
    /\ handlers' = [handlers EXCEPT ![h] = Idle]
    /\ UNCHANGED <<devicesByDeviceID, file>>

HandlerSteps(h) ==
    \/ MarshallTruncates(h) \/ MarshallWrites(h) \/ MarshallFails(h)
    \/ UnstageFinds(h) \/ UnstageRemoves(h)

\* Every variable has its type.
TypeOK ==
    /\ devicesByDeviceID \in Found
    /\ file \in [Volume -> Device \cup {Torn, Absent}]
    /\ handlers \in [Handler -> HandlerState]
=============================================================================
