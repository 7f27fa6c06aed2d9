-------------------------------- MODULE CdiRunc --------------------------------
(***************************************************************************)
(* cdi-runc (cmd/cdi-runc/main.go) stands in for runc on a node.  When a   *)
(* container is created it walks the mounts of the container's config.json *)
(* and adds to it the devices described in the CDI.json of every mounted   *)
(* volume, and then turns itself into the real runc.  It ends at the first *)
(* error (log.Fatal).  Every other command goes straight to runc.          *)
(*                                                                         *)
(* The files it reads are written and removed by the node server meanwhile *)
(* (NodeServer).  Mounts that are no volumes are passed over and left out. *)
(***************************************************************************)
EXTENDS Sequences, Naturals

CONSTANTS
    Volume,     \* volumes
    Device,     \* what a CDI.json may describe
    Container,  \* containers
    Mounts,     \* container |-> the volumes it mounts, in order
    Torn,       \* a file that is empty or cut off
    Absent      \* no such file

VARIABLES
    file,    \* volume |-> the device described in its CDI.json
    runcs,   \* what the cdi-runc of every container is doing
    config   \* container |-> the devices added to its config.json

(***************************************************************************)
(* mount: the mount that is looked at.  spec: the specification in memory, *)
(* as far as devices were added.                                           *)
(***************************************************************************)
RuncState ==
    [pc : {"none", "started", "failed"}]
      \cup [pc : {"find", "load"}, mount : Nat \ {0}, spec : Seq(Device)]

At(pc) == [pc |-> pc]

Creating(c) == runcs[c].pc \in {"find", "load"}

\* The volume of the mount that is looked at.
Mounted(c) == Mounts[c][runcs[c].mount]

Init ==
    /\ runcs = [c \in Container |-> At("none")]
    /\ config = [c \in Container |-> <<>>]

-----------------------------------------------------------------------------
\* runc create, with a new bundle whose config.json is loaded.
Create(c) ==
    /\ runcs[c].pc = "none"
    /\ runcs' = [runcs EXCEPT
           ![c] = [pc |-> "find", mount |-> 1, spec |-> <<>>]]
    /\ UNCHANGED <<file, config>>

\* findCDI: there is a CDI.json, or it cannot be told.
FindsCDI(c) ==
    /\ runcs[c].pc = "find"
    /\ runcs[c].mount <= Len(Mounts[c])
    /\ runcs' = [runcs EXCEPT ![c].pc = "load"]
    /\ UNCHANGED <<file, config>>

\* findCDI: there is no CDI.json, and the mount is passed over.
FindsNoCDI(c) ==
    /\ runcs[c].pc = "find"
    /\ runcs[c].mount <= Len(Mounts[c])
    /\ file[Mounted(c)] = Absent
    /\ runcs' = [runcs EXCEPT ![c].mount = @ + 1]
    /\ UNCHANGED <<file, config>>

\* Mutant: config.json keeps the devices of the mounts before.
UpdateSpecOnce(c) ==
    /\ runcs[c].pc = "load"
    /\ file[Mounted(c)] \in Device
    /\ runcs' = [runcs EXCEPT ![c] =
           [pc |-> "find", mount |-> @.mount + 1,
            spec |-> Append(@.spec, file[Mounted(c)])]]
    /\ config' = [config EXCEPT ![c] = runcs[c].spec]
    /\ UNCHANGED file

(***************************************************************************)
(* The CDI.json is loaded, its devices are found on the host (stat), and   *)
(* config.json is written again with all devices up to this mount.         *)
(***************************************************************************)
UpdateSpec(c) ==
    /\ runcs[c].pc = "load"
    /\ file[Mounted(c)] \in Device
    /\ LET spec == Append(runcs[c].spec, file[Mounted(c)])
       IN  /\ runcs' = [runcs EXCEPT ![c] =
                  [pc |-> "find", mount |-> @.mount + 1, spec |-> spec]]
           /\ config' = [config EXCEPT ![c] = spec]
    /\ UNCHANGED file

(***************************************************************************)
(* log.Fatal: config.json or CDI.json cannot be read or decoded, a device  *)
(* is not there, config.json cannot be written, or runc is not found.      *)
(***************************************************************************)
Fatal(c) ==
    /\ Creating(c)
    /\ runcs' = [runcs EXCEPT ![c] = At("failed")]
    /\ UNCHANGED <<file, config>>

\* runOrigRunc: runc creates the container with the config.json it finds.
RunOrigRunc(c) ==
    /\ runcs[c].pc = "find"
    /\ runcs[c].mount > Len(Mounts[c])
    /\ runcs' = [runcs EXCEPT ![c] = At("started")]
    /\ UNCHANGED <<file, config>>

\* The container has ended, or was never started: its bundle is removed.
Delete(c) ==
    /\ runcs[c].pc \in {"started", "failed"}
    /\ runcs' = [runcs EXCEPT ![c] = At("none")]
    /\ config' = [config EXCEPT ![c] = <<>>]
    /\ UNCHANGED file

RuncSteps(c) ==
    \/ FindsCDI(c) \/ FindsNoCDI(c) \/ UpdateSpec(c)
    \/ Fatal(c) \/ RunOrigRunc(c)

\* Every variable has its type.
TypeOK ==
    /\ runcs \in [Container -> RuncState]
    /\ config \in [Container -> Seq(Device)]
=============================================================================
