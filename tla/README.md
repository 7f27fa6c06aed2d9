# A verification project for the CDI driver

TLA+ models of the CDI driver (a Kubernetes CSI driver that hands out GPUs and FPGA ports
as volumes), TLC configurations that check them on small instances, and TLAPS proofs of the
safety properties for every value of the constants.  Paths below are relative to `src/`.

Check one run with `tlc -config <cfg> <module>`, one proof module with `tlapm <module>.tla`.
`PROJECT.json` maps every definition to the lines it models and lists the runs, the mutants
(one plausible bug per property, which the run must find), the hazards and the theorems.

## The system

The driver is one binary with two modes.

| Part | State | Operations | Correct if |
|---|---|---|---|
| **Controller** `pkg/cdi-driver/controllerserver-master.go` | devices by node, by identifier and by volume name; the volumes charged to each device; one mutex | `CreateVolume`, `DeleteVolume`, `ListVolumes`, `GetCapacity`, `ValidateVolumeCapabilities`; the listener callbacks `OnNodeAdded`, `OnNodeDeleted` | no device is charged beyond what it has; what is remembered of a volume resolves; answers come |
| **Device matching** `pkg/device-manager/{dmanager,gpumanager,fpgamanager}.go` | none | `Match`, `checkParams` of a GPU (shares of memory and millicores) and of an FPGA (two identifiers) | OK only if there is room, NotFound only if no wait could help, ResourceExhausted only if something is in use |
| **Registry** `pkg/registryserver/registryserver.go` | node -> endpoint; a hashed lock per node, one mutex; the listeners | `RegisterController`, `UnregisterController`, `GetNodeController`, `ConnectToNodeController` | listeners know what is registered, callbacks of a node never overlap |
| **Node controller, DeviceManager** `pkg/cdi-driver/controllerserver-node.go`, `pkg/device-manager/dmanager.go` | the node's devices by identifier, each with its volumes; device by volume name; no lock | `CreateVolume` (allocate), `DeleteVolume` (deallocate), `ListVolumes`, discovery at the start | the two maps agree with each other and with the controller |
| **Driver life cycle** `pkg/cdi-driver/cdi-driver.go`, `pkg/grpc-server/server.go` | servers; the connection to the registry | `Run`, `registerNodeController`, `waitAndWatchConnection`, `register`, `unregisterNodeController` | a node that runs is registered, one that ended is not |
| **Node server** `pkg/cdi-driver/nodeserver.go` | files in staging directories | `NodeStageVolume`, `NodeUnstageVolume` | the file is there while the volume is staged |
| **cdi-runc** `cmd/cdi-runc/main.go`, `pkg/cdispec/spec.go` | a container's `config.json` | adds the devices of staged volumes and calls runc | the container gets its devices or does not start |
| identity server, default controller, `pkg/grpc`, `pkg/common`, `pkg/exec`, `pkg/registry` (generated) | none | constant answers, TLS, dialling, logging | - |

How they interact:

1. A node driver starts its server, discovers its devices and calls `RegisterController` of
   the registry, in the controller's process, again and again until it succeeds.
2. The registry records the endpoint and calls `OnNodeAdded` of the controller, which dials
   the node back, asks for its devices with `ListVolumes` and takes the mutex to replace what
   it knew of the node.
3. The container orchestrator calls `CreateVolume` of the controller: under the mutex it
   searches a matching device, dials its node and calls `CreateVolume` there with the
   identifier of the device, and only after the answer it charges the device.
   `DeleteVolume` forgets the volume first and then calls the node.
4. The node watches its connection to the registry and registers again after a loss,
   because nothing is persisted on either side.  On a signal it unregisters, lets its servers
   drain and ends.
5. The kubelet calls `NodeStageVolume` of the node server, which writes the description of the
   device to `CDI.json` in the volume's staging directory; when a container is created, cdi-runc
   reads the `CDI.json` of every mounted volume and adds the devices to the container.  The two
   programs share nothing but these files.

What is hard: the calls between the processes, each of which may fail, pass its deadline with
the work at the other end still going on, or find the other end restarted; one goroutine per
call on both sides, with one lock in the controller held over node calls and none in the node;
registry locks held over callbacks that wait for that mutex; files that are truncated,
rewritten and removed under their reader; identifiers that change their
meaning over a restart; arithmetic on amounts that users write.  `PROJECT.json` lists each
hazard at its line with the properties that are about it.

## The modules

```
DeviceMatch            matching of devices, pure operators
  DeviceLedger         abstract: a volume is charged in one atomic step
  MasterController     the controller, one action per step  -- implements --> DeviceLedger
    CDI                controller + registry + nodes         -- implements --> MasterController
      DeviceManager    (INSTANCE) the maps and handlers of the nodes
    VolumeListing      ListVolumes and ValidateVolumeCapabilities while the controller goes on
NodeRegistry           abstract: one change of a node at a time, told to each listener once
  RegistryServer       registrations, locks and callbacks   -- implements --> NodeRegistry
    Capacity           GetCapacity over the registered nodes, while they come and go
Staging                node server + cdi-runc + kubelet, which share files
  NodeServer, CdiRunc  (INSTANCE) the two programs, each with its own steps
NodeDriver             life cycle of one node driver and its connection to the registry
```

`MC*` modules give TLC its constants; `*Proofs` modules hold the theorems.  A definition that
starts its comment with "Mutant:" is no part of the model: it is what the definition after it
would be with a bug.

### DeviceMatch

`Match(device, volumes, params)` answers `OK`, `ResourceExhausted`, `NotFound` or
`InvalidArgument` as `DeviceInfo.Match` does.  Parameters are a function from the six
parameter names to a value or `Absent`.  Amounts are integers, texts that are no quantity
(`ParsesAsQuantity` is false), or `Unrepresentable`, a quantity beyond an int64, for which
`AsInt64` returns 0 and the code ignores that it failed.  Volumes of a device are a function
from volumes to the parameters they were created with.  Quantities of the sum fit an int64
because every term was admitted against the device's int64 amount (`LedgerCapacity`).

### DeviceLedger

What the controller promises: `Charge` a volume to a device that matches at that moment,
`Release`, `Discover` new devices, `Reset` (a restart).

### MasterController

`devices[a]` is the `DeviceInfo` at address `a`; an address is a device identifier with the
number of the report that allocated it, so that old and new `DeviceInfo`s of one device are
different objects, as they are in Go.  The three maps hold addresses.  Each caller is a
goroutine serving a CSI call:

| Action | Code |
|---|---|
| `CreateVolume` | the call arrives and waits for the mutex |
| `CreateVolumeFinds`, `CreateVolumeFindsNothing` | takes the mutex, `findDevice`: the first node of the topology request that matches, or any, in the random order of a Go map |
| `CreateVolumeSucceeds`, `CreateVolumeFails` | the node has answered, or could not be reached: charge and unlock, or unlock |
| `DeleteVolume` | reads `devicesByVolumeName` **before** the lock |
| `DeleteVolumeForgets` | takes the mutex, deletes from the maps, looks for the node |
| `DeleteVolumeReturns` | the node has answered or failed; unlock |
| `OnNodeAdded`, `OnNodeAddedUpdate` | the node's `ListVolumes` has answered; under the mutex its devices are replaced |
| `OnNodeDeleted` | without the mutex; leaves `devicesByIDs` |
| `Restart` | the process ends and starts empty |

The nodes are left open: any report, any failure at any time.  Callbacks about one node do not
overlap; that this may be assumed is `CallbacksExclude` of `RegistryServer`.

### NodeRegistry

What the registry promises, without its RPCs and locks: a node has at most one change under way
(`change[n]`, with the listeners yet to call).  `Register` and `Unregister` record the change and
begin it, `Tell` and `Forget` call one listener, `Refuse` and `Undo` are a callback that fails,
`Settle` ends the change, `Reset` is a restart.

### RegistryServer

Each RPC is a goroutine that takes the hashed lock of its node (`BucketOf`, several nodes may
share one), updates `nodeClients`, and calls the listeners in any order; `OnNodeAdded` may fail,
which removes the node and tells no listener.  `known` is what each listener was told.
It implements `NodeRegistry` with `changes`: the change of a node is that of the RPC at work on it.

### VolumeListing

`VolumeListing` extends `MasterController` with clients that follow the tokens of `ListVolumes`.
`walk` is what a client was given so far; nothing of it is state of the controller.  Each page
takes the mutex, copies `devicesByVolumeName` in any order (`Orders`, the order of a Go map) and
cuts the page out of it (`Page`); a token behind the end is refused (`ListVolumesAborts`).  A walk
is `quiet` while no volume is created, deleted or moved: it is then never aborted (`QuietGoesOn`),
but may miss volumes all the same (`QuietListingShowsAll`, a violation).
`ValidateVolumeCapabilities` looks an identifier up in `devicesByIDs`, the calls search
`devicesByNodes`; the deletion of a node sets the two apart, and `OnlyDeletionLeavesIDs` says that
nothing else does.

### Capacity

`GetCapacity` copies the registered nodes under the registry's mutex (`NodeClients`), and then
looks each one up again and asks it: `Connects`, `ConnectsInVain` (unregistered since), `Fails`,
`Answers`.  The sum passes over nodes that fail; with a topology, one node that fails is an error
(`Without`).  Every node answers the constant 100 (`controllerserver-node.go:154`).  `since`,
`steady` and `failed` of a query are history.

### DeviceManager and CDI

`DeviceManager` keeps the two maps of every node and its handlers, split before every access
to a map because nothing locks them.  Discovery numbers the devices of both types in either
order at every start.

`CDI` composes it with `MasterController`.  The controller's open steps are tied to the node:
`Asks` sends the call to a handler, `Answered` is the only way to succeed, `AsksInVain` (the
node is not registered or not reachable) and `GivesUp` (the deadline passes, the connection
breaks) are the ways to fail; after `GivesUp` the handler is an orphan and runs on.  `Registers`
makes the node's real devices the report, also when the node's watcher registers it again after it
has unregistered.  A registration of a node that is registered already calls the listener only if
the endpoint changed, which takes another process of the node; `RegistrationFails` is such a
registration whose callback fails, which takes the node out of the registry.
`NodeRestarts` and `ControllerRestarts` lose the state of that side only.  `givenUp` and `ended`
are history variables for the properties.

The order registry lock - callbacks is not repeated here: a registration that succeeds is
`Registers` and then `ReportTaken`, during which calls and restarts interleave.

### NodeDriver

`main` is `Run`, `watcher` is `waitAndWatchConnection`; both run the loop of `register`.  `servers`
are the one or two gRPC servers of the node: the one for the controller is started before the
node registers, the one for the kubelet after it, if it has an endpoint of its own (`split`).
`calls` says on which servers a call runs.  `Stops` and `Stopped` are `GracefulStop`, of one server
after the other; `Ends` is the deferred `ForceStop`, which finds nothing to cut off unless
unregistering failed.  All
connectivity states but Ready are one state, "Lost".  `WaitForStateChange` is modelled as grpc
1.27 does it (the version in `go.mod`): it compares the state with the one given, returns at
once if they differ, and else waits for the next change, whatever it is.  A request on a
connection that breaks fails for its caller and may still be served (`late`).  `Start` may fail
to listen and reports no error (`server.go:43`).

### NodeServer, CdiRunc and Staging

| Action | Code |
|---|---|
| `NodeStageVolumeFinds`, `NodeStageVolumeFails` | the arguments, the directory, `GetDevice` |
| `MarshallTruncates`, `MarshallWrites`, `MarshallFails` | `ioutil.WriteFile` in its two halves; a file in between is `Torn` and stays so if the node ends there |
| `UnstageFinds`, `UnstageRemoves` | `os.Stat`, `os.Remove`; both errors are ignored.  Handlers that have the file open (`Writers`) are `unlinked`: what they write is in no directory |
| `Restart` | the process ends; files stay, and discovery may number the devices anew |
| `Create`, `Fatal`, `RunOrigRunc`, `Delete` | cdi-runc begins, dies with `log.Fatal`, turns into runc; runc removes the container |
| `FindsCDI`, `FindsNoCDI` | `findCDI`, which takes every error but "does not exist" for a file |
| `UpdateSpec` | `CDI.json` is decoded and `config.json` written again with the devices so far |

A device stands for its device files, of which it has at least one; a volume has one directory.
`Staging` adds what is not in this repository, the kubelet (external in the map): one operation
per volume at a time, volumes staged before each container, unstaged only when no container
mounts them, and calls given up while their handler runs on (`KubeletGivesUp`).  `meant` is the
device that a volume's identifier meant when the volume was made; a restart makes that unknown,
because identifiers may then mean other devices, which is the subject of `allocated_satisfies`.

## The runs

| Run | Instance | Shows |
|---|---|---|
| `master_cluster` | 2 nodes of at most 1 device, a GPU with 2 units or an FPGA port; 2 volumes, 2 callers, 3 kinds of requests, 1 report per node between restarts | `CapacityRespected`, `ChoiceStillFits`, `NamesResolve`, `DeletedStaysDeleted`, `ExhaustedMeansCharged`, `NotFoundMeansNoneFits`, refinement `ImplementsLedger` |
| `master_reports` | 1 node reported twice, 2 volumes, 2 callers, 1 client that lists, pages of 1 or of everything | the inductive invariants `MasterInv` and `ListingInv`, action property `OnlyDeletionLeavesIDs`, liveness `EveryCallReturns`, `EveryReportIsTaken`, `EveryListingEnds` |
| `ledger` | 2 devices, 3 volumes, requests with amounts of every kind | `LedgerCapacity`, `ExhaustedMeansInUse`, `ReleaseNeverHurts` |
| `registry` | 2 nodes that share a lock, 2 endpoints, 2 listeners, 2 RPCs | `RegistryInv`, `CallbacksExclude`, `ListenersKnowRegistered`, `OnlyFailuresLeaveBehind`, refinement `ImplementsNodeRegistry`, liveness `EveryRpcReturns` |
| `capacity` | 2 nodes that share a lock, 1 endpoint, 1 listener, 2 RPCs, 1 query | `CapacityCounts` |
| `cdi` | 1 node with a GPU and an FPGA port, 1 volume, 2 callers, 2 handlers, requests for either device | the inductive invariant `CDIInv`, `NodeTablesAgree`, `ChargedIsAllocated`, `AllocatedFits` while a volume moves between devices |
| `driver` | 1 node with 1 or 2 servers, 3 faults | `DriverInv`, `EndedIsGone`, `CallsComplete`, `AlarmStays`, liveness `StartRegisters`, `LossesHeal`, `SignalEnds` |
| `staging` | a container that mounts 2 volumes, 2 devices in either order or one of them missing, 2 handlers | the inductive invariant `StagingInv`, `StartedHasDevices`, `StagedIsWhole` |

Why the bounds are enough: two callers are what it takes for one to change what the other has
read; two units of a GPU let two small requests share it and a large one fill it; three
volumes in `ledger` make a sum of two plus a request; two reports make an old and a new
`DeviceInfo` of one device; two handlers let an orphan meet its successor; three faults are a
loss that is noticed and two more while it is dealt with; two volumes and pages of one give
tokens that go stale, and the one node with room for one volume makes the second volume belong to
a later report; a container with two mounts has a first device that is added and a second that is
missing or fails; two RPCs can unregister and register again the node that a query is about to
ask.  `cdi` is cut by one constraint, `MCUndisturbed`: once a call was given up, no node is told to
end, nor ends.  Orphans with restarts of the controller, and restarts of nodes without orphans, are
both explored; three of the four properties speak until a call is given up only, or except nodes that
ended.  Every property of these
runs except the liveness ones is also proved, without bounds.  Volumes, callers and
handlers are symmetric in the runs without liveness.

Four runs show where the code does not do what its own comments say, each with a trace:

| Run | The comment | What the code does |
|---|---|---|
| `repeated_create` | `controllerserver-default.go:45` "This operation MUST be idempotent." | `CreateVolume` never looks the name up; a repetition may charge a second device |
| `quiet_listing` | `controllerserver-default.go:102` "SHALL return the information about all the volumes that it knows about", except "If volumes are created and/or deleted" meanwhile | every page is cut out of another random order of a Go map: one device may be shown twice and another never, although nothing changed |
| `allocated_satisfies` | `controllerserver-master.go:211` "finds node with a device satisfying requested parameters and informs node controller about device allocation" | a restarted node numbers its devices anew, and allocates whatever the old identifier means now |
| `missed_reconnect` | `cdi-driver.go:310` "whenever the connection state changed from lost to ready, it re-register" | a loss and reconnection between `GetState` and `WaitForStateChange` goes unnoticed |

More were met while modelling and have no run of their own, see the notes of the hazards:

* a node that is reported again appears with unused devices while its volumes are still
  allocated ("Volumes are set when device is allocated", `dmanager.go:38`);
* a registration that fails removes a node that was known and tells no listener ("All the
  callbacks are called once after updating the in-memory registry data", `registryserver.go:20`);
  `OnlyFailuresLeaveBehind` says that nothing else leaves a listener behind;
* identifiers of a deleted node stay in `devicesByIDs`, the gap of the TODO at
  `controllerserver-master.go:120`; `OnlyDeletionLeavesIDs` says that nothing else opens it;
* `DeleteVolume` reads before it locks and may leave a device charged; an FPGA port is given to any
  number of volumes; a node that fails to delete a volume keeps it for ever;
* a GPU that has one amount in use and never had the other answers ResourceExhausted
  (`gpumanager.go:62`), and the caller waits in vain;
* `Start` swallows its error, so that the driver does not end when it cannot listen
  (`cdi-driver.go:259`); unregistering that fails cuts running calls off (`cdi-driver.go:247`);
* `ListVolumes` shows the identifiers of devices where `CreateVolume` answers names, so that
  `ValidateVolumeCapabilities`, which looks identifiers up, does not find a volume by the name it
  was created with;
* a `NodeUnstageVolume` that was given up may remove the file of a volume that was staged again,
  and the container then starts without the device, because cdi-runc takes a missing file for a
  mount that is no CDI volume.

## Fairness

Safety is checked and proved without fairness.  For liveness:

* `MasterController`: the steps of a call and the taking over of a report are fair.  Taking the
  mutex is strongly fair, because `sync.Mutex` hands itself to a goroutine that has waited for a
  millisecond.  A node call ends because CSI calls carry the deadline of the orchestrator.  That
  calls arrive or succeed is not assumed.
* `RegistryServer`: taking the hashed lock is strongly fair for the same reason.  A callback
  ends when the node answers or its connection is found dead (TCP keep-alive of the operating
  system; the gRPC keep-alive in `grpc.go` sets no interval and is never sent).
* `VolumeListing`: in addition a client that was given a token uses it, and the mutex lets it in
  as it does the others.  The listing ends because there are finitely many volumes and every
  page but the last moves the token on.
* `NodeDriver`: its goroutines run, gRPC dials until it is connected, and a running call returns,
  with its deadline at the latest; calls that arrive are never forced.  The registry serves a request
  whose caller waits (`WF(Serves)`).  This one is an assumption about the other process and not
  about this code: `register` and `unregisterNodeController` set no deadline, and a registry that
  accepts a request and never answers it holds the node driver up for as long, its shutdown
  included.  `StartRegisters` speaks of a node whose server listens.  Faults are bounded, and no
  signal or late request is forced.

`EveryCallReturns` and the like say that locks are released on every path and no two parts
wait for each other, not how long it takes.

## What is proved

Assumptions are those named `...Assumption` in the modules: sentinels differ from values,
bounds are naturals, requests are well typed.  The numbers of nodes, devices, volumes,
callers, clients, handlers, containers, RPCs, locks, listeners and faults are arbitrary, and so
are the sizes of pages.

* **DeviceMatchProofs**: lemmas about amounts and about `Match`: the total of a device grows by at
  most one volume's units when that volume is charged, and does not grow when one is released; OK
  keeps it within capacity.  The total is a fold over the volumes.  The proofs, not the model,
  count it as the units in a finite set (`TotalCountsUnits`), which the library's facts about
  cardinalities speak about.  The induction this needs is an argument by a smallest counterexample,
  without an operator as a parameter: a fold is the one function that satisfies the equation of a sum
  (`FoldIsSum`), because a smallest set on which two differ cannot be (`SumIsUnique`).
  `UnusedMatchMeansRoom`: a device that would match without volumes answers OK or
  ResourceExhausted with any.
* **DeviceLedgerProofs**: `LedgerTyping`, `LedgerCapacityHolds`,
  `ExhaustedMeansInUseHolds`, `ReleaseNeverHurtsHolds`.
* **MasterControllerProofs**: `MasterInvariant` proves `MasterInv`.  Its parts beyond the
  properties are what makes them inductive: `MutexHeld` (the mutex belongs to the call that waits
  for a node: without it a second call could charge the device in between), `MemoryUnused` and
  `ReportPending` (addresses of later reports are unused, so that a report never overwrites a
  device that is charged).  `CapacityHolds`, `ChoiceHolds`, `NamesHold`, `IDsHold`,
  `DeletedHolds` and `ExhaustedHolds` follow.  `NotFoundHolds` is about the search: it overlooks
  nothing (`FoundNothing`; of the nodes with a match, one is the first of the request), so a device
  that would match when unused answered ResourceExhausted, which the answer then is.
  `LedgerImplemented` maps each step to a step of
  `DeviceLedger` or a stutter; the crucial one is `CreateVolumeSucceeds`, a `Charge` because of
  `ChoiceStillFits`.
* **CDIProofs**: `MasterImplemented` shows that every step of the composition is a step of the
  controller or leaves it alone, so everything above holds there.  `CDIInvariant` adds `Serving` (a
  caller is served by the handler that works on its very request), `NoOrphans` (until a call is
  given up nobody else is at work: this is how the controller's mutex protects the node's maps,
  which have no lock), `Created` and `Charged` (how far the node is ahead of the controller while a
  call is under way), `ListingIsThere` and `KnownIsThere` (what the controller ever learned of a
  node, under any report, is what the node has until its process ends).
  `ChargedIsAllocatedHolds`, `ListedIsThereHolds` and `NodeTablesAgreeHolds` follow.
  `AllocatedFitsHolds` needs `KnownIsThere` and not only `ListedIsThere`, because a call may be at
  work on a device of an earlier report, and `ChoiceStillFits` of the controller.
  `LedgerImplementedByAll` composes the two refinements.
* **RegistryServerProofs**: `RegistryInvariant` with `LocksHeld`, `ToldSoFar` and `LocksReleased`
  (every mutex that is locked is held by an RPC at work, which waits for no other); from it
  `CallbacksExcludeHolds`, `CallbackSeesUpdateHolds`, `ListenersKnowHolds`.
  `OnlyFailuresLeaveBehindHolds` goes through the actions: a listener that knows what is registered,
  or is about to be told (`StaysInformed`), is left behind by no other step.
  `NodeRegistryImplemented`: by `LocksExclude` the change of a node is that of the one RPC at work
  on it (`OneChangeOfEach`), a step of an RPC changes its own node (`WorkerChanges`) and no other
  (`OthersKeep`), and each action is then one of `NodeRegistry`; `QueriesImplementRegistry` carries
  this over to `Capacity`.  `CapacityInvariant` is about the queries that run beside the
  registry: the sum of a query is what some set of the nodes it is done with amounts to (`Answered`), which lets nodes fail, come and go without the
  proof naming those that answered; `CapacityCountsHolds` follows.  `Node` is any finite set.
* **NodeDriverProofs**: `DriverInvariant` with `Undisturbed` (until a fault the connection stays as
  the registration found it and the watcher asks for nothing), `NotYetServing` and
  `StoppedRunNothing` (a call runs on a server that serves or drains, and no server is started
  twice); `EndedIsGoneHolds` and `CallsCompleteHolds` follow.  `WatcherRelies` (what an answer to
  the watcher means, when an unregistration may still be served, and that no change escapes a
  watcher that waits) gives `AlarmStaysHolds`, the safety half of `LossesHeal`.
* **VolumeListingProofs**: `ListingInvariant`, on top of `MasterInvariant`.  `TokenCounts` (a token
  is the number of entries seen) carries the walk from page to page although every page has an
  order of its own, and with it `QuietGoesOn`.  `OnlyDeletionLeavesIDsHolds` follows from
  `IDsAgree`: what a report adds to `devicesByIDs` it adds to `devicesByNodes`, and what it takes away
  there it takes away here.
* **StagingProofs**: `StagingInvariant`.  `Served` (the handler that the kubelet waits for works on
  that very volume), `NoLateUnstaging` and `NoLateCall` (nobody else is at work until a call is
  given up), `NoLostWrite` (nobody waits for a handler whose file was removed), `Present` and
  `Whole` (which files are there), `SoFar` (what cdi-runc has added up to the mount it looks at).  A lemma per program says what one of its steps may do to the file of a
  volume, and the invariant's steps rest on these only.  `StartedHasDevicesHolds` and
  `StagedIsWholeHolds` follow.

Only model-checked: all liveness, because the prover has no fairness or ENABLED.  The limits of
`ChargedIsAllocated` and `NodeTablesAgree` (no call given up), of `EndedIsGone` and
`CallsComplete` (no fault) and of `StartedHasDevices` and `StagedIsWhole` (no unstaging, no call
given up) are real: beyond them the code does break what they say, as the hazards note.

## What is not modelled

* Data races as such.  `OnNodeDeleted`, the first read of `DeleteVolume` and the node's maps are
  accessed without locks; each access is atomic here, while the Go runtime may abort the process
  on a concurrent map access, which `Restart` covers.
* `Size` and `CapacityBytes`, which decide nothing.
* `RegisterController`'s InvalidArgument answers: `getDriver` accepts no configuration that
  leads to them.  (Those of `CreateVolume`, `DeleteVolume` and `ValidateVolumeCapabilities` are
  modelled; they change no state.)
* `ListVolumes` with a token that no page gave out, or a negative `MaxEntries`: the conversion to
  int32 at line 397 then makes a negative index.  Tokens are those of the controller, and below
  2^31 there is no difference to integers.
* Mounts that are no CDI volumes, and a device without device files, which cdi-runc passes over; a
  container that mounts one volume twice gets its devices twice.
* `Run` of the controller driver, which starts two servers and stops them; `getDriver`.
* The registry inside `CDI` as `RegistryServer` has it: `CDI` takes a registration as one
  callback, which `CallbacksExclude` and `CallbackSeesUpdate` justify; the two are not composed,
  because the product is beyond TLC at the bounds at which either is interesting.
* File and sysfs access, TLS, dialling, flags, logging, YAML; the identity server and the default
  controller, whose answers are constant.

## Possible extensions

An abstract specification of staging (a volume is staged or it is not, a container has its devices
or does not start) that `Staging` implements until a call is given up.
