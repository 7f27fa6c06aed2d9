------------------------------ MODULE NodeDriver ------------------------------
(***************************************************************************)
(* The life of a node driver (pkg/cdi-driver/cdi-driver.go) and its gRPC   *)
(* servers (pkg/grpc-server): it starts to serve, registers with the       *)
(* registry, watches the connection, registers again when it was lost,     *)
(* and unregisters and stops its servers when it is told to end.  The      *)
(* registry keeps nothing over a restart of the controller.                *)
(*                                                                         *)
(* register returns early for the code InvalidArgument only, which the     *)
(* registry answers to requests without a node or an endpoint; getDriver   *)
(* accepts no such configuration, so that the branch is not modelled.      *)
(* A signal before Run catches them, or a crash, is NodeRestarts of CDI.   *)
(***************************************************************************)
EXTENDS Naturals

CONSTANT MaxFaults  \* bound: connections broken, restarts, failed callbacks

ASSUME FaultsAssumption == MaxFaults \in Nat

VARIABLES
    split,           \* the node server has an endpoint of its own
    servers,         \* what became of each gRPC server
    calls,           \* the servers that a call runs on
    cut,             \* history: a running call was cut off
    conn,            \* the connection to the registry: "Ready", or any other
                     \* connectivity state, "Lost"
    pc,              \* where Run and waitAndWatchConnection are
    request,         \* the RPC of either: not there, sent, or answered
    late,            \* the RPCs whose caller has gone and that are yet to run
    registered,      \* the node is in the registry
    seen,            \* s of waitAndWatchConnection
    connectionLost,  \* of waitAndWatchConnection
    changed,         \* conn has changed since WaitForStateChange waits
    faults           \* what went wrong so far

serving == <<split, servers, calls, cut>>

vars == <<serving, conn, pc, request, late, registered, seen, connectionLost,
          changed, faults>>

watch == <<seen, connectionLost>>

\* Without an endpoint of its own, the node server is part of the other one.
Server == {"controller", "node"}

Process == {"main", "watcher"}

MainPc == {"start", "register", "asked", "running", "unregister", "leaving",
           "stopping", "ended"}

WatcherPc == {"off", "look", "register", "asked", "wait", "waiting"}

-----------------------------------------------------------------------------
Init ==
    /\ split \in BOOLEAN
    /\ servers = [s \in Server |-> "none"]
    /\ calls = {} /\ cut = FALSE
    /\ conn = "Lost"
    /\ pc = [main |-> "start", watcher |-> "off"]
    /\ request = [p \in Process |-> "none"]
    /\ late = {}
    /\ registered = FALSE
    /\ seen = "Lost" /\ connectionLost = FALSE /\ changed = FALSE
    /\ faults = 0

\* Whether the node can be called back for its devices.
Listens == servers.controller = "serving"

\* Start of a server returns no error when it cannot listen.
Starts(s) ==
    \E outcome \in {"serving", "none"} :
        servers' = [servers EXCEPT ![s] = outcome]

Start ==
    /\ pc.main = "start"
    /\ Starts("controller")
    /\ pc' = [pc EXCEPT !.main = "register"]
    /\ UNCHANGED <<split, calls, cut, conn, request, late, registered, watch,
                   changed, faults>>

-----------------------------------------------------------------------------
(***************************************************************************)
(* The loop of register, run by Run first and by the watcher later.  An    *)
(* RPC on a connection that is not ready fails, or waits for it.           *)
(***************************************************************************)
Registers(p) ==
    /\ pc[p] = "register"
    /\ conn = "Ready"
    /\ pc' = [pc EXCEPT ![p] = "asked"]
    /\ request' = [request EXCEPT ![p] = "sent"]
    /\ UNCHANGED <<serving, conn, late, registered, watch, changed, faults>>

\* Run starts the watcher, and only now the server of the node server; the
\* watcher goes on to wait.
Registered(p) ==
    /\ pc[p] = "asked"
    /\ request[p] = "OK"
    /\ pc' = IF p = "main"
             THEN [main |-> "running", watcher |-> "look"]
             ELSE [pc EXCEPT !.watcher = "wait"]
    /\ request' = [request EXCEPT ![p] = "none"]
    /\ IF p = "main" /\ split THEN Starts("node") ELSE UNCHANGED servers
    /\ UNCHANGED <<split, calls, cut, conn, late, registered, watch, changed,
                   faults>>

\* Mutant: an error ends the loop, as InvalidArgument does.
RegisterReturns(p) ==
    /\ pc[p] = "asked"
    /\ request[p] = "error"
    /\ pc' = [pc EXCEPT ![p] = IF p = "main" THEN "ended" ELSE "wait"]
    /\ request' = [request EXCEPT ![p] = "none"]
    /\ UNCHANGED <<serving, conn, late, registered, watch, changed, faults>>

\* An error: again, after a while.
RegisterRetries(p) ==
    /\ pc[p] = "asked"
    /\ request[p] = "error"
    /\ pc' = [pc EXCEPT ![p] = "register"]
    /\ request' = [request EXCEPT ![p] = "none"]
    /\ UNCHANGED <<serving, conn, late, registered, watch, changed, faults>>

-----------------------------------------------------------------------------
\* Mutant: whoever finds the connection ready registers.
LooksAndRegisters ==
    /\ pc.watcher = "look"
    /\ seen' = conn
    /\ connectionLost' = (connectionLost \/ conn # "Ready")
    /\ pc' = [pc EXCEPT
           !.watcher = IF conn = "Ready" THEN "register" ELSE "wait"]
    /\ UNCHANGED <<serving, conn, request, late, registered, changed, faults>>

\* Mutant: connectionLost is declared inside the loop.
LooksForgets ==
    /\ pc.watcher = "look"
    /\ seen' = conn
    /\ connectionLost' = (conn # "Ready")
    /\ pc' = [pc EXCEPT !.watcher = "wait"]
    /\ UNCHANGED <<serving, conn, request, late, registered, changed, faults>>

\* GetState, and what follows from it.  connectionLost is never reset.
Looks ==
    /\ pc.watcher = "look"
    /\ seen' = conn
    /\ connectionLost' = (connectionLost \/ conn # "Ready")
    /\ pc' = [pc EXCEPT
           !.watcher = IF conn = "Ready" /\ connectionLost
                       THEN "register" ELSE "wait"]
    /\ UNCHANGED <<serving, conn, request, late, registered, changed, faults>>

(***************************************************************************)
(* WaitForStateChange compares the state with s, and returns at once or    *)
(* waits for the next change, whatever it is.  A change from one state     *)
(* that is not ready to another wakes it too, and changes nothing.         *)
(***************************************************************************)
Waits ==
    /\ pc.watcher = "wait"
    /\ pc' = [pc EXCEPT !.watcher = IF conn = seen THEN "waiting" ELSE "look"]
    /\ changed' = FALSE
    /\ UNCHANGED <<serving, conn, request, late, registered, watch, faults>>

Wakes ==
    /\ pc.watcher = "waiting"
    /\ changed
    /\ pc' = [pc EXCEPT !.watcher = "look"]
    /\ UNCHANGED <<serving, conn, request, late, registered, watch, changed,
                   faults>>

-----------------------------------------------------------------------------
\* A signal is caught.
Signalled ==
    /\ pc.main = "running"
    /\ pc' = [pc EXCEPT !.main = "unregister"]
    /\ UNCHANGED <<serving, conn, request, late, registered, watch, changed,
                   faults>>

\* On a connection of its own; the watcher runs on.
Unregisters ==
    /\ pc.main = "unregister"
    /\ pc' = [pc EXCEPT !.main = "leaving"]
    /\ request' = [request EXCEPT !.main = "sent"]
    /\ UNCHANGED <<serving, conn, late, registered, watch, changed, faults>>

Unregistered ==
    /\ pc.main = "leaving"
    /\ request.main = "OK"
    /\ pc' = [pc EXCEPT !.main = "stopping"]
    /\ request' = [request EXCEPT !.main = "none"]
    /\ UNCHANGED <<serving, conn, late, registered, watch, changed, faults>>

(***************************************************************************)
(* A call of the controller or of the kubelet runs on a server.            *)
(***************************************************************************)
CallArrives(s) ==
    /\ servers[s] = "serving"
    /\ calls' = calls \cup {s}
    /\ UNCHANGED <<split, servers, cut, conn, pc, request, late, registered,
                   watch, changed, faults>>

CallReturns(s) ==
    /\ s \in calls
    /\ calls' = calls \ {s}
    /\ UNCHANGED <<split, servers, cut, conn, pc, request, late, registered,
                   watch, changed, faults>>

\* Mutant: only the first server is stopped.
StopsFirst(s) ==
    /\ pc.main = "stopping"
    /\ s = "controller"
    /\ servers[s] = "serving"
    /\ servers' = [servers EXCEPT ![s] = "draining"]
    /\ UNCHANGED <<split, calls, cut, conn, pc, request, late, registered,
                   watch, changed, faults>>

\* GracefulStop of one server after the other: it takes no more calls, and
\* waits for those that run while the next server still takes some.
Stops(s) ==
    /\ pc.main = "stopping"
    /\ servers[s] = "serving"
    /\ s = "node" => servers["controller"] \in {"none", "stopped"}
    /\ servers' = [servers EXCEPT ![s] = "draining"]
    /\ UNCHANGED <<split, calls, cut, conn, pc, request, late, registered,
                   watch, changed, faults>>

Stopped(s) ==
    /\ servers[s] = "draining"
    /\ s \notin calls
    /\ servers' = [servers EXCEPT ![s] = "stopped"]
    /\ UNCHANGED <<split, calls, cut, conn, pc, request, late, registered,
                   watch, changed, faults>>

\* Mutant: Run does not wait for the servers to stop.
EndsAtOnce ==
    /\ \/ pc.main = "stopping"
       \/ pc.main = "leaving" /\ request.main = "error"
    /\ pc' = [main |-> "ended", watcher |-> "off"]
    /\ request' = [p \in Process |-> "none"]
    /\ late' = late \cup (IF request.watcher = "sent" THEN {"register"} ELSE {})
    /\ servers' = [s \in Server |-> "stopped"]
    /\ calls' = {} /\ cut' = (cut \/ calls # {})
    /\ UNCHANGED <<split, conn, registered, watch, changed, faults>>

(***************************************************************************)
(* The process ends, and the watcher with it: after the servers have       *)
(* stopped, or, with ForceStop, because unregistering failed.              *)
(***************************************************************************)
Ends ==
    /\ \/ /\ pc.main = "stopping"
          /\ \A s \in Server : servers[s] \in {"none", "stopped"}
       \/ pc.main = "leaving" /\ request.main = "error"
    /\ pc' = [main |-> "ended", watcher |-> "off"]
    /\ request' = [p \in Process |-> "none"]
    /\ late' = late \cup (IF request.watcher = "sent" THEN {"register"} ELSE {})
    /\ servers' = [s \in Server |-> "stopped"]
    /\ calls' = {} /\ cut' = (cut \/ calls # {})
    /\ UNCHANGED <<split, conn, registered, watch, changed, faults>>

-----------------------------------------------------------------------------
(***************************************************************************)
(* The registry serves a request.  It registers a node that it knows       *)
(* already without a question, and calls a new one back for its devices,   *)
(* which fails if the node does not listen.                                *)
(***************************************************************************)
Serves(p) ==
    /\ request[p] = "sent"
    /\ \/ /\ pc[p] = "asked" /\ (registered \/ Listens)
          /\ registered' = TRUE
          /\ request' = [request EXCEPT ![p] = "OK"]
       \/ /\ pc[p] = "asked" /\ ~(registered \/ Listens)
          /\ request' = [request EXCEPT ![p] = "error"]
          /\ UNCHANGED registered
       \/ /\ pc[p] = "leaving"
          /\ registered' = FALSE
          /\ request' = [request EXCEPT ![p] = "OK"]
    /\ UNCHANGED <<serving, conn, pc, late, watch, changed, faults>>

ServesLate ==
    /\ \/ /\ "register" \in late /\ (Listens \/ registered)
          /\ registered' = TRUE /\ late' = late \ {"register"}
       \/ /\ "register" \in late
          /\ late' = late \ {"register"} /\ UNCHANGED registered
       \/ /\ "unregister" \in late
          /\ registered' = FALSE /\ late' = late \ {"unregister"}
    /\ UNCHANGED <<serving, conn, pc, request, watch, changed, faults>>

Reconnects ==
    /\ conn = "Lost" /\ pc.main # "ended"
    /\ conn' = "Ready"
    /\ changed' = TRUE
    /\ UNCHANGED <<serving, pc, request, late, registered, watch, faults>>

-----------------------------------------------------------------------------
\* The callback to a node that is not registered yet fails.
CallbackFails(p) ==
    /\ faults < MaxFaults
    /\ pc[p] = "asked" /\ request[p] = "sent" /\ ~registered
    /\ request' = [request EXCEPT ![p] = "error"]
    /\ faults' = faults + 1
    /\ UNCHANGED <<serving, conn, pc, late, registered, watch, changed>>

\* The RPCs on the connection fail; one that was sent may still be served.
ConnBreaks ==
    /\ faults < MaxFaults
    /\ conn = "Ready" /\ pc.main # "ended"
    /\ conn' = "Lost"
    /\ changed' = TRUE
    /\ request' = [p \in Process |->
           IF pc[p] = "asked" THEN "error" ELSE request[p]]
    /\ late' = late \cup
           (IF \E p \in Process : pc[p] = "asked" /\ request[p] = "sent"
            THEN {"register"} ELSE {})
    /\ faults' = faults + 1
    /\ UNCHANGED <<serving, pc, registered, watch>>

\* The connection made to unregister breaks, or cannot be made.
UnregisterFails ==
    /\ faults < MaxFaults
    /\ pc.main = "leaving" /\ request.main # "error"
    /\ request' = [request EXCEPT !.main = "error"]
    /\ late' = late \cup (IF request.main = "sent" THEN {"unregister"} ELSE {})
    /\ faults' = faults + 1
    /\ UNCHANGED <<serving, conn, pc, registered, watch, changed>>

\* The process of the controller, with the registry, ends and starts again.
RegistryRestarts ==
    /\ faults < MaxFaults
    /\ registered' = FALSE
    /\ conn' = "Lost"
    /\ changed' = (changed \/ conn = "Ready")
    /\ request' = [p \in Process |->
           IF request[p] # "none" THEN "error" ELSE "none"]
    /\ late' = {}
    /\ faults' = faults + 1
    /\ UNCHANGED <<serving, pc, watch>>

-----------------------------------------------------------------------------
DriverSteps ==
    \/ Start \/ Looks \/ Waits \/ Wakes
    \/ \E p \in Process : Registers(p) \/ Registered(p) \/ RegisterRetries(p)
    \/ Unregisters \/ Unregistered \/ Ends
    \/ \E s \in Server : Stops(s) \/ Stopped(s)

Faults ==
    \/ ConnBreaks \/ UnregisterFails \/ RegistryRestarts
    \/ \E p \in Process : CallbackFails(p)

Next ==
    \/ DriverSteps
    \/ Signalled
    \/ \E s \in Server : CallArrives(s) \/ CallReturns(s)
    \/ \E p \in Process : Serves(p)
    \/ ServesLate \/ Reconnects
    \/ Faults

(***************************************************************************)
(* The driver's goroutines run, the registry answers what it receives,     *)
(* gRPC dials again until it is connected, and a call ends with its        *)
(* deadline at the latest.  That a request to the registry is served is an *)
(* assumption about the registry, since register and unregister set no     *)
(* deadline: one that hangs holds its node driver up for as long.  Nothing *)
(* forces a signal, a fault, a call, or a request without a caller to be   *)
(* served.                                                                 *)
(***************************************************************************)
Fairness ==
    /\ WF_vars(Looks) /\ WF_vars(Waits) /\ WF_vars(Wakes)
    /\ WF_vars(Start) /\ WF_vars(Ends) /\ WF_vars(Reconnects)
    /\ WF_vars(Unregisters) /\ WF_vars(Unregistered)
    /\ \A p \in Process :
           /\ WF_vars(Registers(p)) /\ WF_vars(Registered(p))
           /\ WF_vars(RegisterRetries(p)) /\ WF_vars(Serves(p))
    /\ \A s \in Server :
           WF_vars(CallReturns(s)) /\ WF_vars(Stops(s)) /\ WF_vars(Stopped(s))

Spec == Init /\ [][Next]_vars /\ Fairness

-----------------------------------------------------------------------------
\* Every variable has its type.
TypeOK ==
    /\ split \in BOOLEAN /\ cut \in BOOLEAN /\ calls \subseteq Server
    /\ servers \in [Server -> {"none", "serving", "draining", "stopped"}]
    /\ registered \in BOOLEAN
    /\ conn \in {"Ready", "Lost"} /\ seen \in {"Ready", "Lost"}
    /\ pc \in [main : MainPc, watcher : WatcherPc]
    /\ request \in [Process -> {"none", "sent", "OK", "error"}]
    /\ late \subseteq {"register", "unregister"}
    /\ connectionLost \in BOOLEAN /\ changed \in BOOLEAN
    /\ faults \in 0 .. MaxFaults

(***************************************************************************)
(* A node that ends leaves the registry, although its watcher runs on      *)
(* while it unregisters and may register it again: as long as nothing went *)
(* wrong, the watcher never does.                                          *)
(***************************************************************************)
EndedIsGone ==
    (pc.main \in {"stopping", "ended"} /\ faults = 0) => ~registered

(***************************************************************************)
(* "Here we want to shut down cleanly, i.e. let running gRPC calls         *)
(* complete" (cdi-driver.go:247-248): no call is cut off, unless something *)
(* went wrong; unregistering that fails cuts them off.                     *)
(***************************************************************************)
CallsComplete == faults = 0 => ~cut

(***************************************************************************)
(* The inductive invariant of both: until something goes wrong, the        *)
(* connection stays as the first registration found it, and the watcher    *)
(* asks for nothing; a server that does not serve yet, or has stopped,     *)
(* runs no call.                                                           *)
(***************************************************************************)
Undisturbed ==
    faults = 0 =>
        /\ late = {}
        /\ ~connectionLost
        /\ pc.watcher \in {"off", "look", "wait", "waiting"}
        /\ request.watcher = "none"
        /\ pc.main \in {"start", "register"} => request.main = "none"
        /\ (pc.main = "asked" \/ pc.watcher # "off") => conn = "Ready"
        /\ pc.main = "leaving" => request.main \in {"sent", "OK"}
        /\ (pc.main = "leaving" /\ request.main = "OK") => ~registered

NotYetServing ==
    /\ pc.main = "start" => servers.controller = "none"
    /\ pc.main \in {"start", "register", "asked"} => servers.node = "none"

StoppedRunNothing ==
    \A s \in calls : servers[s] \in {"serving", "draining"}

(***************************************************************************)
(* What the watcher relies on, whatever goes wrong: it does not run before *)
(* Run has registered the node; the registration it is told of is there as *)
(* long as the driver runs, because an unregistration that is late is one  *)
(* of a driver that ends; and no change of the connection escapes it while *)
(* it waits.                                                               *)
(***************************************************************************)
WatcherRelies ==
    /\ pc.main \in {"start", "register", "asked", "ended"} => pc.watcher = "off"
    /\ request.watcher # "none" => pc.watcher = "asked"
    /\ (request.watcher = "OK" /\ pc.main = "running") => registered
    /\ "unregister" \in late =>
           \/ pc.main = "ended"
           \/ pc.main = "leaving" /\ request.main = "error"
    /\ (pc.watcher = "waiting" /\ ~changed) => conn = seen

DriverInv ==
    /\ TypeOK /\ Undisturbed /\ NotYetServing /\ StoppedRunNothing
    /\ EndedIsGone /\ CallsComplete /\ WatcherRelies

(***************************************************************************)
(* A driver that was told to end does end, although calls arrive at one of *)
(* its servers while the other one drains.                                 *)
(***************************************************************************)
SignalEnds == pc.main = "unregister" ~> pc.main = "ended"

(***************************************************************************)
(* "register Tries to register with RegistryServer in endless loop": a     *)
(* node whose server listens gets through the registration with which it   *)
(* starts, whatever goes wrong for a while.                                *)
(***************************************************************************)
StartRegisters ==
    (pc.main = "register" /\ Listens) ~> pc.main = "running"

(***************************************************************************)
(* A watcher that has noticed a loss registers the node again, also if the *)
(* connection breaks, or the registry restarts, once more meanwhile: it    *)
(* misses losses only between GetState and WaitForStateChange.             *)
(***************************************************************************)
Alarmed ==
    /\ connectionLost
    /\ \/ pc.watcher \in {"look", "register", "asked"}
       \/ pc.watcher = "wait" /\ seen = "Lost"
       \/ pc.watcher = "waiting" /\ (changed \/ seen = "Lost")

LossesHeal ==
    (pc.main = "running" /\ Alarmed) ~> (registered \/ pc.main # "running")

(***************************************************************************)
(* A loss that was noticed is not forgotten before it is made good: until  *)
(* the node is registered, or is told to end, every step, of the driver or *)
(* of what goes wrong around it, leaves the watcher on its way to register *)
(* the node or with a change of the connection to wake up for.             *)
(***************************************************************************)
AlarmStays ==
    [][(pc.main = "running" /\ Alarmed /\ ~registered) =>
           (Alarmed' \/ registered' \/ pc.main' # "running")]_vars

(***************************************************************************)
(* "whenever the connection state changed from lost to ready, it           *)
(* re-register the node controller with registry server"                   *)
(* (cdi-driver.go:310-311): a running node that the registry has lost is   *)
(* registered again.                                                       *)
(***************************************************************************)
LostIsRegisteredAgain ==
    (pc.main = "running" /\ ~registered) ~> (registered \/ pc.main # "running")
=============================================================================
