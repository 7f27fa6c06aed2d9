---------------------------- MODULE RegistryServer ----------------------------
(***************************************************************************)
(* The registry of node controllers (pkg/registryserver): the endpoint of  *)
(* every registered node, and the listeners that are called when a node    *)
(* comes or goes.                                                          *)
(*                                                                         *)
(* The RPCs of one node exclude each other with a lock from a hashed key   *)
(* mutex, held over all the callbacks; the registry's own mutex is held    *)
(* for single reads and writes of nodeClients, so that callbacks and other *)
(* goroutines see the map in between.                                      *)
(***************************************************************************)
EXTENDS FiniteSets

CONSTANTS
    Node,      \* node identifiers
    Endpoint,  \* endpoints a node controller can be reached at
    Listener,  \* what AddListener was given, before the server was started
    Rpc,       \* goroutines serving RegisterController and UnregisterController
    Bucket,    \* the mutexes behind the hashed key mutex
    BucketOf,  \* the mutex that a node identifier hashes to
    Free,      \* the mutex is not held
    Absent     \* no such key

ASSUME RegistryAssumption ==
    /\ BucketOf \in [Node -> Bucket]
    /\ Free \notin Rpc
    /\ Absent \notin Endpoint

VARIABLES
    nodeClients,  \* node |-> endpoint, or Absent
    rpcMutex,     \* bucket |-> the RPC that holds it, or Free
    rpcs,         \* what every RPC is doing
    known         \* listener |-> node |-> the endpoint it was told last, or Absent

vars == <<nodeClients, rpcMutex, rpcs, known>>

\* left: the listeners that are still to be called.
RpcState ==
    [pc : {"idle"}]
      \cup [pc : {"registerLock"}, node : Node, endpoint : Endpoint]
      \cup [pc : {"unregisterLock"}, node : Node]
      \cup [pc : {"adding"}, node : Node, endpoint : Endpoint, left : SUBSET Listener]
      \cup [pc : {"failed"}, node : Node]
      \cup [pc : {"deleting"}, node : Node, left : SUBSET Listener]

Idle == [pc |-> "idle"]

\* The RPC holds the lock of its node.
AtWork(r) == rpcs[r].pc \in {"adding", "failed", "deleting"}

-----------------------------------------------------------------------------
Init ==
    /\ nodeClients = [n \in Node |-> Absent]
    /\ rpcMutex = [b \in Bucket |-> Free]
    /\ rpcs = [r \in Rpc |-> Idle]
    /\ known = [l \in Listener |-> [n \in Node |-> Absent]]

\* The process ends and is started again.
Restart ==
    /\ nodeClients' = [n \in Node |-> Absent]
    /\ rpcMutex' = [b \in Bucket |-> Free]
    /\ rpcs' = [r \in Rpc |-> Idle]
    /\ known' = [l \in Listener |-> [n \in Node |-> Absent]]

\* GetNodeController, and the endpoint ConnectToNodeController dials.
GetNodeController(n) == nodeClients[n]

-----------------------------------------------------------------------------
\* An RPC arrives.  One without a node or an endpoint is refused and changes
\* nothing.
RegisterController(r) ==
    /\ rpcs[r].pc = "idle"
    /\ \E n \in Node, e \in Endpoint :
           rpcs' = [rpcs EXCEPT
               ![r] = [pc |-> "registerLock", node |-> n, endpoint |-> e]]
    /\ UNCHANGED <<nodeClients, rpcMutex, known>>

\* Mutant: a new endpoint of a node that is known is no change.
RegisterControllerFoundAny(r) ==
    /\ rpcs[r].pc = "registerLock"
    /\ nodeClients[rpcs[r].node] # Absent
    /\ rpcMutex[BucketOf[rpcs[r].node]] = Free
    /\ nodeClients' = [nodeClients EXCEPT ![rpcs[r].node] = rpcs[r].endpoint]
    /\ rpcs' = [rpcs EXCEPT ![r] = Idle]
    /\ UNCHANGED <<rpcMutex, known>>

\* Nothing new: the node is registered with the same endpoint.
RegisterControllerFound(r) ==
    /\ rpcs[r].pc = "registerLock"
    /\ nodeClients[rpcs[r].node] = rpcs[r].endpoint
    /\ rpcMutex[BucketOf[rpcs[r].node]] = Free
    /\ rpcs' = [rpcs EXCEPT ![r] = Idle]
    /\ UNCHANGED <<nodeClients, rpcMutex, known>>

\* Mutant: the callbacks are made without the lock of the node.
RegisterControllerUnlocked(r) ==
    /\ rpcs[r].pc = "registerLock"
    /\ rpcMutex[BucketOf[rpcs[r].node]] = Free
    /\ nodeClients[rpcs[r].node] # rpcs[r].endpoint
    /\ nodeClients' = [nodeClients EXCEPT ![rpcs[r].node] = rpcs[r].endpoint]
    /\ rpcs' = [rpcs EXCEPT
           ![r] = [pc |-> "adding", node |-> rpcs[r].node,
                   endpoint |-> rpcs[r].endpoint, left |-> Listener]]
    /\ UNCHANGED <<rpcMutex, known>>

\* A new node, or a new endpoint: recorded first, and then told.
RegisterControllerUpdates(r) ==
    /\ rpcs[r].pc = "registerLock"
    /\ nodeClients[rpcs[r].node] # rpcs[r].endpoint
    /\ rpcMutex[BucketOf[rpcs[r].node]] = Free
    /\ rpcMutex' = [rpcMutex EXCEPT ![BucketOf[rpcs[r].node]] = r]
    /\ nodeClients' = [nodeClients EXCEPT ![rpcs[r].node] = rpcs[r].endpoint]
    /\ rpcs' = [rpcs EXCEPT
           ![r] = [pc |-> "adding", node |-> rpcs[r].node,
                   endpoint |-> rpcs[r].endpoint, left |-> Listener]]
    /\ UNCHANGED known

(***************************************************************************)
(* OnNodeAdded of a listener: it looks the endpoint up in the registry, as *)
(* MasterController does, and accepts the node, or fails and keeps what it *)
(* knew.  The listeners are called in any order.                           *)
(***************************************************************************)
OnNodeAdded(r, l) ==
    /\ rpcs[r].pc = "adding"
    /\ l \in rpcs[r].left
    /\ GetNodeController(rpcs[r].node) # Absent
    /\ known' = [known EXCEPT
           ![l][rpcs[r].node] = GetNodeController(rpcs[r].node)]
    /\ rpcs' = [rpcs EXCEPT ![r].left = @ \ {l}]
    /\ UNCHANGED <<nodeClients, rpcMutex>>

OnNodeAddedFails(r, l) ==
    /\ rpcs[r].pc = "adding"
    /\ l \in rpcs[r].left
    /\ rpcs' = [rpcs EXCEPT ![r] = [pc |-> "failed", node |-> rpcs[r].node]]
    /\ UNCHANGED <<nodeClients, rpcMutex, known>>

\* Mutant: the error path keeps the lock.
RegisterControllerFailsLocked(r) ==
    /\ rpcs[r].pc = "failed"
    /\ nodeClients' = [nodeClients EXCEPT ![rpcs[r].node] = Absent]
    /\ rpcs' = [rpcs EXCEPT ![r] = Idle]
    /\ UNCHANGED <<rpcMutex, known>>

\* The node is removed again, and no listener is told.
RegisterControllerFails(r) ==
    /\ rpcs[r].pc = "failed"
    /\ nodeClients' = [nodeClients EXCEPT ![rpcs[r].node] = Absent]
    /\ rpcMutex' = [rpcMutex EXCEPT ![BucketOf[rpcs[r].node]] = Free]
    /\ rpcs' = [rpcs EXCEPT ![r] = Idle]
    /\ UNCHANGED known

RegisterControllerReturns(r) ==
    /\ rpcs[r].pc = "adding"
    /\ rpcs[r].left = {}
    /\ rpcMutex' = [rpcMutex EXCEPT ![BucketOf[rpcs[r].node]] = Free]
    /\ rpcs' = [rpcs EXCEPT ![r] = Idle]
    /\ UNCHANGED <<nodeClients, known>>

-----------------------------------------------------------------------------
UnregisterController(r) ==
    /\ rpcs[r].pc = "idle"
    /\ \E n \in Node :
           rpcs' = [rpcs EXCEPT ![r] = [pc |-> "unregisterLock", node |-> n]]
    /\ UNCHANGED <<nodeClients, rpcMutex, known>>

\* Mutant: the node stays in the map while the listeners are called.
UnregisterControllerKeeps(r) ==
    /\ rpcs[r].pc = "unregisterLock"
    /\ rpcMutex[BucketOf[rpcs[r].node]] = Free
    /\ rpcMutex' = [rpcMutex EXCEPT ![BucketOf[rpcs[r].node]] = r]
    /\ rpcs' = [rpcs EXCEPT
           ![r] = [pc |-> "deleting", node |-> rpcs[r].node,
                   left |-> IF nodeClients[rpcs[r].node] = Absent
                            THEN {}
                            ELSE Listener]]
    /\ UNCHANGED <<nodeClients, known>>

\* Mutant: the node is looked up after it was removed.
UnregisterControllerRemovesFirst(r) ==
    /\ rpcs[r].pc = "unregisterLock"
    /\ rpcMutex[BucketOf[rpcs[r].node]] = Free
    /\ rpcMutex' = [rpcMutex EXCEPT ![BucketOf[rpcs[r].node]] = r]
    /\ nodeClients' = [nodeClients EXCEPT ![rpcs[r].node] = Absent]
    /\ rpcs' = [rpcs EXCEPT
           ![r] = [pc |-> "deleting", node |-> rpcs[r].node, left |-> {}]]
    /\ UNCHANGED known

\* The node is removed; the listeners are called if it was registered.
UnregisterControllerRemoves(r) ==
    /\ rpcs[r].pc = "unregisterLock"
    /\ rpcMutex[BucketOf[rpcs[r].node]] = Free
    /\ rpcMutex' = [rpcMutex EXCEPT ![BucketOf[rpcs[r].node]] = r]
    /\ nodeClients' = [nodeClients EXCEPT ![rpcs[r].node] = Absent]
    /\ rpcs' = [rpcs EXCEPT
           ![r] = [pc |-> "deleting", node |-> rpcs[r].node,
                   left |-> IF nodeClients[rpcs[r].node] = Absent
                            THEN {}
                            ELSE Listener]]
    /\ UNCHANGED known

OnNodeDeleted(r, l) ==
    /\ rpcs[r].pc = "deleting"
    /\ l \in rpcs[r].left
    /\ known' = [known EXCEPT ![l][rpcs[r].node] = Absent]
    /\ rpcs' = [rpcs EXCEPT ![r].left = @ \ {l}]
    /\ UNCHANGED <<nodeClients, rpcMutex>>

UnregisterControllerReturns(r) ==
    /\ rpcs[r].pc = "deleting"
    /\ rpcs[r].left = {}
    /\ rpcMutex' = [rpcMutex EXCEPT ![BucketOf[rpcs[r].node]] = Free]
    /\ rpcs' = [rpcs EXCEPT ![r] = Idle]
    /\ UNCHANGED <<nodeClients, known>>

-----------------------------------------------------------------------------
RpcLocks(r) ==
    \/ RegisterControllerFound(r) \/ RegisterControllerUpdates(r)
    \/ UnregisterControllerRemoves(r)

RpcWorks(r) ==
    \/ \E l \in Listener :
           OnNodeAdded(r, l) \/ OnNodeAddedFails(r, l) \/ OnNodeDeleted(r, l)
    \/ RegisterControllerFails(r)
    \/ RegisterControllerReturns(r)
    \/ UnregisterControllerReturns(r)

RpcSteps(r) ==
    RegisterController(r) \/ UnregisterController(r) \/ RpcLocks(r) \/ RpcWorks(r)

Next == (\E r \in Rpc : RpcSteps(r)) \/ Restart

(***************************************************************************)
(* A callback ends: the node it asks answers, or the connection to the     *)
(* node breaks, which cancels the RPC and its context.  The mutexes are    *)
(* sync.Mutexes, which starve no goroutine.                                *)
(***************************************************************************)
Fairness == \A r \in Rpc : SF_vars(RpcLocks(r)) /\ WF_vars(RpcWorks(r))

Spec == Init /\ [][Next]_vars

FairSpec == Spec /\ Fairness

-----------------------------------------------------------------------------
\* Every variable has its type.
TypeOK ==
    /\ nodeClients \in [Node -> Endpoint \cup {Absent}]
    /\ rpcMutex \in [Bucket -> Rpc \cup {Free}]
    /\ rpcs \in [Rpc -> RpcState]
    /\ known \in [Listener -> [Node -> Endpoint \cup {Absent}]]

(***************************************************************************)
(* The callbacks about one node never overlap, whatever RPCs arrive: this  *)
(* is what MasterController.OnNodeAdded and OnNodeDeleted, which lock too  *)
(* late or not at all, rely on.                                            *)
(***************************************************************************)
CallbacksExclude ==
    \A q, r \in Rpc :
        (AtWork(q) /\ AtWork(r) /\ rpcs[q].node = rpcs[r].node) => q = r

(***************************************************************************)
(* "All the callbacks are called once after updating the in-memory         *)
(* registry data": a callback about a new node finds the endpoint that is  *)
(* being registered, and one about a deleted node finds no node.           *)
(***************************************************************************)
CallbackSeesUpdate ==
    \A r \in Rpc :
        /\ rpcs[r].pc = "adding" =>
               GetNodeController(rpcs[r].node) = rpcs[r].endpoint
        /\ rpcs[r].pc = "deleting" =>
               GetNodeController(rpcs[r].node) = Absent

(***************************************************************************)
(* While no RPC about a node is at work, every listener has accepted the   *)
(* endpoint at which the node is registered: there is no node that can be  *)
(* connected to and whose devices a listener was never told of, or was     *)
(* told of at an older endpoint.                                           *)
(***************************************************************************)
ListenersKnowRegistered ==
    \A n \in Node :
        (/\ nodeClients[n] # Absent
         /\ \A r \in Rpc : AtWork(r) => rpcs[r].node # n)
        => \A l \in Listener : known[l][n] = nodeClients[n]

(***************************************************************************)
(* The other way round: a listener that knows a node which is not in the   *)
(* registry, with nobody about to tell it, was left behind by the failure  *)
(* of another registration of the node (RegisterController removes it and  *)
(* calls no OnNodeDeleted) and by nothing else: no RPCs that cross each    *)
(* other, and no change of the endpoint, leave a listener behind.          *)
(***************************************************************************)
LeftBehind(n, l) ==
    /\ nodeClients[n] = Absent /\ known[l][n] # Absent
    /\ \A r \in Rpc :
           (rpcs[r].pc = "deleting" /\ rpcs[r].node = n) => l \notin rpcs[r].left

OnlyFailuresLeaveBehind ==
    [][\A n \in Node, l \in Listener :
           (~LeftBehind(n, l) /\ LeftBehind(n, l)') =>
               \E r \in Rpc : RegisterControllerFails(r) /\ rpcs[r].node = n]_vars

(***************************************************************************)
(* The inductive invariant: who holds which lock, and what the listeners   *)
(* that were already called know.                                          *)
(***************************************************************************)
LocksHeld ==
    \A r \in Rpc : AtWork(r) => rpcMutex[BucketOf[rpcs[r].node]] = r

ToldSoFar ==
    \A r \in Rpc : \A l \in Listener :
        (rpcs[r].pc = "adding" /\ l \notin rpcs[r].left)
        => known[l][rpcs[r].node] = rpcs[r].endpoint

\* No path leaves a mutex locked: who holds one is at work on a node of it,
\* and so waits for no other of them.
LocksReleased ==
    \A b \in Bucket :
        LET r == rpcMutex[b]
        IN  r # Free => AtWork(r) /\ BucketOf[rpcs[r].node] = b

RegistryInv ==
    /\ TypeOK
    /\ LocksHeld /\ LocksReleased /\ CallbackSeesUpdate /\ ToldSoFar
    /\ ListenersKnowRegistered

(***************************************************************************)
(* The registry implements NodeRegistry: its RPCs, of which many wait or   *)
(* work at once under locks that nodes share, change the nodes one after   *)
(* the other, and tell each listener of each change once and in order.     *)
(***************************************************************************)
Workers(n) == {r \in Rpc : AtWork(r) /\ rpcs[r].node = n}

Worker(n) == CHOOSE r \in Workers(n) : TRUE

NoChange == [phase |-> "settled", left |-> {}]

ChangeOf(r) ==
    [phase |-> rpcs[r].pc,
     left |-> IF rpcs[r].pc = "failed" THEN {} ELSE rpcs[r].left]

changes ==
    [n \in Node |->
        IF Workers(n) = {} THEN NoChange ELSE ChangeOf(Worker(n))]

Registry == INSTANCE NodeRegistry WITH change <- changes

ImplementsNodeRegistry == Registry!Spec

\* Every RPC is answered, although nodes share locks that are held over the
\* callbacks.
EveryRpcReturns == \A r \in Rpc : rpcs[r].pc # "idle" ~> rpcs[r].pc = "idle"
=============================================================================
