------------------------- MODULE RegistryServerProofs -------------------------
(***************************************************************************)
(* The registry keeps its listeners informed of every registered node, for *)
(* any nodes, endpoints, listeners, goroutines and hashing of node         *)
(* identifiers, and GetCapacity sums over the nodes that are there.        *)
(***************************************************************************)
EXTENDS Capacity, FiniteSetTheorems, TLAPS

\* What an RPC at work says about itself: it has a node, and perhaps listeners.
LEMMA RpcFields ==
    ASSUME TypeOK, NEW r \in Rpc
    PROVE  /\ rpcs[r].pc = "registerLock" =>
                  rpcs[r].node \in Node /\ rpcs[r].endpoint \in Endpoint
           /\ rpcs[r].pc = "unregisterLock" => rpcs[r].node \in Node
           /\ rpcs[r].pc = "adding" =>
                  /\ rpcs[r].node \in Node /\ rpcs[r].endpoint \in Endpoint
                  /\ rpcs[r].left \in SUBSET Listener
           /\ rpcs[r].pc = "failed" => rpcs[r].node \in Node
           /\ rpcs[r].pc = "deleting" =>
                  rpcs[r].node \in Node /\ rpcs[r].left \in SUBSET Listener
<1>1. rpcs[r] \in RpcState
    BY DEF TypeOK
<1>. QED
    BY <1>1 DEF RpcState

\* Crossing listeners off leaves an RPC what it is.
LEMMA LeftFields ==
    ASSUME TypeOK, NEW r \in Rpc, NEW left \in SUBSET Listener,
           rpcs[r].pc \in {"adding", "deleting"}
    PROVE  [rpcs[r] EXCEPT !.left = left] \in RpcState
<1>1. CASE rpcs[r].pc = "adding"
    <2>1. rpcs[r] \in [pc : {"adding"}, node : Node, endpoint : Endpoint,
                       left : SUBSET Listener]
        BY <1>1 DEF TypeOK, RpcState
    <2>2. [rpcs[r] EXCEPT !.left = left] \in
              [pc : {"adding"}, node : Node, endpoint : Endpoint,
               left : SUBSET Listener]
        BY <2>1
    <2>. QED
        BY <2>2 DEF RpcState
<1>2. CASE rpcs[r].pc = "deleting"
    <2>1. rpcs[r] \in [pc : {"deleting"}, node : Node, left : SUBSET Listener]
        BY <1>2 DEF TypeOK, RpcState
    <2>2. [rpcs[r] EXCEPT !.left = left] \in
              [pc : {"deleting"}, node : Node, left : SUBSET Listener]
        BY <2>1
    <2>. QED
        BY <2>2 DEF RpcState
<1>. QED
    BY <1>1, <1>2

LEMMA WorkerOnNode ==
    ASSUME TypeOK, NEW r \in Rpc, AtWork(r)
    PROVE  rpcs[r].node \in Node
BY RpcFields DEF AtWork

\* Two RPCs at work on one node would hold the same lock.
LEMMA LocksExclude ==
    ASSUME LocksHeld
    PROVE  CallbacksExclude
BY DEF LocksHeld, CallbacksExclude

\* Nothing is registered and no RPC is under way at the start.
LEMMA RegistryInitially == Init => RegistryInv
BY RegistryAssumption
   DEF Init, RegistryInv, TypeOK, LocksHeld, LocksReleased, CallbackSeesUpdate,
       ToldSoFar, ListenersKnowRegistered, AtWork, Idle, RpcState

-----------------------------------------------------------------------------
LEMMA RegisterControllerTyped ==
    ASSUME TypeOK, NEW r \in Rpc, RegisterController(r) \/ UnregisterController(r)
    PROVE  TypeOK'
BY DEF TypeOK, RegisterController, UnregisterController, RpcState

LEMMA RpcLocksTyped ==
    ASSUME TypeOK, NEW r \in Rpc, RpcLocks(r)
    PROVE  TypeOK'
<1>1. CASE RegisterControllerFound(r)
    BY <1>1 DEF TypeOK, RegisterControllerFound, RpcState, Idle
<1>2. CASE RegisterControllerUpdates(r)
    <2>1. rpcs[r].node \in Node /\ rpcs[r].endpoint \in Endpoint
        BY <1>2, RpcFields DEF RegisterControllerUpdates
    <2>2. [pc |-> "adding", node |-> rpcs[r].node,
           endpoint |-> rpcs[r].endpoint, left |-> Listener] \in RpcState
        BY <2>1 DEF RpcState
    <2>. QED
        BY <1>2, <2>1, <2>2 DEF TypeOK, RegisterControllerUpdates
<1>3. CASE UnregisterControllerRemoves(r)
    <2>1. rpcs[r].node \in Node
        BY <1>3, RpcFields DEF UnregisterControllerRemoves
    <2>2. [pc |-> "deleting", node |-> rpcs[r].node,
           left |-> IF nodeClients[rpcs[r].node] = Absent
                    THEN {} ELSE Listener] \in RpcState
        BY <2>1 DEF RpcState
    <2>. QED
        BY <1>3, <2>1, <2>2 DEF TypeOK, UnregisterControllerRemoves
<1>. QED
    BY <1>1, <1>2, <1>3 DEF RpcLocks

LEMMA RpcWorksTyped ==
    ASSUME TypeOK, NEW r \in Rpc, RpcWorks(r)
    PROVE  TypeOK'
<1>1. ASSUME NEW l \in Listener, OnNodeAdded(r, l)
      PROVE  TypeOK'
    <2>1. rpcs[r].node \in Node
        BY <1>1, RpcFields DEF OnNodeAdded
    <2>2. [rpcs[r] EXCEPT !.left = @ \ {l}] \in RpcState
        BY <1>1, RpcFields, LeftFields DEF OnNodeAdded
    <2>. QED
        BY <1>1, <2>1, <2>2 DEF TypeOK, OnNodeAdded, GetNodeController
<1>2. ASSUME NEW l \in Listener, OnNodeAddedFails(r, l)
      PROVE  TypeOK'
    <2>1. [pc |-> "failed", node |-> rpcs[r].node] \in RpcState
        BY <1>2, RpcFields DEF OnNodeAddedFails, RpcState
    <2>. QED
        BY <1>2, <2>1 DEF TypeOK, OnNodeAddedFails
<1>3. ASSUME NEW l \in Listener, OnNodeDeleted(r, l)
      PROVE  TypeOK'
    <2>1. rpcs[r].node \in Node
        BY <1>3, RpcFields DEF OnNodeDeleted
    <2>2. [rpcs[r] EXCEPT !.left = @ \ {l}] \in RpcState
        BY <1>3, RpcFields, LeftFields DEF OnNodeDeleted
    <2>. QED
        BY <1>3, <2>1, <2>2 DEF TypeOK, OnNodeDeleted
<1>4. CASE RegisterControllerFails(r)
    BY <1>4 DEF TypeOK, RegisterControllerFails, RpcState, Idle
<1>5. CASE RegisterControllerReturns(r)
    BY <1>5 DEF TypeOK, RegisterControllerReturns, RpcState, Idle
<1>6. CASE UnregisterControllerReturns(r)
    BY <1>6 DEF TypeOK, UnregisterControllerReturns, RpcState, Idle
<1>. QED
    BY <1>1, <1>2, <1>3, <1>4, <1>5, <1>6 DEF RpcWorks

-----------------------------------------------------------------------------
(***************************************************************************)
(* The parts of the invariant that say who does what, as one formula: each *)
(* step below is one action that keeps all of them.                        *)
(***************************************************************************)
Informed ==
    /\ LocksHeld /\ CallbackSeesUpdate /\ ToldSoFar /\ ListenersKnowRegistered

\* A call that arrives takes no lock yet.
LEMMA ArrivalInforms ==
    ASSUME TypeOK, Informed, NEW r \in Rpc,
           RegisterController(r) \/ UnregisterController(r)
    PROVE  Informed'
<1>1. /\ UNCHANGED <<nodeClients, rpcMutex, known>>
      /\ rpcs[r].pc = "idle"
      /\ rpcs'[r].pc \in {"registerLock", "unregisterLock"}
      /\ \A q \in Rpc \ {r} : rpcs'[q] = rpcs[q]
    BY DEF RegisterController, UnregisterController, TypeOK
<1>2. LocksHeld'
    BY <1>1 DEF Informed, LocksHeld, AtWork
<1>3. CallbackSeesUpdate'
    BY <1>1 DEF Informed, CallbackSeesUpdate, GetNodeController
<1>4. ToldSoFar'
    BY <1>1 DEF Informed, ToldSoFar
<1>5. ListenersKnowRegistered'
    BY <1>1 DEF Informed, ListenersKnowRegistered, AtWork
<1>. QED
    BY <1>2, <1>3, <1>4, <1>5 DEF Informed

\* Registering a node at the endpoint it has changes nothing.
LEMMA FoundInforms ==
    ASSUME TypeOK, Informed, NEW r \in Rpc, RegisterControllerFound(r)
    PROVE  Informed'
<1>1. /\ UNCHANGED <<nodeClients, rpcMutex, known>>
      /\ rpcs[r].pc = "registerLock"
      /\ rpcs'[r].pc = "idle"
      /\ \A q \in Rpc \ {r} : rpcs'[q] = rpcs[q]
    BY DEF RegisterControllerFound, TypeOK, Idle
<1>2. LocksHeld'
    BY <1>1 DEF Informed, LocksHeld, AtWork
<1>3. CallbackSeesUpdate'
    BY <1>1 DEF Informed, CallbackSeesUpdate, GetNodeController
<1>4. ToldSoFar'
    BY <1>1 DEF Informed, ToldSoFar
<1>5. ListenersKnowRegistered'
    BY <1>1 DEF Informed, ListenersKnowRegistered, AtWork
<1>. QED
    BY <1>2, <1>3, <1>4, <1>5 DEF Informed

\* Taking the lock: no other RPC is at work on the node.
LEMMA LockingInforms ==
    ASSUME TypeOK, Informed, NEW r \in Rpc,
           RegisterControllerUpdates(r) \/ UnregisterControllerRemoves(r)
    PROVE  Informed'
<1>. DEFINE n == rpcs[r].node
<1>1. n \in Node
    BY RpcFields DEF RegisterControllerUpdates, UnregisterControllerRemoves
<1>2. \A q \in Rpc : AtWork(q) => BucketOf[rpcs[q].node] # BucketOf[n]
    BY RegistryAssumption
    DEF Informed, LocksHeld, RegisterControllerUpdates, UnregisterControllerRemoves
<1>3. /\ UNCHANGED known
      /\ \A q \in Rpc \ {r} : rpcs'[q] = rpcs[q]
      /\ rpcMutex' = [rpcMutex EXCEPT ![BucketOf[n]] = r]
      /\ \A m \in Node \ {n} : nodeClients'[m] = nodeClients[m]
      /\ rpcs'[r].node = n
      /\ rpcs'[r].pc \in {"adding", "deleting"}
      /\ rpcs[r].pc \notin {"adding", "failed", "deleting"}
    BY DEF RegisterControllerUpdates, UnregisterControllerRemoves, TypeOK
<1>4. BucketOf[n] \in Bucket
    BY <1>1, RegistryAssumption
<1>5. \A q \in Rpc \ {r} :
          /\ AtWork(q)' <=> AtWork(q)
          /\ AtWork(q) => rpcs[q].node \in Node \ {n}
    BY <1>2, <1>3, WorkerOnNode DEF AtWork
<1>6. LocksHeld'
    <2>1. rpcMutex'[BucketOf[n]] = r
        BY <1>3, <1>4 DEF TypeOK
    <2>2. ASSUME NEW q \in Rpc \ {r}, AtWork(q)
          PROVE  rpcMutex'[BucketOf[rpcs'[q].node]] = q
        <3>1. rpcs'[q] = rpcs[q] /\ BucketOf[rpcs[q].node] # BucketOf[n]
            BY <1>2, <1>3, <2>2
        <3>2. rpcMutex[BucketOf[rpcs[q].node]] = q
            BY <2>2 DEF Informed, LocksHeld
        <3>3. BucketOf[rpcs[q].node] \in Bucket
            BY <1>5, <2>2, RegistryAssumption
        <3>. QED
            BY <1>3, <3>1, <3>2, <3>3 DEF TypeOK
    <2>. QED
        BY <1>3, <1>5, <2>1, <2>2 DEF LocksHeld
<1>7. CallbackSeesUpdate'
    <2>1. /\ rpcs'[r].pc = "adding" => nodeClients'[n] = rpcs'[r].endpoint
          /\ rpcs'[r].pc = "deleting" => nodeClients'[n] = Absent
        BY <1>1
        DEF RegisterControllerUpdates, UnregisterControllerRemoves, TypeOK
    <2>2. ASSUME NEW q \in Rpc \ {r}, AtWork(q)
          PROVE  nodeClients'[rpcs[q].node] = nodeClients[rpcs[q].node]
        BY <1>3, <1>5, <2>2
    <2>. QED
        BY <1>3, <2>1, <2>2
        DEF Informed, CallbackSeesUpdate, GetNodeController, AtWork
<1>8. ToldSoFar'
    <2>1. rpcs'[r].pc = "adding" => rpcs'[r].left = Listener
        BY DEF RegisterControllerUpdates, UnregisterControllerRemoves, TypeOK
    <2>. QED
        BY <1>3, <2>1 DEF Informed, ToldSoFar
<1>9. ListenersKnowRegistered'
    <2>1. AtWork(r)'
        BY <1>3 DEF AtWork
    <2>2. ASSUME NEW m \in Node, nodeClients'[m] # Absent,
                 \A q \in Rpc : AtWork(q)' => rpcs'[q].node # m,
                 NEW l \in Listener
          PROVE  known'[l][m] = nodeClients'[m]
        <3>1. m # n
            BY <1>3, <2>1, <2>2
        <3>2. \A q \in Rpc : AtWork(q) => rpcs[q].node # m
            BY <1>3, <1>5, <2>2 DEF AtWork
        <3>. QED
            BY <1>3, <2>2, <3>1, <3>2 DEF Informed, ListenersKnowRegistered
    <2>. QED
        BY <2>2 DEF ListenersKnowRegistered
<1>. QED
    BY <1>6, <1>7, <1>8, <1>9 DEF Informed

-----------------------------------------------------------------------------
\* A listener accepts the node: it learns the endpoint that is registered.
LEMMA AddedInforms ==
    ASSUME TypeOK, Informed, NEW r \in Rpc, NEW l \in Listener, OnNodeAdded(r, l)
    PROVE  Informed'
<1>. DEFINE n == rpcs[r].node
<1>1. n \in Node /\ AtWork(r) /\ nodeClients[n] = rpcs[r].endpoint
    BY RpcFields DEF OnNodeAdded, AtWork, Informed, CallbackSeesUpdate, GetNodeController
<1>2. /\ UNCHANGED <<nodeClients, rpcMutex>>
      /\ \A q \in Rpc \ {r} : rpcs'[q] = rpcs[q]
      /\ rpcs[r].pc = "adding" /\ rpcs'[r].pc = "adding"
      /\ rpcs'[r].node = n /\ rpcs'[r].endpoint = rpcs[r].endpoint
      /\ rpcs'[r].left = rpcs[r].left \ {l}
    BY RpcFields DEF OnNodeAdded, TypeOK
<1>3. /\ known'[l][n] = rpcs[r].endpoint
      /\ \A k \in Listener, m \in Node :
             (k # l \/ m # n) => known'[k][m] = known[k][m]
    BY <1>1 DEF OnNodeAdded, TypeOK, GetNodeController
<1>4. \A q \in Rpc : AtWork(q)' <=> AtWork(q)
    BY <1>2 DEF AtWork
<1>5. \A q \in Rpc \ {r} : AtWork(q) => rpcs[q].node \in Node \ {n}
    BY <1>1, WorkerOnNode, LocksExclude DEF Informed, CallbacksExclude
<1>6. LocksHeld'
    BY <1>2, <1>4 DEF Informed, LocksHeld
<1>7. CallbackSeesUpdate'
    BY <1>2 DEF Informed, CallbackSeesUpdate, GetNodeController
<1>8. ToldSoFar'
    <2>1. ASSUME NEW k \in Listener, k \notin rpcs'[r].left
          PROVE  known'[k][n] = rpcs[r].endpoint
        BY <1>1, <1>2, <1>3, <2>1 DEF Informed, ToldSoFar
    <2>2. ASSUME NEW q \in Rpc \ {r}, NEW k \in Listener,
                 rpcs[q].pc = "adding", k \notin rpcs[q].left
          PROVE  known'[k][rpcs[q].node] = rpcs[q].endpoint
        <3>1. rpcs[q].node \in Node \ {n}
            BY <1>5, <2>2 DEF AtWork
        <3>2. known[k][rpcs[q].node] = rpcs[q].endpoint
            BY <2>2 DEF Informed, ToldSoFar
        <3>. QED
            BY <1>3, <3>1, <3>2
    <2>. QED
        BY <1>2, <2>1, <2>2 DEF ToldSoFar
<1>9. ListenersKnowRegistered'
    <2>1. ASSUME NEW m \in Node, nodeClients[m] # Absent,
                 \A q \in Rpc : AtWork(q) => rpcs[q].node # m,
                 NEW k \in Listener
          PROVE  known'[k][m] = nodeClients[m]
        <3>1. m # n
            BY <1>1, <2>1
        <3>. QED
            BY <1>3, <2>1, <3>1 DEF Informed, ListenersKnowRegistered
    <2>. QED
        BY <1>2, <1>4, <2>1 DEF ListenersKnowRegistered
<1>. QED
    BY <1>6, <1>7, <1>8, <1>9 DEF Informed

\* A listener forgets the node, which is in the registry no longer.
LEMMA DeletedInforms ==
    ASSUME TypeOK, Informed, NEW r \in Rpc, NEW l \in Listener, OnNodeDeleted(r, l)
    PROVE  Informed'
<1>. DEFINE n == rpcs[r].node
<1>1. n \in Node /\ AtWork(r)
    BY RpcFields DEF OnNodeDeleted, AtWork
<1>2. /\ UNCHANGED <<nodeClients, rpcMutex>>
      /\ \A q \in Rpc \ {r} : rpcs'[q] = rpcs[q]
      /\ rpcs[r].pc = "deleting" /\ rpcs'[r].pc = "deleting"
      /\ rpcs'[r].node = n
    BY RpcFields DEF OnNodeDeleted, TypeOK
<1>3. \A k \in Listener, m \in Node \ {n} : known'[k][m] = known[k][m]
    BY <1>1 DEF OnNodeDeleted, TypeOK
<1>4. \A q \in Rpc : AtWork(q)' <=> AtWork(q)
    BY <1>2 DEF AtWork
<1>5. \A q \in Rpc \ {r} : AtWork(q) => rpcs[q].node \in Node \ {n}
    BY <1>1, WorkerOnNode, LocksExclude DEF Informed, CallbacksExclude
<1>6. LocksHeld'
    BY <1>2, <1>4 DEF Informed, LocksHeld
<1>7. CallbackSeesUpdate'
    BY <1>2 DEF Informed, CallbackSeesUpdate, GetNodeController
<1>8. ToldSoFar'
    <2>1. ASSUME NEW q \in Rpc \ {r}, NEW k \in Listener,
                 rpcs[q].pc = "adding", k \notin rpcs[q].left
          PROVE  known'[k][rpcs[q].node] = rpcs[q].endpoint
        <3>1. rpcs[q].node \in Node \ {n}
            BY <1>5, <2>1 DEF AtWork
        <3>2. known[k][rpcs[q].node] = rpcs[q].endpoint
            BY <2>1 DEF Informed, ToldSoFar
        <3>. QED
            BY <1>3, <3>1, <3>2
    <2>. QED
        BY <1>2, <2>1 DEF ToldSoFar
<1>9. ListenersKnowRegistered'
    <2>1. ASSUME NEW m \in Node, nodeClients[m] # Absent,
                 \A q \in Rpc : AtWork(q) => rpcs[q].node # m,
                 NEW k \in Listener
          PROVE  known'[k][m] = nodeClients[m]
        <3>1. m # n
            BY <1>1, <2>1
        <3>. QED
            BY <1>3, <2>1, <3>1 DEF Informed, ListenersKnowRegistered
    <2>. QED
        BY <1>2, <1>4, <2>1 DEF ListenersKnowRegistered
<1>. QED
    BY <1>6, <1>7, <1>8, <1>9 DEF Informed

\* The first listener that fails ends the registration.
LEMMA AddedFailsInforms ==
    ASSUME TypeOK, Informed, NEW r \in Rpc, NEW l \in Listener,
           OnNodeAddedFails(r, l)
    PROVE  Informed'
<1>1. /\ UNCHANGED <<nodeClients, rpcMutex, known>>
      /\ rpcs[r].pc = "adding" /\ rpcs'[r].pc = "failed"
      /\ rpcs'[r].node = rpcs[r].node
      /\ \A q \in Rpc \ {r} : rpcs'[q] = rpcs[q]
    BY DEF OnNodeAddedFails, TypeOK
<1>2. LocksHeld'
    BY <1>1 DEF Informed, LocksHeld, AtWork
<1>3. CallbackSeesUpdate'
    BY <1>1 DEF Informed, CallbackSeesUpdate, GetNodeController
<1>4. ToldSoFar'
    BY <1>1 DEF Informed, ToldSoFar
<1>5. ListenersKnowRegistered'
    BY <1>1 DEF Informed, ListenersKnowRegistered, AtWork
<1>. QED
    BY <1>2, <1>3, <1>4, <1>5 DEF Informed

(***************************************************************************)
(* An RPC returns and unlocks: its node is either gone from the registry,  *)
(* or every listener was called for it.                                    *)
(***************************************************************************)
LEMMA ReturnInforms ==
    ASSUME TypeOK, Informed, NEW r \in Rpc,
           \/ RegisterControllerFails(r) \/ RegisterControllerReturns(r)
           \/ UnregisterControllerReturns(r)
    PROVE  Informed'
<1>. DEFINE n == rpcs[r].node
<1>1. n \in Node /\ AtWork(r)
    BY RpcFields
    DEF RegisterControllerFails, RegisterControllerReturns,
        UnregisterControllerReturns, AtWork
<1>2. /\ UNCHANGED known
      /\ \A q \in Rpc \ {r} : rpcs'[q] = rpcs[q]
      /\ rpcs'[r].pc = "idle"
      /\ rpcMutex' = [rpcMutex EXCEPT ![BucketOf[n]] = Free]
      /\ \A m \in Node \ {n} : nodeClients'[m] = nodeClients[m]
    BY DEF RegisterControllerFails, RegisterControllerReturns,
           UnregisterControllerReturns, TypeOK, Idle
<1>3. \A q \in Rpc \ {r} :
          /\ AtWork(q)' <=> AtWork(q)
          /\ AtWork(q) => rpcs[q].node \in Node \ {n}
    BY <1>1, <1>2, WorkerOnNode, LocksExclude
    DEF Informed, CallbacksExclude, AtWork
<1>4. ~AtWork(r)'
    BY <1>2 DEF AtWork
<1>5. LocksHeld'
    <2>1. ASSUME NEW q \in Rpc \ {r}, AtWork(q)
          PROVE  rpcMutex'[BucketOf[rpcs'[q].node]] = q
        <3>1. /\ rpcMutex[BucketOf[rpcs[q].node]] = q
              /\ rpcMutex[BucketOf[n]] = r
            BY <1>1, <2>1 DEF Informed, LocksHeld
        <3>2. BucketOf[rpcs[q].node] \in Bucket
            BY <1>3, <2>1, RegistryAssumption
        <3>. QED
            BY <1>2, <2>1, <3>1, <3>2 DEF TypeOK
    <2>. QED
        BY <1>3, <1>4, <2>1 DEF LocksHeld
<1>6. CallbackSeesUpdate'
    <2>1. ASSUME NEW q \in Rpc \ {r}, AtWork(q)
          PROVE  nodeClients'[rpcs[q].node] = nodeClients[rpcs[q].node]
        BY <1>2, <1>3, <2>1
    <2>. QED
        BY <1>2, <2>1 DEF Informed, CallbackSeesUpdate, GetNodeController, AtWork
<1>7. ToldSoFar'
    BY <1>2 DEF Informed, ToldSoFar
<1>8. ListenersKnowRegistered'
    <2>1. nodeClients'[n] # Absent =>
              \A l \in Listener : known[l][n] = nodeClients'[n]
        <3>1. CASE RegisterControllerFails(r)
            BY <1>1, <3>1 DEF RegisterControllerFails, TypeOK
        <3>2. CASE RegisterControllerReturns(r)
            BY <3>2 DEF RegisterControllerReturns, Informed, ToldSoFar,
                        CallbackSeesUpdate, GetNodeController
        <3>3. CASE UnregisterControllerReturns(r)
            BY <3>3 DEF UnregisterControllerReturns, Informed,
                        CallbackSeesUpdate, GetNodeController
        <3>. QED
            BY <3>1, <3>2, <3>3
    <2>2. ASSUME NEW m \in Node, nodeClients'[m] # Absent,
                 \A q \in Rpc : AtWork(q)' => rpcs'[q].node # m,
                 NEW l \in Listener
          PROVE  known'[l][m] = nodeClients'[m]
        <3>1. CASE m = n
            BY <1>2, <2>1, <2>2, <3>1
        <3>2. CASE m # n
            <4>1. \A q \in Rpc : AtWork(q) => rpcs[q].node # m
                BY <1>2, <1>3, <2>2, <3>2
            <4>. QED
                BY <1>2, <2>2, <3>2, <4>1 DEF Informed, ListenersKnowRegistered
        <3>. QED
            BY <3>1, <3>2
    <2>. QED
        BY <2>2 DEF ListenersKnowRegistered
<1>. QED
    BY <1>5, <1>6, <1>7, <1>8 DEF Informed

-----------------------------------------------------------------------------
(***************************************************************************)
(* The mutexes are released on every path: one that is locked is held by   *)
(* an RPC that is at work, and not by one that waits or has returned.      *)
(***************************************************************************)

\* An RPC that arrives, or finds nothing to do, holds no mutex.
LEMMA WaitingHoldsNone ==
    ASSUME TypeOK, LocksReleased, NEW r \in Rpc,
           \/ RegisterController(r) \/ UnregisterController(r)
           \/ RegisterControllerFound(r)
    PROVE  LocksReleased'
<1>1. /\ rpcMutex' = rpcMutex
      /\ ~AtWork(r)
      /\ \A q \in Rpc \ {r} : rpcs'[q] = rpcs[q]
    BY DEF RegisterController, UnregisterController, RegisterControllerFound,
           AtWork, TypeOK
<1>2. ASSUME NEW b \in Bucket, rpcMutex[b] # Free
      PROVE  AtWork(rpcMutex[b])' /\ BucketOf[rpcs'[rpcMutex[b]].node] = b
    <2>1. rpcMutex[b] \in Rpc \ {r}
        BY <1>1, <1>2 DEF TypeOK, LocksReleased
    <2>. QED
        BY <1>1, <1>2, <2>1 DEF LocksReleased, AtWork
<1>. QED
    BY <1>1, <1>2 DEF LocksReleased, AtWork

\* Between its callbacks an RPC stays at work on its node.
LEMMA WorkingHolds ==
    ASSUME TypeOK, LocksReleased, NEW r \in Rpc, NEW l \in Listener,
           OnNodeAdded(r, l) \/ OnNodeAddedFails(r, l) \/ OnNodeDeleted(r, l)
    PROVE  LocksReleased'
<1>1. /\ rpcMutex' = rpcMutex
      /\ AtWork(r)' /\ rpcs'[r].node = rpcs[r].node
      /\ \A q \in Rpc \ {r} : rpcs'[q] = rpcs[q]
    <2>1. CASE OnNodeAdded(r, l)
        BY <2>1, RpcFields DEF OnNodeAdded, AtWork, TypeOK
    <2>2. CASE OnNodeAddedFails(r, l)
        BY <2>2 DEF OnNodeAddedFails, AtWork, TypeOK
    <2>3. CASE OnNodeDeleted(r, l)
        BY <2>3, RpcFields DEF OnNodeDeleted, AtWork, TypeOK
    <2>. QED
        BY <2>1, <2>2, <2>3
<1>2. ASSUME NEW b \in Bucket, rpcMutex[b] # Free
      PROVE  AtWork(rpcMutex[b])' /\ BucketOf[rpcs'[rpcMutex[b]].node] = b
    <2>1. rpcMutex[b] \in Rpc
        BY <1>2 DEF TypeOK
    <2>. QED
        BY <1>1, <1>2, <2>1 DEF LocksReleased, AtWork
<1>. QED
    BY <1>1, <1>2 DEF LocksReleased, AtWork

\* The mutex that an RPC locks is that of the node it is then at work on.
LEMMA LockingHolds ==
    ASSUME TypeOK, LocksReleased, NEW r \in Rpc,
           RegisterControllerUpdates(r) \/ UnregisterControllerRemoves(r)
    PROVE  LocksReleased'
<1>. DEFINE n == rpcs[r].node
<1>1. /\ rpcMutex' = [rpcMutex EXCEPT ![BucketOf[n]] = r]
      /\ ~AtWork(r) /\ AtWork(r)' /\ rpcs'[r].node = n
      /\ \A q \in Rpc \ {r} : rpcs'[q] = rpcs[q]
    BY DEF RegisterControllerUpdates, UnregisterControllerRemoves, AtWork, TypeOK
<1>2. ASSUME NEW b \in Bucket, rpcMutex'[b] # Free
      PROVE  AtWork(rpcMutex[b])' /\ BucketOf[rpcs'[rpcMutex'[b]].node] = b
    <2>1. CASE b = BucketOf[n]
        BY <1>1, <2>1 DEF TypeOK
    <2>2. CASE b # BucketOf[n]
        <3>1. rpcMutex'[b] = rpcMutex[b] /\ rpcMutex[b] \in Rpc \ {r}
            BY <1>1, <1>2, <2>2 DEF TypeOK, LocksReleased
        <3>. QED
            BY <1>1, <1>2, <3>1 DEF LocksReleased, AtWork
    <2>. QED
        BY <2>1, <2>2
<1>. QED
    BY <1>2 DEF LocksReleased, AtWork

\* An RPC that returns held the mutex of its node, and no other.
LEMMA ReturnReleases ==
    ASSUME TypeOK, LocksHeld, LocksReleased, NEW r \in Rpc,
           \/ RegisterControllerFails(r) \/ RegisterControllerReturns(r)
           \/ UnregisterControllerReturns(r)
    PROVE  LocksReleased'
<1>. DEFINE n == rpcs[r].node
<1>1. /\ rpcMutex' = [rpcMutex EXCEPT ![BucketOf[n]] = Free]
      /\ AtWork(r)
      /\ \A q \in Rpc \ {r} : rpcs'[q] = rpcs[q]
    BY DEF RegisterControllerFails, RegisterControllerReturns,
           UnregisterControllerReturns, AtWork, TypeOK
<1>2. ASSUME NEW b \in Bucket, rpcMutex'[b] # Free
      PROVE  AtWork(rpcMutex[b])' /\ BucketOf[rpcs'[rpcMutex'[b]].node] = b
    <2>1. b # BucketOf[n] /\ rpcMutex'[b] = rpcMutex[b]
        BY <1>1, <1>2 DEF TypeOK
    <2>2. rpcMutex[b] \in Rpc \ {r}
        BY <1>2, <2>1 DEF TypeOK, LocksReleased
    <2>. QED
        BY <1>1, <1>2, <2>1, <2>2 DEF LocksReleased, AtWork
<1>. QED
    BY <1>2 DEF LocksReleased, AtWork

-----------------------------------------------------------------------------
\* Every step of the registry keeps the invariant.
LEMMA RegistryStep == RegistryInv /\ [Next]_vars => RegistryInv'
<1>. SUFFICES ASSUME RegistryInv, [Next]_vars
              PROVE  RegistryInv'
    OBVIOUS
<1>1. TypeOK /\ Informed /\ LocksReleased
    BY DEF RegistryInv, Informed
<1>2. CASE UNCHANGED vars
    BY <1>2 DEF vars, RegistryInv, TypeOK, LocksHeld, LocksReleased,
                CallbackSeesUpdate, ToldSoFar, ListenersKnowRegistered, AtWork,
                GetNodeController
<1>3. CASE Restart
    <2>1. Init'
        BY <1>3 DEF Restart, Init
    <2>. QED
        BY <2>1, RegistryAssumption
        DEF Init, RegistryInv, TypeOK, LocksHeld, LocksReleased,
            CallbackSeesUpdate, ToldSoFar, ListenersKnowRegistered, AtWork,
            Idle, RpcState
<1>4. ASSUME NEW r \in Rpc, RegisterController(r) \/ UnregisterController(r)
      PROVE  RegistryInv'
    <2>1. TypeOK'
        BY <1>1, <1>4, RegisterControllerTyped
    <2>2. Informed' /\ LocksReleased'
        BY <1>1, <1>4, ArrivalInforms, WaitingHoldsNone DEF Informed
    <2>. QED
        BY <2>1, <2>2 DEF RegistryInv, Informed
<1>5. ASSUME NEW r \in Rpc, RpcLocks(r)
      PROVE  RegistryInv'
    <2>1. TypeOK'
        BY <1>1, <1>5, RpcLocksTyped
    <2>2. Informed' /\ LocksReleased'
        BY <1>1, <1>5, FoundInforms, LockingInforms, WaitingHoldsNone,
           LockingHolds DEF RpcLocks, Informed
    <2>. QED
        BY <2>1, <2>2 DEF RegistryInv, Informed
<1>6. ASSUME NEW r \in Rpc, RpcWorks(r)
      PROVE  RegistryInv'
    <2>1. TypeOK'
        BY <1>1, <1>6, RpcWorksTyped
    <2>2. Informed'
        BY <1>1, <1>6, AddedInforms, DeletedInforms, AddedFailsInforms,
           ReturnInforms DEF RpcWorks
    <2>3. LocksReleased'
        BY <1>1, <1>6, WorkingHolds, ReturnReleases DEF RpcWorks, Informed
    <2>. QED
        BY <2>1, <2>2, <2>3 DEF RegistryInv, Informed
<1>. QED
    BY <1>2, <1>3, <1>4, <1>5, <1>6 DEF Next, RpcSteps

(***************************************************************************)
(* The invariant of the registry: the RPCs of a node exclude each other,   *)
(* and between them the listeners are up to date.                          *)
(***************************************************************************)
THEOREM RegistryInvariant == Spec => []RegistryInv
BY RegistryInitially, RegistryStep, PTL DEF Spec

(***************************************************************************)
(* Callbacks about one node never overlap, so that a listener need not     *)
(* protect itself against two reports of one node.                         *)
(***************************************************************************)
THEOREM CallbacksExcludeHolds == Spec => []CallbacksExclude
<1>1. RegistryInv => CallbacksExclude
    BY LocksExclude DEF RegistryInv
<1>. QED
    BY <1>1, RegistryInvariant, PTL

(***************************************************************************)
(* A callback finds the registry updated, as the comment of                *)
(* RegistryListener says.                                                  *)
(***************************************************************************)
THEOREM CallbackSeesUpdateHolds == Spec => []CallbackSeesUpdate
<1>1. RegistryInv => CallbackSeesUpdate
    BY DEF RegistryInv
<1>. QED
    BY <1>1, RegistryInvariant, PTL

(***************************************************************************)
(* Every listener knows every registered node at the endpoint it has,      *)
(* unless an RPC about the node is at work.                                *)
(***************************************************************************)
THEOREM ListenersKnowHolds == Spec => []ListenersKnowRegistered
<1>1. RegistryInv => ListenersKnowRegistered
    BY DEF RegistryInv
<1>. QED
    BY <1>1, RegistryInvariant, PTL

(***************************************************************************)
(* Who is about to be told stays so until told, or is told already.        *)
(***************************************************************************)
AboutToTell(r, n, l) ==
    rpcs[r].pc = "deleting" /\ rpcs[r].node = n /\ l \in rpcs[r].left

LEMMA StaysInformed ==
    ASSUME NEW n \in Node, NEW l \in Listener, ~LeftBehind(n, l),
           nodeClients'[n] = nodeClients[n], known'[l][n] = known[l][n],
           \A q \in Rpc : AboutToTell(q, n, l) => AboutToTell(q, n, l)'
    PROVE  ~LeftBehind(n, l)'
BY DEF LeftBehind, AboutToTell

(***************************************************************************)
(* A listener is left behind with a node that is gone only by a failing    *)
(* registration of the node, for any nodes, listeners, RPCs and hashing.   *)
(***************************************************************************)
THEOREM OnlyFailuresLeaveBehindHolds == Spec => OnlyFailuresLeaveBehind
<1>. DEFINE Behind(n, l) ==
         (~LeftBehind(n, l) /\ LeftBehind(n, l)') =>
             \E r \in Rpc : RegisterControllerFails(r) /\ rpcs[r].node = n
<1>1. ASSUME TypeOK, [Next]_vars, NEW n \in Node, NEW l \in Listener
      PROVE  Behind(n, l)
    <2>. SUFFICES ASSUME ~LeftBehind(n, l), LeftBehind(n, l)'
                  PROVE  \E r \in Rpc :
                             RegisterControllerFails(r) /\ rpcs[r].node = n
        OBVIOUS
    <2>. USE <1>1
    <2>1. nodeClients'[n] = Absent /\ known'[l][n] # Absent
        BY DEF LeftBehind
    <2>2. CASE UNCHANGED vars
        BY <2>2 DEF vars, LeftBehind
    <2>3. CASE Restart
        BY <2>1, <2>3 DEF Restart
    <2>4. ASSUME NEW r \in Rpc,
                 \/ RegisterController(r) \/ UnregisterController(r)
                 \/ RegisterControllerFound(r) \/ RegisterControllerReturns(r)
                 \/ UnregisterControllerReturns(r)
                 \/ \E m \in Listener : OnNodeAddedFails(r, m)
          PROVE  FALSE
        <3>1. UNCHANGED <<nodeClients, known>>
            BY <2>4
            DEF RegisterController, UnregisterController,
                RegisterControllerFound, RegisterControllerReturns,
                UnregisterControllerReturns, OnNodeAddedFails
        <3>2. \A q \in Rpc \ {r} : rpcs'[q] = rpcs[q]
            BY <2>4
            DEF RegisterController, UnregisterController,
                RegisterControllerFound, RegisterControllerReturns,
                UnregisterControllerReturns, OnNodeAddedFails, TypeOK
        <3>3. ~AboutToTell(r, n, l)
            BY <2>4
            DEF RegisterController, UnregisterController,
                RegisterControllerFound, RegisterControllerReturns,
                UnregisterControllerReturns, OnNodeAddedFails, AboutToTell
        <3>. QED
            BY <3>1, <3>2, <3>3, StaysInformed DEF AboutToTell
    <2>5. ASSUME NEW r \in Rpc, RegisterControllerUpdates(r)
          PROVE  FALSE
        <3>1. rpcs[r].endpoint # Absent
            BY <2>5, RpcFields, RegistryAssumption DEF RegisterControllerUpdates
        <3>2. rpcs[r].node # n
            BY <2>1, <2>5, <3>1 DEF RegisterControllerUpdates, TypeOK
        <3>3. nodeClients'[n] = nodeClients[n] /\ known' = known
            BY <2>5, <3>2 DEF RegisterControllerUpdates, TypeOK
        <3>4. \A q \in Rpc : AboutToTell(q, n, l) => rpcs'[q] = rpcs[q]
            BY <2>5 DEF RegisterControllerUpdates, AboutToTell, TypeOK
        <3>. QED
            BY <3>3, <3>4, StaysInformed DEF AboutToTell
    <2>6. ASSUME NEW r \in Rpc, UnregisterControllerRemoves(r)
          PROVE  FALSE
        <3>1. known' = known
            BY <2>6 DEF UnregisterControllerRemoves
        <3>2. \A q \in Rpc : AboutToTell(q, n, l) => rpcs'[q] = rpcs[q]
            BY <2>6 DEF UnregisterControllerRemoves, AboutToTell, TypeOK
        <3>3. CASE rpcs[r].node = n /\ nodeClients[n] # Absent
            <4>1. AboutToTell(r, n, l)'
                BY <2>6, <3>3
                DEF UnregisterControllerRemoves, AboutToTell, TypeOK
            <4>. QED
                BY <4>1 DEF LeftBehind, AboutToTell
        <3>4. CASE rpcs[r].node # n \/ nodeClients[n] = Absent
            <4>1. nodeClients'[n] = nodeClients[n]
                BY <2>6, <3>4 DEF UnregisterControllerRemoves, TypeOK
            <4>. QED
                BY <3>1, <3>2, <4>1, StaysInformed DEF AboutToTell
        <3>. QED
            BY <3>3, <3>4
    <2>7. ASSUME NEW r \in Rpc, NEW m \in Listener, OnNodeAdded(r, m)
          PROVE  FALSE
        <3>1. nodeClients' = nodeClients /\ rpcs[r].node # n
            BY <2>1, <2>7 DEF OnNodeAdded, GetNodeController
        <3>2. known'[l][n] = known[l][n]
            BY <2>7, <3>1 DEF OnNodeAdded, TypeOK
        <3>3. \A q \in Rpc : AboutToTell(q, n, l) => rpcs'[q] = rpcs[q]
            BY <2>7 DEF OnNodeAdded, AboutToTell, TypeOK
        <3>. QED
            BY <3>1, <3>2, <3>3, StaysInformed DEF AboutToTell
    <2>8. ASSUME NEW r \in Rpc, NEW m \in Listener, OnNodeDeleted(r, m)
          PROVE  FALSE
        <3>1. nodeClients' = nodeClients /\ ~(rpcs[r].node = n /\ m = l)
            BY <2>1, <2>8 DEF OnNodeDeleted, TypeOK
        <3>2. known'[l][n] = known[l][n]
            BY <2>8, <3>1 DEF OnNodeDeleted, TypeOK
        <3>3. /\ rpcs'[r].pc = "deleting" /\ rpcs'[r].node = rpcs[r].node
              /\ rpcs'[r].left = rpcs[r].left \ {m}
              /\ \A q \in Rpc \ {r} : rpcs'[q] = rpcs[q]
            BY <2>8, RpcFields DEF OnNodeDeleted, TypeOK, RpcState
        <3>. QED
            BY <3>1, <3>2, <3>3, StaysInformed DEF AboutToTell
    <2>9. ASSUME NEW r \in Rpc, RegisterControllerFails(r)
          PROVE  rpcs[r].node = n
        <3>. SUFFICES ASSUME rpcs[r].node # n
                      PROVE  FALSE
            OBVIOUS
        <3>1. nodeClients'[n] = nodeClients[n] /\ known' = known
            BY <2>9 DEF RegisterControllerFails, TypeOK
        <3>2. \A q \in Rpc : AboutToTell(q, n, l) => rpcs'[q] = rpcs[q]
            BY <2>9 DEF RegisterControllerFails, AboutToTell, TypeOK
        <3>. QED
            BY <3>1, <3>2, StaysInformed DEF AboutToTell
    <2>. QED
        BY <2>2, <2>3, <2>4, <2>5, <2>6, <2>7, <2>8, <2>9
        DEF Next, RpcSteps, RpcLocks, RpcWorks
<1>2. RegistryInv /\ [Next]_vars =>
          [\A n \in Node, l \in Listener : Behind(n, l)]_vars
    BY <1>1 DEF RegistryInv
<1>. QED
    BY <1>2, RegistryInvariant, PTL DEF Spec, OnlyFailuresLeaveBehind

-----------------------------------------------------------------------------
(***************************************************************************)
(* The registry implements NodeRegistry.  The change of a node is that of  *)
(* the one RPC at work on it, so a step of an RPC is a step of its node    *)
(* and leaves the changes of the other nodes alone.                        *)
(***************************************************************************)
ChangesAre ==
    /\ \A n \in Node :
           (\A r \in Rpc : AtWork(r) => rpcs[r].node # n)
           => changes[n] = NoChange
    /\ \A r \in Rpc : AtWork(r) => changes[rpcs[r].node] = ChangeOf(r)

LEMMA OneChangeOfEach == RegistryInv => ChangesAre
<1>. SUFFICES ASSUME RegistryInv
              PROVE  ChangesAre
    OBVIOUS
<1>1. ASSUME NEW n \in Node, \A r \in Rpc : AtWork(r) => rpcs[r].node # n
      PROVE  changes[n] = NoChange
    BY <1>1 DEF changes, Workers
<1>2. ASSUME NEW r \in Rpc, AtWork(r)
      PROVE  changes[rpcs[r].node] = ChangeOf(r)
    <2>1. rpcs[r].node \in Node
        BY <1>2, WorkerOnNode DEF RegistryInv
    <2>2. Workers(rpcs[r].node) = {r}
        BY <1>2, LocksExclude DEF RegistryInv, CallbacksExclude, Workers
    <2>3. Worker(rpcs[r].node) = r
        BY <2>2 DEF Worker
    <2>. QED
        BY <2>1, <2>2, <2>3 DEF changes
<1>. QED
    BY <1>1, <1>2 DEF ChangesAre

\* A node that an RPC works on neither before nor after its step.
LEMMA OthersKeep ==
    ASSUME ChangesAre, ChangesAre', NEW r \in Rpc, NEW m \in Node,
           \A q \in Rpc \ {r} : rpcs'[q] = rpcs[q],
           AtWork(r) => rpcs[r].node # m,
           AtWork(r)' => rpcs'[r].node # m
    PROVE  changes'[m] = changes[m]
<1>1. CASE \E q \in Rpc : AtWork(q) /\ rpcs[q].node = m
    <2>1. PICK q \in Rpc \ {r} : AtWork(q) /\ rpcs[q].node = m
        BY <1>1
    <2>2. rpcs'[q] = rpcs[q] /\ AtWork(q)'
        BY <2>1 DEF AtWork
    <2>3. changes'[m] = ChangeOf(q)' /\ changes[m] = ChangeOf(q)
        BY <2>1, <2>2 DEF ChangesAre
    <2>. QED
        BY <2>2, <2>3 DEF ChangeOf
<1>2. CASE \A q \in Rpc : AtWork(q) => rpcs[q].node # m
    <2>1. \A q \in Rpc : AtWork(q)' => rpcs'[q].node # m
        BY <1>2 DEF AtWork
    <2>. QED
        BY <1>2, <2>1 DEF ChangesAre, NoChange
<1>. QED
    BY <1>1, <1>2

\* An RPC that is at work neither before nor after its step changes nothing.
LEMMA IdleKeepsChanges ==
    ASSUME ChangesAre, ChangesAre', NEW r \in Rpc,
           \A q \in Rpc \ {r} : rpcs'[q] = rpcs[q],
           ~AtWork(r), ~AtWork(r)'
    PROVE  changes' = changes
<1>1. \A m \in Node : changes'[m] = changes[m]
    BY OthersKeep
<1>. QED
    BY <1>1 DEF changes

(***************************************************************************)
(* A step of an RPC that works on one node, before it, after it or both,   *)
(* while no other RPC works on the node.                                   *)
(***************************************************************************)
LEMMA WorkerChanges ==
    ASSUME ChangesAre, ChangesAre', NEW r \in Rpc, NEW n \in Node,
           \A q \in Rpc \ {r} :
               /\ rpcs'[q] = rpcs[q]
               /\ AtWork(q) => rpcs[q].node # n,
           AtWork(r) => rpcs[r].node = n,
           AtWork(r)' => rpcs'[r].node = n
    PROVE  /\ AtWork(r)' => changes' = [changes EXCEPT ![n] = ChangeOf(r)']
           /\ ~AtWork(r)' => changes' = [changes EXCEPT ![n] = NoChange]
<1>1. \A m \in Node \ {n} : changes'[m] = changes[m]
    BY OthersKeep
<1>2. AtWork(r)' => changes'[n] = ChangeOf(r)'
    BY DEF ChangesAre
<1>3. ~AtWork(r)' => changes'[n] = NoChange
    <2>1. ASSUME ~AtWork(r)'
          PROVE  \A q \in Rpc : AtWork(q)' => rpcs'[q].node # n
        BY <2>1 DEF AtWork
    <2>. QED
        BY <2>1 DEF ChangesAre, NoChange
<1>4. /\ changes = [m \in Node |-> changes[m]]
      /\ changes' = [m \in Node |-> changes'[m]]
    BY DEF changes
<1>. QED
    BY <1>1, <1>2, <1>3, <1>4

\* The RPC at work on a node is the only one.
LEMMA AloneAtWork ==
    ASSUME RegistryInv, NEW r \in Rpc, AtWork(r)
    PROVE  /\ rpcs[r].node \in Node
           /\ \A q \in Rpc \ {r} : AtWork(q) => rpcs[q].node # rpcs[r].node
           /\ changes[rpcs[r].node] = ChangeOf(r)
BY WorkerOnNode, LocksExclude, OneChangeOfEach
   DEF RegistryInv, CallbacksExclude, ChangesAre

\* While the mutex of a node is free, no RPC is at work on the node.
LEMMA NobodyAtWork ==
    ASSUME RegistryInv, NEW n \in Node, rpcMutex[BucketOf[n]] = Free
    PROVE  /\ \A q \in Rpc : AtWork(q) => rpcs[q].node # n
           /\ changes[n] = NoChange
<1>1. \A q \in Rpc : AtWork(q) => rpcs[q].node # n
    BY RegistryAssumption DEF RegistryInv, LocksHeld
<1>. QED
    BY <1>1, OneChangeOfEach DEF ChangesAre

-----------------------------------------------------------------------------
\* Taking the lock is the first step of the change.
LEMMA LockingImplements ==
    ASSUME RegistryInv, ChangesAre', NEW r \in Rpc,
           RegisterControllerUpdates(r) \/ UnregisterControllerRemoves(r)
    PROVE  Registry!Next
<1>. DEFINE n == rpcs[r].node
<1>1. n \in Node /\ (rpcs[r].pc = "registerLock" => rpcs[r].endpoint \in Endpoint)
    BY RpcFields
    DEF RegisterControllerUpdates, UnregisterControllerRemoves, RegistryInv
<1>2. /\ \A q \in Rpc \ {r} : rpcs'[q] = rpcs[q]
      /\ ~AtWork(r) /\ AtWork(r)' /\ rpcs'[r].node = n
    BY DEF RegisterControllerUpdates, UnregisterControllerRemoves, AtWork,
           RegistryInv, TypeOK
<1>3. (\A q \in Rpc : AtWork(q) => rpcs[q].node # n) /\ changes[n] = NoChange
    BY <1>1, NobodyAtWork
    DEF RegisterControllerUpdates, UnregisterControllerRemoves
<1>4. changes' = [changes EXCEPT ![n] = ChangeOf(r)']
    BY <1>1, <1>2, <1>3, WorkerChanges, OneChangeOfEach
<1>5. CASE RegisterControllerUpdates(r)
    <2>1. ChangeOf(r)' = [phase |-> "adding", left |-> Listener]
        BY <1>5 DEF RegisterControllerUpdates, ChangeOf, RegistryInv, TypeOK
    <2>2. Registry!Register(n, rpcs[r].endpoint)
        BY <1>3, <1>4, <1>5, <2>1
        DEF RegisterControllerUpdates, Registry!Register, Registry!Settled, NoChange
    <2>. QED
        BY <1>1, <1>5, <2>2 DEF RegisterControllerUpdates, Registry!Next
<1>6. CASE UnregisterControllerRemoves(r)
    <2>1. ChangeOf(r)' =
              [phase |-> "deleting",
               left |-> IF nodeClients[n] = Absent THEN {} ELSE Listener]
        BY <1>6 DEF UnregisterControllerRemoves, ChangeOf, RegistryInv, TypeOK
    <2>2. Registry!Unregister(n)
        BY <1>3, <1>4, <1>6, <2>1
        DEF UnregisterControllerRemoves, Registry!Unregister, Registry!Settled,
            NoChange
    <2>. QED
        BY <1>1, <2>2 DEF Registry!Next
<1>. QED
    BY <1>5, <1>6

\* A callback tells one listener of the change, or ends it with a failure.
LEMMA CallbackImplements ==
    ASSUME RegistryInv, ChangesAre', NEW r \in Rpc, NEW l \in Listener,
           OnNodeAdded(r, l) \/ OnNodeAddedFails(r, l) \/ OnNodeDeleted(r, l)
    PROVE  Registry!Next
<1>. DEFINE n == rpcs[r].node
<1>1. /\ \A q \in Rpc \ {r} : rpcs'[q] = rpcs[q]
      /\ AtWork(r) /\ AtWork(r)' /\ rpcs'[r].node = n
      /\ l \in rpcs[r].left
    <2>1. CASE OnNodeAdded(r, l)
        BY <2>1, RpcFields DEF OnNodeAdded, AtWork, RegistryInv, TypeOK
    <2>2. CASE OnNodeAddedFails(r, l)
        BY <2>2 DEF OnNodeAddedFails, AtWork, RegistryInv, TypeOK
    <2>3. CASE OnNodeDeleted(r, l)
        BY <2>3, RpcFields DEF OnNodeDeleted, AtWork, RegistryInv, TypeOK
    <2>. QED
        BY <2>1, <2>2, <2>3
<1>2. /\ n \in Node
      /\ \A q \in Rpc \ {r} : AtWork(q) => rpcs[q].node # n
      /\ changes[n] = ChangeOf(r)
    BY <1>1, AloneAtWork
<1>3. changes' = [changes EXCEPT ![n] = ChangeOf(r)']
    BY <1>1, <1>2, WorkerChanges, OneChangeOfEach
<1>4. CASE OnNodeAdded(r, l)
    <2>1. rpcs[r].pc = "adding" /\ rpcs'[r].pc = "adding"
        BY <1>4, RpcFields DEF OnNodeAdded, RegistryInv, TypeOK
    <2>2. rpcs'[r].left = rpcs[r].left \ {l}
        BY <1>4, RpcFields DEF OnNodeAdded, RegistryInv, TypeOK
    <2>3. /\ changes[n] = [phase |-> "adding", left |-> rpcs[r].left]
          /\ ChangeOf(r)' = [phase |-> "adding", left |-> rpcs[r].left \ {l}]
        BY <1>2, <2>1, <2>2 DEF ChangeOf
    <2>4. [changes EXCEPT ![n].left = @ \ {l}]
              = [changes EXCEPT ![n] = [phase |-> "adding",
                                        left |-> rpcs[r].left \ {l}]]
        <3>. HIDE DEF n
        <3>1. [[phase |-> "adding", left |-> rpcs[r].left]
                  EXCEPT !.left = rpcs[r].left \ {l}]
                  = [phase |-> "adding", left |-> rpcs[r].left \ {l}]
            OBVIOUS
        <3>2. changes[n].left = rpcs[r].left
            BY <2>3
        <3>3. [changes EXCEPT ![n].left = @ \ {l}]
                  = [changes EXCEPT
                         ![n] = [changes[n] EXCEPT !.left = rpcs[r].left \ {l}]]
            BY <3>2
        <3>. QED
            BY <2>3, <3>1, <3>3
    <2>5. Registry!Tell(n, l)
        BY <1>1, <1>3, <1>4, <2>3, <2>4
        DEF OnNodeAdded, GetNodeController, Registry!Tell
    <2>. QED
        BY <1>2, <2>5 DEF Registry!Next
<1>5. CASE OnNodeAddedFails(r, l)
    <2>1. /\ changes[n] = [phase |-> "adding", left |-> rpcs[r].left]
          /\ ChangeOf(r)' = [phase |-> "failed", left |-> {}]
        BY <1>2, <1>5 DEF OnNodeAddedFails, ChangeOf, RegistryInv, TypeOK
    <2>2. Registry!Refuse(n)
        BY <1>1, <1>3, <1>5, <2>1 DEF OnNodeAddedFails, Registry!Refuse
    <2>. QED
        BY <1>2, <2>2 DEF Registry!Next
<1>6. CASE OnNodeDeleted(r, l)
    <2>1. rpcs[r].pc = "deleting" /\ rpcs'[r].pc = "deleting"
        BY <1>6, RpcFields DEF OnNodeDeleted, RegistryInv, TypeOK
    <2>2. rpcs'[r].left = rpcs[r].left \ {l}
        BY <1>6, RpcFields DEF OnNodeDeleted, RegistryInv, TypeOK
    <2>3. /\ changes[n] = [phase |-> "deleting", left |-> rpcs[r].left]
          /\ ChangeOf(r)' = [phase |-> "deleting", left |-> rpcs[r].left \ {l}]
        BY <1>2, <2>1, <2>2 DEF ChangeOf
    <2>4. [changes EXCEPT ![n].left = @ \ {l}]
              = [changes EXCEPT ![n] = [phase |-> "deleting",
                                        left |-> rpcs[r].left \ {l}]]
        <3>. HIDE DEF n
        <3>1. [[phase |-> "deleting", left |-> rpcs[r].left]
                  EXCEPT !.left = rpcs[r].left \ {l}]
                  = [phase |-> "deleting", left |-> rpcs[r].left \ {l}]
            OBVIOUS
        <3>2. changes[n].left = rpcs[r].left
            BY <2>3
        <3>3. [changes EXCEPT ![n].left = @ \ {l}]
                  = [changes EXCEPT
                         ![n] = [changes[n] EXCEPT !.left = rpcs[r].left \ {l}]]
            BY <3>2
        <3>. QED
            BY <2>3, <3>1, <3>3
    <2>5. Registry!Forget(n, l)
        BY <1>1, <1>3, <1>6, <2>3, <2>4
        DEF OnNodeDeleted, Registry!Forget
    <2>. QED
        BY <1>2, <2>5 DEF Registry!Next
<1>. QED
    BY <1>4, <1>5, <1>6

\* An RPC that returns settles its node, or takes it out again.
LEMMA ReturnImplements ==
    ASSUME RegistryInv, ChangesAre', NEW r \in Rpc,
           \/ RegisterControllerFails(r) \/ RegisterControllerReturns(r)
           \/ UnregisterControllerReturns(r)
    PROVE  Registry!Next
<1>. DEFINE n == rpcs[r].node
<1>1. /\ \A q \in Rpc \ {r} : rpcs'[q] = rpcs[q]
      /\ AtWork(r) /\ ~AtWork(r)'
    BY DEF RegisterControllerFails, RegisterControllerReturns,
           UnregisterControllerReturns, AtWork, Idle, RegistryInv, TypeOK
<1>2. /\ n \in Node
      /\ \A q \in Rpc \ {r} : AtWork(q) => rpcs[q].node # n
      /\ changes[n] = ChangeOf(r)
    BY <1>1, AloneAtWork
<1>3. changes' = [changes EXCEPT ![n] = NoChange]
    BY <1>1, <1>2, WorkerChanges, OneChangeOfEach
<1>4. CASE RegisterControllerFails(r)
    <2>1. Registry!Undo(n)
        BY <1>2, <1>3, <1>4
        DEF RegisterControllerFails, ChangeOf, NoChange, Registry!Undo,
            Registry!Settled
    <2>. QED
        BY <1>2, <2>1 DEF Registry!Next
<1>5. CASE RegisterControllerReturns(r) \/ UnregisterControllerReturns(r)
    <2>1. Registry!Settle(n)
        BY <1>2, <1>3, <1>5
        DEF RegisterControllerReturns, UnregisterControllerReturns, ChangeOf,
            NoChange, Registry!Settle, Registry!Settled
    <2>. QED
        BY <1>2, <2>1 DEF Registry!Next
<1>. QED
    BY <1>4, <1>5

\* No RPC is at work in a process that starts.
LEMMA StartImplements == Init => Registry!Init
<1>. SUFFICES ASSUME Init
              PROVE  Registry!Init
    OBVIOUS
<1>1. \A n \in Node : Workers(n) = {}
    BY DEF Init, Workers, AtWork, Idle
<1>2. changes = [n \in Node |-> Registry!Settled]
    BY <1>1 DEF changes, NoChange, Registry!Settled
<1>. QED
    BY <1>2 DEF Init, Registry!Init, Registry!Nobody

LEMMA RegistryStepImplements ==
    RegistryInv /\ RegistryInv' /\ [Next]_vars
        => [Registry!Next]_(Registry!registryVars)
<1>. SUFFICES ASSUME RegistryInv, RegistryInv', [Next]_vars
              PROVE  Registry!Next \/ UNCHANGED Registry!registryVars
    OBVIOUS
<1>0. ChangesAre /\ ChangesAre'
    BY OneChangeOfEach, PTL
<1>1. CASE UNCHANGED vars
    BY <1>1 DEF vars, Registry!registryVars, changes, Workers, Worker, ChangeOf,
                AtWork
<1>2. CASE Restart
    <2>1. \A n \in Node : Workers(n)' = {}
        BY <1>2 DEF Restart, Workers, AtWork, Idle
    <2>2. changes' = [n \in Node |-> Registry!Settled]
        BY <2>1 DEF changes, NoChange, Registry!Settled
    <2>. QED
        BY <1>2, <2>2 DEF Restart, Registry!Next, Registry!Reset, Registry!Nobody
<1>3. ASSUME NEW r \in Rpc,
             \/ RegisterController(r) \/ UnregisterController(r)
             \/ RegisterControllerFound(r)
      PROVE  UNCHANGED Registry!registryVars
    <2>1. /\ UNCHANGED <<nodeClients, known>>
          /\ \A q \in Rpc \ {r} : rpcs'[q] = rpcs[q]
          /\ ~AtWork(r) /\ ~AtWork(r)'
        BY <1>3 DEF RegisterController, UnregisterController,
                    RegisterControllerFound, AtWork, Idle, RegistryInv, TypeOK
    <2>2. changes' = changes
        BY <1>0, <2>1, IdleKeepsChanges
    <2>. QED
        BY <2>1, <2>2 DEF Registry!registryVars
<1>4. ASSUME NEW r \in Rpc,
             \/ RegisterControllerUpdates(r) \/ UnregisterControllerRemoves(r)
             \/ RpcWorks(r)
      PROVE  Registry!Next
    BY <1>0, <1>4, LockingImplements, CallbackImplements, ReturnImplements
    DEF RpcWorks
<1>. QED
    BY <1>1, <1>2, <1>3, <1>4 DEF Next, RpcSteps, RpcLocks

(***************************************************************************)
(* The registry implements NodeRegistry, for any number of RPCs and for    *)
(* any sharing of mutexes: a node has one change under way at most, it is  *)
(* recorded before the callbacks, and each listener is called for it once. *)
(***************************************************************************)
THEOREM NodeRegistryImplemented == Spec => ImplementsNodeRegistry
BY StartImplements, RegistryStepImplements, RegistryInvariant, PTL
   DEF Spec, ImplementsNodeRegistry, Registry!Spec

-----------------------------------------------------------------------------
(***************************************************************************)
(* GetCapacity.  Sums of node capacities are products with cardinalities.  *)
(***************************************************************************)

\* More nodes do not have a smaller capacity, and one more has that of one.
LEMMA ProductGrows ==
    ASSUME NEW m \in Nat, NEW n \in Nat
    PROVE  /\ m <= n => NodeCapacity * m <= NodeCapacity * n
           /\ NodeCapacity * (m + 1) = NodeCapacity * m + NodeCapacity
           /\ NodeCapacity * m \in Nat
BY CapacityAssumption

\* An answer is added to a sum of nodes that it is not one of.
LEMMA AnswerCounts ==
    ASSUME NEW nodes \in SUBSET Node, NEW n \in Node, n \notin nodes
    PROVE  NodeCapacity * Cardinality(nodes \cup {n})
               = NodeCapacity * Cardinality(nodes) + NodeCapacity
<1>1. IsFiniteSet(nodes)
    BY CapacityAssumption, FS_Subset
<1>2. Cardinality(nodes \cup {n}) = Cardinality(nodes) + 1
    BY <1>1, FS_AddElement
<1>3. Cardinality(nodes) \in Nat
    BY <1>1, FS_CardinalityType
<1>. QED
    BY <1>2, <1>3, ProductGrows

\* A query that begins has nothing in its sum.
LEMMA BegunQuery ==
    ASSUME NEW nodes \in SUBSET Registered, NEW pool \in BOOLEAN,
           ~pool => \A m, n \in nodes : m = n
    PROVE  QueryInv(Begun("lookup", "OK", pool, nodes))
<1>. DEFINE query == Begun("lookup", "OK", pool, nodes)
<1>1. query \in QueryState
    BY DEF Begun, QueryState, Registered
<1>2. /\ query.pc = "lookup" /\ query.code = "OK" /\ query.pool = pool
      /\ query.left = nodes /\ query.asked = {} /\ query.capacity = 0
      /\ query.since = nodes /\ query.steady = nodes /\ query.failed = {}
    BY DEF Begun
<1>3. Settled(query) = {}
    BY <1>2 DEF Settled
<1>4. NodeCapacity * Cardinality({}) = 0
    BY CapacityAssumption, FS_EmptySet
<1>5. Answered(query)
    BY <1>2, <1>3, <1>4 DEF Answered
<1>. QED
    BY <1>1, <1>2, <1>5 DEF QueryInv

LEMMA NoQueryInv == QueryInv(NoQuery)
<1>1. NoQuery \in QueryState
    BY DEF NoQuery, Begun, QueryState
<1>2. /\ NoQuery.pc = "idle" /\ NoQuery.code = "Internal"
      /\ NoQuery.left = {} /\ NoQuery.asked = {} /\ NoQuery.since = {}
      /\ NoQuery.steady = {} /\ NoQuery.failed = {}
    BY DEF NoQuery, Begun
<1>. QED
    BY <1>1, <1>2 DEF QueryInv

\* What is answered for a query when a node comes or goes, or none is asked.
Same(before, after) ==
    /\ after.capacity = before.capacity
    /\ Settled(after) = Settled(before)
    /\ after.steady \subseteq before.steady

LEMMA SameAnswered ==
    ASSUME NEW before, NEW after, Same(before, after), Answered(before)
    PROVE  Answered(after)
BY DEF Same, Answered

\* The node that is asked next was among those that were left.
LEMMA ConnectsCounts ==
    ASSUME NEW q \in Query, NEW query, QueryInv(query), query.pc = "lookup",
           NEW n \in query.left
    PROVE  QueryInv([query EXCEPT !.pc = "asking", !.left = @ \ {n},
                                  !.asked = {n}])
<1>. DEFINE next == [query EXCEPT !.pc = "asking", !.left = @ \ {n}, !.asked = {n}]
<1>1. next \in QueryState /\ n \in Node
    BY DEF QueryInv, QueryState
<1>2. /\ next.pc = "asking" /\ next.code = query.code /\ next.pool = query.pool
      /\ next.left = query.left \ {n} /\ next.asked = {n}
      /\ next.capacity = query.capacity /\ next.since = query.since
      /\ next.steady = query.steady /\ next.failed = query.failed
    BY DEF QueryInv, QueryState
<1>. HIDE DEF next
<1>3. Settled(next) = Settled(query)
    BY <1>2 DEF Settled, QueryInv
<1>4. Answered(next)
    BY <1>2, <1>3, SameAnswered DEF Same, QueryInv
<1>5. query.left \cap query.failed = {} /\ query.code = "OK" /\ n \in query.since
    BY DEF QueryInv
<1>. QED
    BY <1>1, <1>2, <1>4, <1>5 DEF QueryInv, next

\* A node that cannot be asked: the sum goes on without it.
LEMMA PoolWithout ==
    ASSUME NEW query, QueryInv(query), NEW next \in QueryState,
           query.pool, next.pool = query.pool,
           NEW n, n \in query.left \cup query.asked,
           query.pc = "lookup" =>
               n \notin query.steady /\ next.failed = query.failed,
           query.pc = "asking" =>
               query.asked = {n} /\ next.failed = query.failed \cup {n},
           query.pc # "idle", next.pc = "lookup", next.code = query.code,
           next.left = query.left \ {n}, next.asked = {},
           next.capacity = query.capacity, next.since = query.since,
           next.steady = query.steady
    PROVE  QueryInv(next)
<1>1. query.code = "OK" /\ Answered(query) /\ query.steady \subseteq Registered
    BY DEF QueryInv
<1>2. query.pc = "lookup" \/ query.pc = "asking"
    BY DEF QueryInv, QueryState
<1>3. /\ Settled(query) \subseteq Settled(next)
      /\ Settled(next) \cap next.steady \subseteq Settled(query) \cap query.steady
    BY <1>2 DEF Settled, QueryInv
<1>4. Answered(next)
    BY <1>1, <1>3 DEF Answered
<1>5. /\ next.left \cup next.asked \cup next.failed \subseteq next.since
      /\ next.failed \cap (next.left \cup next.asked) = {}
    BY <1>2 DEF QueryInv
<1>6. /\ next.steady \subseteq next.since
      /\ ~next.pool => \A m, k \in next.since : m = k
    BY DEF QueryInv
<1>. QED
    BY <1>1, <1>4, <1>5, <1>6 DEF QueryInv

\* The one node that was to be asked: the query fails, and it with it.
LEMMA SingleWithout ==
    ASSUME NEW query, QueryInv(query), NEW next \in QueryState, ~query.pool,
           NEW n, n \in query.left \cup query.asked, query.pc # "idle",
           next.failed \in {query.failed, query.failed \cup query.asked},
           n \notin query.steady \/ n \in next.failed,
           next.pc = "idle", next.code = "Internal",
           next.pool = query.pool, next.left = {}, next.asked = {},
           next.since = query.since, next.steady = query.steady
    PROVE  QueryInv(next)
<1>1. /\ n \in query.since /\ query.steady \subseteq {n}
      /\ \A m, k \in next.since : m = k
    BY DEF QueryInv
<1>2. next.steady \subseteq next.failed
    BY <1>1
<1>3. next.failed \subseteq next.since /\ next.steady \subseteq next.since
    BY DEF QueryInv
<1>. QED
    BY <1>1, <1>2, <1>3 DEF QueryInv

\* A node answers: it was not in the sum.
LEMMA AnswersCounts ==
    ASSUME NEW query, QueryInv(query), query.pc = "asking",
           NEW next \in QueryState, next.pc = "lookup", next.code = query.code,
           next.pool = query.pool, next.left = query.left, next.asked = {},
           next.capacity = query.capacity + NodeCapacity,
           next.since = query.since, next.steady = query.steady,
           next.failed = query.failed
    PROVE  QueryInv(next)
<1>1. query.code = "OK" /\ Answered(query) /\ query.steady \subseteq Registered
    BY DEF QueryInv
<1>2. PICK n \in query.since : query.asked = {n}
    BY DEF QueryInv
<1>3. n \in Node /\ n \notin query.left /\ n \notin query.failed
    BY <1>2 DEF QueryInv, QueryState
<1>4. Settled(next) = Settled(query) \cup {n} /\ n \notin Settled(query)
    BY <1>2, <1>3 DEF Settled
<1>5. PICK nodes \in SUBSET Settled(query) :
          /\ Settled(query) \cap query.steady \subseteq nodes
          /\ query.capacity = NodeCapacity * Cardinality(nodes)
    BY <1>1 DEF Answered
<1>6. nodes \in SUBSET Node /\ n \notin nodes
    BY <1>4, <1>5 DEF Settled, QueryInv, QueryState
<1>7. next.capacity = NodeCapacity * Cardinality(nodes \cup {n})
    BY <1>3, <1>5, <1>6, AnswerCounts
<1>8. /\ nodes \cup {n} \in SUBSET Settled(next)
      /\ Settled(next) \cap next.steady \subseteq nodes \cup {n}
    BY <1>4, <1>5
<1>9. Answered(next)
    BY <1>7, <1>8 DEF Answered
<1>. QED
    BY <1>1, <1>9 DEF QueryInv

\* Nodes come and go, or the query returns: the sum stays.
LEMMA SumStays ==
    ASSUME NEW query, QueryInv(query), NEW next \in QueryState,
           next.code = query.code, next.pool = query.pool,
           next.left = query.left, next.asked = query.asked,
           next.capacity = query.capacity, next.since = query.since,
           next.failed = query.failed, next.steady \subseteq query.steady,
           \/ next.pc = query.pc
           \/ query.pc = "lookup" /\ query.left = {} /\ next.pc = "idle"
    PROVE  /\ next.code = "OK" => Answered(next)
           /\ next.code = "Internal" => next.steady \subseteq next.failed
<1>1. Settled(next) = Settled(query)
    BY DEF Settled, QueryInv
<1>2. next.code = "OK" => Answered(next)
    BY <1>1, SameAnswered DEF Same, QueryInv
<1>. QED
    BY <1>2 DEF QueryInv

-----------------------------------------------------------------------------
\* Every step of a query keeps what the invariant says of it.
LEMMA QueryStep ==
    ASSUME CapacityInv, NEW q \in Query,
           GetPoolCapacity(q) \/ GetTopologyCapacity(q) \/ QueryWorks(q)
    PROVE  CapacityInv'
<1>1. Registered' = Registered /\ QueryInv(queries[q])
    BY DEF CapacityInv, GetPoolCapacity, GetTopologyCapacity, QueryWorks,
           Connects, ConnectsInVain, Fails, Answers, Returns, vars, Registered,
           GetNodeController
<1>2. SUFFICES \E next : /\ queries' = [queries EXCEPT ![q] = next]
                         /\ QueryInv(next)
    <2>1. ASSUME NEW next PROVE QueryInv(next) => QueryInv(next)'
        BY <1>1 DEF QueryInv, Answered, Settled
    <2>3. PICK next : queries' = [queries EXCEPT ![q] = next] /\ QueryInv(next)
        BY <1>2
    <2>4. ASSUME NEW p \in Query
          PROVE  queries'[p] = IF p = q THEN next ELSE queries[p]
        BY <2>3 DEF CapacityInv
    <2>5. ASSUME NEW p \in Query PROVE QueryInv(queries'[p])
        BY <2>3, <2>4 DEF CapacityInv
    <2>6. ASSUME NEW p \in Query PROVE QueryInv(queries[p])'
        BY <1>1, <2>5 DEF QueryInv, Answered, Settled
    <2>7. queries' = [p \in Query |-> queries'[p]]
        BY <2>3 DEF CapacityInv
    <2>. QED
        BY <2>6, <2>7 DEF CapacityInv
<1>. DEFINE query == queries[q]
<1>3. query \in QueryState
    BY <1>1 DEF QueryInv
<1>4. CASE GetPoolCapacity(q)
    BY <1>4, BegunQuery DEF GetPoolCapacity
<1>5. CASE GetTopologyCapacity(q)
    <2>1. PICK n \in Node : queries' = [queries EXCEPT ![q] =
              IF n \in Registered THEN Begun("lookup", "OK", FALSE, {n})
                                  ELSE NoQuery]
        BY <1>5 DEF GetTopologyCapacity
    <2>2. n \in Registered => QueryInv(Begun("lookup", "OK", FALSE, {n}))
        BY BegunQuery
    <2>. QED
        BY <2>1, <2>2, NoQueryInv
<1>6. CASE Connects(q)
    <2>1. PICK n \in query.left : queries' = [queries EXCEPT
              ![q].pc = "asking", ![q].left = @ \ {n}, ![q].asked = {n}]
        BY <1>6 DEF Connects
    <2>2. queries' = [queries EXCEPT ![q] = [query EXCEPT
              !.pc = "asking", !.left = @ \ {n}, !.asked = {n}]]
        BY <1>3, <2>1 DEF CapacityInv, QueryState
    <2>3. query.pc = "lookup"
        BY <1>6 DEF Connects
    <2>4. QueryInv([query EXCEPT
              !.pc = "asking", !.left = @ \ {n}, !.asked = {n}])
        BY <1>1, <2>3, ConnectsCounts
    <2>. QED
        BY <2>2, <2>4
<1>7. CASE ConnectsInVain(q)
    <2>1. PICK n \in query.left \ Registered :
              queries' = [queries EXCEPT ![q] = Without(query, {n})]
        BY <1>7 DEF ConnectsInVain, CapacityInv
    <2>. DEFINE next == Without(query, {n})
    <2>2. next \in QueryState
        BY <1>3 DEF Without, QueryState
    <2>3. query.pc = "lookup" /\ n \notin query.steady
        BY <1>1, <1>7, <2>1 DEF ConnectsInVain, QueryInv
    <2>4. CASE query.pool
        <3>1. /\ next.pc = "lookup" /\ next.code = query.code
              /\ next.pool = query.pool /\ next.left = query.left \ {n}
              /\ next.asked = {} /\ next.capacity = query.capacity
              /\ next.since = query.since /\ next.steady = query.steady
              /\ next.failed = query.failed
            BY <1>3, <2>4 DEF Without, QueryState
        <3>. HIDE DEF next
        <3>2. QueryInv(next)
            BY <1>1, <2>1, <2>2, <2>3, <2>4, <3>1, PoolWithout
        <3>. QED
            BY <2>1, <3>2 DEF next
    <2>5. CASE ~query.pool
        <3>1. /\ next.pc = "idle" /\ next.code = "Internal"
              /\ next.pool = query.pool /\ next.left = {} /\ next.asked = {}
              /\ next.since = query.since /\ next.steady = query.steady
              /\ next.failed = query.failed
            BY <1>3, <2>5 DEF Without, QueryState
        <3>. HIDE DEF next
        <3>2. QueryInv(next)
            BY <1>1, <2>1, <2>2, <2>3, <2>5, <3>1, SingleWithout
        <3>. QED
            BY <2>1, <3>2 DEF next
    <2>. QED
        BY <2>4, <2>5
<1>8. CASE Fails(q)
    <2>. DEFINE next == [Without(query, {}) EXCEPT
                            !.failed = query.failed \cup query.asked]
    <2>0. queries' = [queries EXCEPT ![q] = next]
        BY <1>8 DEF Fails
    <2>1. queries' = [queries EXCEPT ![q] = next] /\ query.pc = "asking"
        BY <1>8, <2>0 DEF Fails
    <2>2. next \in QueryState
        BY <1>3 DEF Without, QueryState
    <2>3. PICK n \in query.since : query.asked = {n}
        BY <1>1, <2>1 DEF QueryInv
    <2>4. n \notin query.left
        BY <1>1, <2>3 DEF QueryInv
    <2>5. CASE query.pool
        <3>1. /\ next.pc = "lookup" /\ next.code = query.code
              /\ next.pool = query.pool /\ next.left = query.left \ {n}
              /\ next.asked = {} /\ next.capacity = query.capacity
              /\ next.since = query.since /\ next.steady = query.steady
              /\ next.failed = query.failed \cup {n}
            BY <1>3, <2>3, <2>4, <2>5 DEF Without, QueryState
        <3>. HIDE DEF next
        <3>2. QueryInv(next)
            BY <1>1, <2>1, <2>2, <2>3, <2>5, <3>1, PoolWithout
        <3>. QED
            BY <2>1, <3>2
    <2>6. CASE ~query.pool
        <3>1. /\ next.pc = "idle" /\ next.code = "Internal"
              /\ next.pool = query.pool /\ next.left = {} /\ next.asked = {}
              /\ next.since = query.since /\ next.steady = query.steady
              /\ next.failed = query.failed \cup query.asked
            BY <1>3, <2>6 DEF Without, QueryState
        <3>. HIDE DEF next
        <3>2. QueryInv(next)
            BY <1>1, <2>1, <2>2, <2>3, <2>6, <3>1, SingleWithout
        <3>. QED
            BY <2>1, <3>2
    <2>. QED
        BY <2>5, <2>6
<1>9. CASE Answers(q)
    <2>. DEFINE sum  == query.capacity + NodeCapacity
                next == [query EXCEPT !.pc = "lookup", !.asked = {},
                                      !.capacity = sum]
    <2>0. sum \in Nat
        BY <1>3, CapacityAssumption DEF QueryState
    <2>1. queries' = [queries EXCEPT ![q] = next] /\ query.pc = "asking"
        <3>1. /\ queries' = [queries EXCEPT ![q].pc = "lookup", ![q].asked = {},
                                            ![q].capacity = sum]
              /\ query.pc = "asking"
            BY <1>9 DEF Answers
        <3>. HIDE DEF sum
        <3>. QED
            BY <1>3, <3>1 DEF CapacityInv, QueryState
    <2>2. next \in QueryState
        <3>. HIDE DEF sum
        <3>. QED
            BY <1>3, <2>0 DEF QueryState
    <2>3. /\ next.pc = "lookup" /\ next.code = query.code
          /\ next.pool = query.pool /\ next.left = query.left
          /\ next.asked = {} /\ next.capacity = sum
          /\ next.since = query.since /\ next.steady = query.steady
          /\ next.failed = query.failed
        BY <1>3 DEF QueryState
    <2>. HIDE DEF next
    <2>4. QueryInv(next)
        BY <1>1, <2>1, <2>2, <2>3, AnswersCounts
    <2>. QED
        BY <2>1, <2>4
<1>10. CASE Returns(q)
    <2>. DEFINE next == [query EXCEPT !.pc = "idle"]
    <2>1. /\ queries' = [queries EXCEPT ![q] = next]
          /\ query.pc = "lookup" /\ query.left = {}
        BY <1>3, <1>10 DEF Returns, CapacityInv, QueryState
    <2>2. next \in QueryState
        BY <1>3 DEF QueryState
    <2>3. /\ next.pc = "idle" /\ next.code = query.code
          /\ next.pool = query.pool /\ next.left = query.left
          /\ next.asked = query.asked /\ next.capacity = query.capacity
          /\ next.since = query.since /\ next.steady = query.steady
          /\ next.failed = query.failed
        BY <1>3 DEF QueryState
    <2>. HIDE DEF next
    <2>4. /\ next.code = "OK" => Answered(next)
          /\ next.code = "Internal" => next.steady \subseteq next.failed
        BY <1>1, <2>1, <2>2, <2>3, SumStays
    <2>5. QueryInv(next)
        BY <1>1, <2>1, <2>2, <2>3, <2>4 DEF QueryInv
    <2>. QED
        BY <2>1, <2>5
<1>. QED
    BY <1>4, <1>5, <1>6, <1>7, <1>8, <1>9, <1>10 DEF QueryWorks

\* The registry goes on: a query forgets the steady nodes that are gone.
LEMMA RpcKeepsQueries ==
    ASSUME CapacityInv, RpcStep
    PROVE  CapacityInv'
<1>. DEFINE forget(q) == [queries[q] EXCEPT
                             !.steady = {n \in @ : nodeClients'[n] # Absent}]
<1>1. queries' = [q \in Query |->
          IF queries[q].pc = "idle" THEN queries[q] ELSE forget(q)]
    BY DEF RpcStep
<1>2. queries' = [q \in Query |-> queries'[q]]
    BY <1>1
<1>3. ASSUME NEW q \in Query
      PROVE  QueryInv(queries[q])'
    <2>1. QueryInv(queries[q]) /\ queries[q] \in QueryState
        BY DEF CapacityInv, QueryInv
    <2>2. CASE queries[q].pc = "idle"
        <3>1. queries'[q] = queries[q]
            BY <1>1, <2>2
        <3>. QED
            BY <2>1, <2>2, <3>1 DEF QueryInv, Answered, Settled
    <2>3. CASE queries[q].pc # "idle"
        <3>. DEFINE next == queries'[q]
        <3>1. next = forget(q)
            BY <1>1, <2>3
        <3>2. /\ next.pc = queries[q].pc /\ next.code = queries[q].code
              /\ next.pool = queries[q].pool /\ next.left = queries[q].left
              /\ next.asked = queries[q].asked
              /\ next.capacity = queries[q].capacity
              /\ next.since = queries[q].since
              /\ next.failed = queries[q].failed
              /\ next.steady
                     = {n \in queries[q].steady : nodeClients'[n] # Absent}
              /\ next \in QueryState
            BY <2>1, <3>1 DEF QueryState
        <3>. HIDE DEF next
        <3>3. /\ next.code = "OK" => Answered(next)
              /\ next.code = "Internal" => next.steady \subseteq next.failed
            BY <2>1, <3>2, SumStays
        <3>4. next.steady \subseteq Registered'
            BY <2>1, <3>2 DEF Registered, GetNodeController, QueryState
        <3>5. /\ next \in QueryState
              /\ next.left \cup next.asked \cup next.failed \subseteq next.since
              /\ next.left \cap next.asked = {}
              /\ next.steady \subseteq next.since
              /\ next.failed \cap (next.left \cup next.asked) = {}
              /\ next.pc # "idle" => next.code = "OK"
              /\ next.pc # "asking" => next.asked = {}
              /\ next.pc = "idle" => next.left = {}
              /\ next.pc = "asking" => \E n \in next.since : next.asked = {n}
              /\ ~next.pool => \A m, n \in next.since : m = n
            BY <2>1, <3>2 DEF QueryInv
        <3>. QED
            BY <3>3, <3>4, <3>5 DEF QueryInv, Answered, Settled, next
    <2>. QED
        BY <2>2, <2>3
<1>. QED
    BY <1>2, <1>3 DEF CapacityInv

\* Queries that have not begun, of a process that starts or starts again.
LEMMA FreshQueries ==
    ASSUME queries = [q \in Query |-> NoQuery]
    PROVE  CapacityInv
<1>1. queries = [q \in Query |-> queries[q]]
    OBVIOUS
<1>2. ASSUME NEW q \in Query PROVE queries[q] = NoQuery
    OBVIOUS
<1>. QED
    BY <1>1, <1>2, NoQueryInv DEF CapacityInv

LEMMA RestartKeepsQueries ==
    ASSUME ProcessRestarts
    PROVE  CapacityInv'
<1>1. ASSUME NEW q \in Query PROVE queries'[q] = NoQuery
    BY DEF ProcessRestarts
<1>2. queries' = [q \in Query |-> queries'[q]]
    BY DEF ProcessRestarts
<1>3. QueryInv(NoQuery)'
    <2>1. QueryInv(NoQuery)
        BY NoQueryInv
    <2>2. NoQuery.pc = "idle" /\ NoQuery.code = "Internal"
        BY DEF NoQuery, Begun
    <2>. QED
        BY <2>1, <2>2 DEF QueryInv
<1>4. ASSUME NEW q \in Query PROVE QueryInv(queries[q])'
    BY <1>1, <1>3 DEF QueryInv, Answered, Settled
<1>. QED
    BY <1>2, <1>4 DEF CapacityInv

(***************************************************************************)
(* Whatever the registry does meanwhile, a GetCapacity keeps to what its   *)
(* invariant says: its sum is that of nodes that answered, each once.      *)
(***************************************************************************)
THEOREM CapacityInvariant == CapacitySpec => []CapacityInv
<1>1. CapacityInit => CapacityInv
    BY FreshQueries DEF CapacityInit
<1>2. CapacityInv /\ [CapacityNext]_capacityVars => CapacityInv'
    <2>. SUFFICES ASSUME CapacityInv, [CapacityNext]_capacityVars
                  PROVE  CapacityInv'
        OBVIOUS
    <2>1. CASE RpcStep
        BY <2>1, RpcKeepsQueries
    <2>2. CASE ProcessRestarts
        BY <2>2, RestartKeepsQueries
    <2>3. CASE \E q \in Query :
              GetPoolCapacity(q) \/ GetTopologyCapacity(q) \/ QueryWorks(q)
        BY <2>3, QueryStep
    <2>4. CASE UNCHANGED capacityVars
        BY <2>4 DEF capacityVars, vars, CapacityInv, QueryInv, Answered, Settled,
                    Registered, GetNodeController
    <2>. QED
        BY <2>1, <2>2, <2>3, <2>4 DEF CapacityNext
<1>. QED
    BY <1>1, <1>2, PTL DEF CapacitySpec

\* The sum of nodes between two sets is between what the two sets have.
LEMMA SumBetween ==
    ASSUME NEW least, NEW nodes, NEW most \in SUBSET Node,
           least \subseteq nodes, nodes \subseteq most
    PROVE  /\ NodeCapacity * Cardinality(least)
                  <= NodeCapacity * Cardinality(nodes)
           /\ NodeCapacity * Cardinality(nodes)
                  <= NodeCapacity * Cardinality(most)
<1>1. IsFiniteSet(most) /\ IsFiniteSet(nodes) /\ IsFiniteSet(least)
    BY CapacityAssumption, FS_Subset
<1>2. /\ Cardinality(least) <= Cardinality(nodes)
      /\ Cardinality(nodes) <= Cardinality(most)
    BY <1>1, FS_Subset
<1>3. /\ Cardinality(least) \in Nat
      /\ Cardinality(nodes) \in Nat
      /\ Cardinality(most) \in Nat
    BY <1>1, FS_CardinalityType
<1>. QED
    BY <1>2, <1>3, ProductGrows

(***************************************************************************)
(* For every number of nodes, queries and registrations, a GetCapacity has *)
(* in its sum each node that stayed registered and answered, and none      *)
(* twice; one for a single node fails only with that node.                 *)
(***************************************************************************)
THEOREM CapacityCountsHolds == CapacitySpec => []CapacityCounts
<1>1. CapacityInv => CapacityCounts
    <2>. SUFFICES ASSUME CapacityInv, NEW q \in Query
                  PROVE  LET query   == queries[q]
                             settled == Settled(query)
                         IN  /\ query.code = "OK" =>
                                    /\ query.capacity
                                           <= NodeCapacity * Cardinality(settled)
                                    /\ NodeCapacity
                                           * Cardinality(settled \cap query.steady)
                                           <= query.capacity
                             /\ query.code = "Internal" =>
                                    query.steady \subseteq query.failed
        BY DEF CapacityCounts
    <2>. DEFINE query   == queries[q]
                settled == Settled(query)
    <2>1. QueryInv(query)
        BY DEF CapacityInv
    <2>2. settled \in SUBSET Node
        BY <2>1 DEF QueryInv, QueryState, Settled
    <2>3. ASSUME query.code = "OK"
          PROVE  /\ query.capacity <= NodeCapacity * Cardinality(settled)
                 /\ NodeCapacity * Cardinality(settled \cap query.steady)
                        <= query.capacity
        <3>1. PICK nodes \in SUBSET settled :
                  /\ settled \cap query.steady \subseteq nodes
                  /\ query.capacity = NodeCapacity * Cardinality(nodes)
            BY <2>1, <2>3 DEF QueryInv, Answered
        <3>. HIDE DEF settled
        <3>. QED
            BY <2>2, <3>1, SumBetween
    <2>4. query.code = "Internal" => query.steady \subseteq query.failed
        BY <2>1 DEF QueryInv
    <2>. QED
        BY <2>3, <2>4
<1>. QED
    BY <1>1, CapacityInvariant, PTL

-----------------------------------------------------------------------------
(***************************************************************************)
(* Queries take nothing from the registry: with any number of them beside  *)
(* it, and with restarts, the nodes change as NodeRegistry says, and what  *)
(* a query looks up is what that registry holds.                           *)
(***************************************************************************)
THEOREM QueriesImplementRegistry == CapacitySpec => ImplementsNodeRegistry
<1>1. CapacityInit => Init
    BY DEF CapacityInit
<1>2. [CapacityNext]_capacityVars => [Next]_vars
    BY DEF CapacityNext, RpcStep, ProcessRestarts, Next, GetPoolCapacity,
           GetTopologyCapacity, QueryWorks, Connects, ConnectsInVain, Fails,
           Answers, Returns, capacityVars
<1>3. CapacitySpec => Spec
    BY <1>1, <1>2, PTL DEF CapacitySpec, Spec
<1>. QED
    BY <1>3, NodeRegistryImplemented

=============================================================================
