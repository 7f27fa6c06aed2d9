----------------------------- MODULE NodeRegistry -----------------------------
(***************************************************************************)
(* What the registry promises to the nodes and to its listeners, without   *)
(* its RPCs, its hashed locks and its mutex: every node has one change     *)
(* under way at most, a change is recorded before any listener is called,  *)
(* and each listener is called once for it, until one fails.  The changes  *)
(* of different nodes do not wait for each other.                          *)
(***************************************************************************)
CONSTANTS
    Node,      \* node identifiers
    Endpoint,  \* endpoints a node controller can be reached at
    Listener,  \* what is told of nodes that come and go
    Absent     \* no such key

VARIABLES
    nodeClients,  \* node |-> endpoint, or Absent
    known,        \* listener |-> node |-> the endpoint it was told last, or Absent
    change        \* node |-> the change under way, with the listeners yet to call

registryVars == <<nodeClients, known, change>>

Settled == [phase |-> "settled", left |-> {}]

Nobody == [n \in Node |-> Absent]

Init ==
    /\ nodeClients = Nobody
    /\ known = [l \in Listener |-> Nobody]
    /\ change = [n \in Node |-> Settled]

-----------------------------------------------------------------------------
\* A node comes, or changes its endpoint.
Register(n, e) ==
    /\ change[n] = Settled
    /\ nodeClients[n] # e
    /\ nodeClients' = [nodeClients EXCEPT ![n] = e]
    /\ change' = [change EXCEPT ![n] = [phase |-> "adding", left |-> Listener]]
    /\ UNCHANGED known

\* A listener is told of the endpoint that is registered.
Tell(n, l) ==
    /\ change[n].phase = "adding" /\ l \in change[n].left
    /\ known' = [known EXCEPT ![l][n] = nodeClients[n]]
    /\ change' = [change EXCEPT ![n].left = @ \ {l}]
    /\ UNCHANGED nodeClients

\* A listener that is told fails: the others are not told any more.
Refuse(n) ==
    /\ change[n].phase = "adding" /\ change[n].left # {}
    /\ change' = [change EXCEPT ![n] = [phase |-> "failed", left |-> {}]]
    /\ UNCHANGED <<nodeClients, known>>

\* The node is taken out again.
Undo(n) ==
    /\ change[n].phase = "failed"
    /\ nodeClients' = [nodeClients EXCEPT ![n] = Absent]
    /\ change' = [change EXCEPT ![n] = Settled]
    /\ UNCHANGED known

\* A node goes.  Nobody is called for one that was not there.
Unregister(n) ==
    /\ change[n] = Settled
    /\ nodeClients' = [nodeClients EXCEPT ![n] = Absent]
    /\ change' = [change EXCEPT
           ![n] = [phase |-> "deleting",
                   left |-> IF nodeClients[n] = Absent THEN {} ELSE Listener]]
    /\ UNCHANGED known

Forget(n, l) ==
    /\ change[n].phase = "deleting" /\ l \in change[n].left
    /\ known' = [known EXCEPT ![l][n] = Absent]
    /\ change' = [change EXCEPT ![n].left = @ \ {l}]
    /\ UNCHANGED nodeClients

\* Every listener was called.
Settle(n) ==
    /\ change[n].phase \in {"adding", "deleting"} /\ change[n].left = {}
    /\ change' = [change EXCEPT ![n] = Settled]
    /\ UNCHANGED <<nodeClients, known>>

Reset ==
    /\ nodeClients' = Nobody
    /\ known' = [l \in Listener |-> Nobody]
    /\ change' = [n \in Node |-> Settled]

-----------------------------------------------------------------------------
Next ==
    \/ \E n \in Node :
           \/ \E e \in Endpoint : Register(n, e)
           \/ \E l \in Listener : Tell(n, l) \/ Forget(n, l)
           \/ Refuse(n) \/ Undo(n) \/ Unregister(n) \/ Settle(n)
    \/ Reset

Spec == Init /\ [][Next]_registryVars
=============================================================================
