------------------------------- MODULE Capacity -------------------------------
(***************************************************************************)
(* GetCapacity of the controller (pkg/cdi-driver/controllerserver-master): *)
(* the sum over the registered nodes, or one node's answer for a topology  *)
(* request.  The nodes are copied from the registry once, under its mutex; *)
(* every node is then looked up again and asked, one after the other,      *)
(* while nodes come and go.                                                *)
(***************************************************************************)
EXTENDS RegistryServer, Naturals

CONSTANTS
    Query,        \* goroutines serving GetCapacity
    NodeCapacity  \* what every node controller answers

ASSUME CapacityAssumption ==
    NodeCapacity \in Nat \ {0} /\ IsFiniteSet(Node)

VARIABLE queries  \* what every GetCapacity is doing, or has answered

capacityVars == <<vars, queries>>

(***************************************************************************)
(* left: the nodes that are still to be asked; asked: the one that is      *)
(* asked now.  The other fields are there for the properties: since, the   *)
(* nodes that were registered when the query began; steady, those of them  *)
(* registered without a break; failed, those whose call failed.            *)
(***************************************************************************)
QueryState ==
    [pc : {"idle", "lookup", "asking"}, code : {"OK", "Internal"},
     pool : BOOLEAN, left : SUBSET Node, asked : SUBSET Node, capacity : Nat,
     since : SUBSET Node, steady : SUBSET Node, failed : SUBSET Node]

Begun(pc, code, pool, nodes) ==
    [pc |-> pc, code |-> code, pool |-> pool, left |-> nodes, asked |-> {},
     capacity |-> 0, since |-> nodes, steady |-> nodes, failed |-> {}]

NoQuery == Begun("idle", "Internal", FALSE, {})

Registered == {n \in Node : GetNodeController(n) # Absent}

-----------------------------------------------------------------------------
CapacityInit == Init /\ queries = [q \in Query |-> NoQuery]

\* Without a topology: NodeClients copies what is registered now.
GetPoolCapacity(q) ==
    /\ queries[q].pc = "idle"
    /\ queries' = [queries EXCEPT ![q] = Begun("lookup", "OK", TRUE, Registered)]
    /\ UNCHANGED vars

\* With a topology: the one node, if it is registered.
GetTopologyCapacity(q) ==
    /\ queries[q].pc = "idle"
    /\ \E n \in Node :
           queries' = [queries EXCEPT ![q] =
               IF n \in Registered
               THEN Begun("lookup", "OK", FALSE, {n})
               ELSE NoQuery]
    /\ UNCHANGED vars

\* What is answered without a node: the sum goes on, a single node is an error.
Without(query, nodes) ==
    IF query.pool
    THEN [query EXCEPT !.pc = "lookup", !.left = @ \ nodes, !.asked = {}]
    ELSE [query EXCEPT !.pc = "idle", !.code = "Internal",
                       !.left = {}, !.asked = {}]

\* getNodeCapacity: the node is looked up again, and connected to.
Connects(q) ==
    /\ queries[q].pc = "lookup"
    /\ \E n \in queries[q].left \cap Registered :
           queries' = [queries EXCEPT ![q].pc = "asking",
                                      ![q].left = @ \ {n}, ![q].asked = {n}]
    /\ UNCHANGED vars

\* The node was unregistered since the copy was made.
ConnectsInVain(q) ==
    /\ queries[q].pc = "lookup"
    /\ \E n \in queries[q].left \ Registered :
           queries' = [queries EXCEPT ![q] = Without(@, {n})]
    /\ UNCHANGED vars

\* Mutant: the sum ends at the first node that cannot be asked.
FailsEnds(q) ==
    /\ queries[q].pc = "asking"
    /\ queries' = [queries EXCEPT ![q].pc = "idle", ![q].left = {},
                                  ![q].failed = @ \cup queries[q].asked,
                                  ![q].asked = {}]
    /\ UNCHANGED vars

\* The node cannot be reached, or its GetCapacity fails or times out.
Fails(q) ==
    /\ queries[q].pc = "asking"
    /\ LET query == queries[q] IN
           queries' = [queries EXCEPT ![q] =
               [Without(query, {}) EXCEPT !.failed = query.failed \cup query.asked]]
    /\ UNCHANGED vars

Answers(q) ==
    /\ queries[q].pc = "asking"
    /\ queries' = [queries EXCEPT ![q].pc = "lookup", ![q].asked = {},
                                  ![q].capacity = @ + NodeCapacity]
    /\ UNCHANGED vars

Returns(q) ==
    /\ queries[q].pc = "lookup"
    /\ queries[q].left = {}
    /\ queries' = [queries EXCEPT ![q].pc = "idle"]
    /\ UNCHANGED vars

QueryWorks(q) ==
    Connects(q) \/ ConnectsInVain(q) \/ Fails(q) \/ Answers(q) \/ Returns(q)

\* The registry goes on; when the process ends, its queries end.
RpcStep ==
    /\ \E r \in Rpc : RpcSteps(r)
    /\ queries' = [q \in Query |->
           IF queries[q].pc = "idle"
           THEN queries[q]
           ELSE [queries[q] EXCEPT
                    !.steady = {n \in @ : nodeClients'[n] # Absent}]]

ProcessRestarts == Restart /\ queries' = [q \in Query |-> NoQuery]

CapacityNext ==
    \/ RpcStep \/ ProcessRestarts
    \/ \E q \in Query :
           GetPoolCapacity(q) \/ GetTopologyCapacity(q) \/ QueryWorks(q)

CapacitySpec == CapacityInit /\ [][CapacityNext]_capacityVars

-----------------------------------------------------------------------------
\* The nodes that were there when the query began and that it is done with.
Settled(query) ==
    query.since \ (IF query.pc = "idle" THEN query.failed
                   ELSE query.left \cup query.asked \cup query.failed)

(***************************************************************************)
(* A node that was registered throughout a query is in its sum, unless its *)
(* own call failed: neither the other nodes, that come and go or do not    *)
(* answer, nor the age of the copy take it out.  No node is counted twice, *)
(* or counted if it was not registered when the query began.  A query for  *)
(* one node fails only if that node's call did, or if it was unregistered. *)
(***************************************************************************)
CapacityCounts ==
    \A q \in Query :
        LET query   == queries[q]
            settled == Settled(query)
        IN  /\ query.code = "OK" =>
                   /\ query.capacity <= NodeCapacity * Cardinality(settled)
                   /\ NodeCapacity * Cardinality(settled \cap query.steady)
                          <= query.capacity
            /\ query.code = "Internal" => query.steady \subseteq query.failed

(***************************************************************************)
(* The inductive invariant: a query knows what it has still to ask, and    *)
(* its sum is that of some set of nodes that have answered.                *)
(***************************************************************************)
Answered(query) ==
    \E nodes \in SUBSET Settled(query) :
        /\ Settled(query) \cap query.steady \subseteq nodes
        /\ query.capacity = NodeCapacity * Cardinality(nodes)

QueryInv(query) ==
    /\ query \in QueryState
    /\ query.left \cup query.asked \cup query.failed \subseteq query.since
    /\ query.left \cap query.asked = {} /\ query.steady \subseteq query.since
    /\ query.failed \cap (query.left \cup query.asked) = {}
    /\ query.pc # "idle" =>
           query.code = "OK" /\ query.steady \subseteq Registered
    /\ query.pc # "asking" => query.asked = {}
    /\ query.pc = "idle" => query.left = {}
    /\ query.pc = "asking" =>
           \E n \in query.since : query.asked = {n}
    /\ ~query.pool => \A m, n \in query.since : m = n
    /\ query.code = "OK" => Answered(query)
    /\ query.code = "Internal" => query.steady \subseteq query.failed

CapacityInv ==
    /\ queries = [q \in Query |-> queries[q]]
    /\ \A q \in Query : QueryInv(queries[q])
=============================================================================
