CONSTANTS
    n1 = n1
    n2 = n2
    b1 = b1
    Node = {n1, n2}
    Endpoint = {e1, e2}
    Listener = {l1, l2}
    Rpc = {r1, r2}
    Bucket = {b1}
    BucketOf <- MCBucketOf
    Free = free
    Absent = absent
SPECIFICATION FairSpec
INVARIANTS
    RegistryInv
    CallbacksExclude
    ListenersKnowRegistered
PROPERTIES
    OnlyFailuresLeaveBehind
    ImplementsNodeRegistry
    EveryRpcReturns
