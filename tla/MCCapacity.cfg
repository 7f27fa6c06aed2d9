CONSTANTS
    n1 = n1
    n2 = n2
    b1 = b1
    Node = {n1, n2}
    Endpoint = {e1}
    Listener = {l1}
    Rpc = {r1, r2}
    Bucket = {b1}
    BucketOf <- MCBucketOf
    Free = free
    Absent = absent
    Query = {q1}
    NodeCapacity = 100
SPECIFICATION CapacitySpec
INVARIANTS
    CapacityCounts
