CONSTANTS
    v1 = v1
    v2 = v2
    d1 = d1
    d2 = d2
    id1 = id1
    id2 = id2
    c1 = c1
    Volume = {v1, v2}
    Device = {d1, d2}
    DeviceID = {id1, id2}
    Found <- MCFound
    ContextID <- MCContextID
    Container = {c1}
    Mounts <- MCMounts
    Handler = {h1, h2}
    Torn = torn
    Absent = absent
SYMMETRY MCSymmetry
SPECIFICATION Spec
INVARIANTS
    StagingInv
    StartedHasDevices
    StagedIsWhole
