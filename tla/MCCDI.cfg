CONSTANTS
    Volume = {v1}
    Gpu = gpu
    Fpga = fpga
    Intel = intel
    Region = region
    Afu = afu
    n1 = n1
    Text <- MCText
    Regions <- MCRegions
    GpuMemory = 1
    GpuMillicores = 1
    Unrepresentable = unrepresentable
    Absent = absent
    Node = {n1}
    MaxDevices = 2
    MaxReports = 1
    Caller = {c1, c2}
    Request <- MCRequestEither
    Free = free
    Hardware <- MCHardware
    Handler = {h1, h2}
SYMMETRY MCSymmetry
SPECIFICATION CDISpec
CONSTRAINT MCUndisturbed
INVARIANTS
    CDIInv
    NodeTablesAgree
    ChargedIsAllocated
PROPERTIES
    AllocatedFits
