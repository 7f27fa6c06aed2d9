CONSTANTS
    Volume = {v1, v2}
    Gpu = gpu
    Fpga = fpga
    Intel = intel
    n1 = n1
    Text <- MCText
    Regions = {}
    GpuMemory = 1
    GpuMillicores = 1
    Unrepresentable = unrepresentable
    Absent = absent
    Node = {n1}
    MaxDevices = 1
    MaxReports = 2
    Caller = {c1, c2}
    Request <- MCRequest
    Free = free
    Lister = {l1}
    PageSizes = {0, 1}
SPECIFICATION ListFairSpec
INVARIANTS
    MasterInv
    ListingInv
PROPERTIES
    OnlyDeletionLeavesIDs
    EveryCallReturns
    EveryReportIsTaken
    EveryListingEnds
