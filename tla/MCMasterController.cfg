CONSTANTS
    Volume = {v1, v2}
    Gpu = gpu
    Fpga = fpga
    Intel = intel
    Region = region
    Afu = afu
    n1 = n1
    n2 = n2
    Text <- MCText
    Regions <- MCRegions
    GpuMemory = 2
    GpuMillicores = 2
    Unrepresentable = unrepresentable
    Absent = absent
    Node = {n1, n2}
    MaxDevices = 1
    MaxReports = 1
    Caller = {c1, c2}
    Request <- MCRequestCluster
    Free = free
SYMMETRY MCSymmetry
SPECIFICATION Spec
INVARIANTS
    CapacityRespected
    ChoiceStillFits
    NamesResolve
    DeletedStaysDeleted
PROPERTIES
    ExhaustedMeansCharged
    NotFoundMeansNoneFits
    ImplementsLedger
