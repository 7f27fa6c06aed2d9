CONSTANTS
    Volume = {v1, v2, v3}
    Gpu = gpu
    Fpga = fpga
    Intel = intel
    Region = region
    Afu = afu
    Text <- MCText
    Regions <- MCRegions
    GpuMemory = 3
    GpuMillicores = 3
    Unrepresentable = unrepresentable
    Absent = absent
    Address = {a1, a2}
    Params <- MCParams
SYMMETRY MCSymmetry
SPECIFICATION Spec
INVARIANTS
    LedgerCapacity
    ExhaustedMeansInUse
    ReleaseNeverHurts
