CONSTANTS
    Volume = {v1, v2}
    Gpu = gpu
    Fpga = fpga
    Intel = intel
    n1 = n1
    Text <- MCText
    Regions = {}
    GpuMemory = 1
    GpuMillicores = 1
    Unrepresentable = unrepresentable
    Absent = absent
    Node = {n1}
    MaxDevices = 2
    MaxReports = 1
    Caller = {c1}
    Request <- MCRequest
    Free = free
    Lister = {l1}
    PageSizes = {1}
SPECIFICATION ListSpec
INVARIANT QuietListingShowsAll
