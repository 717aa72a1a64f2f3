CONSTANTS
    KERNEL_CYLINDER_COUNT = 1
    MaxCalls = 3
SPECIFICATION BootSpec
INVARIANTS
    Stage2Whole
    KernelWhole
    TableIsTheMap
    A20Enabled
    ResetOnlyByScancode
PROPERTY BootEnds
