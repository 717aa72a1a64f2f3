CONSTANTS
    KERNEL_CYLINDER_COUNT = 1
    MaxCalls = 1
SPECIFICATION BootSpec
INVARIANT ReturnsToInitCode
