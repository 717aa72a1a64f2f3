CONSTANTS
    MaxCalls = 2
    FirstStart = 0
SPECIFICATION Spec
INVARIANT KernelFindsEntries
