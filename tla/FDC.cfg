CONSTANTS
    TimeoutLimit = 2
    TimeoutWrap = 4
    Requests = {0, 17, 18, 35, 36, 2879, 2880}
SPECIFICATION Spec
INVARIANTS
    ReadyToTransfer
    WaitsForItsOwn
PROPERTIES
    ImplementsBlockDevice
    ReturnsOrPanics
