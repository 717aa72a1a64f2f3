CONSTANTS
    LeftShift = LeftShift
    CapsLock = CapsLock
    Escape = Escape
    Delete = Delete
    HoldCodes = {LeftShift}
    LockCodes = {CapsLock}
    PlainCodes = {Escape, Delete}
    ShiftCodes = {LeftShift}
    Keys <- FourKeys
    Code <- OwnCode
    ExtendedKeys = {Delete}
    FakeCodes = {}
    MaxStrokes = 2
SPECIFICATION Spec
INVARIANTS
    ActedOnceInOrder
    TornForward
    WholeUnlessOverlapped
PROPERTY PendingServed
CHECK_DEADLOCK FALSE
