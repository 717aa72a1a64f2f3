CONSTANTS
    CapsLock = CapsLock
    LeftShift = LeftShift
    LeftControl = LeftControl
    RightControl = RightControl
    Control = Control
    A = A
    PrintScreen = PrintScreen
    HoldCodes = {LeftShift, Control}
    LockCodes = {CapsLock}
    PlainCodes = {A, PrintScreen}
    ShiftCodes = {LeftShift}
    TypingCodes = {A}
    Keys <- SixKeys
    Code <- SharedCode
    ExtendedKeys = {RightControl, PrintScreen}
    FakeCodes = {LeftShift}
    MaxStrokes = 3
SPECIFICATION GetchSpec
INVARIANTS
    HoldKeysTracked
    AnswersAnEarlierEvent
