CONSTANTS
    Width = 8
    MaxCommands = 10
    Ahead = 6
SPECIFICATION IRQSpec
INVARIANTS
    OneInterruptEach
PROPERTY SoloNotStuck
CHECK_DEADLOCK FALSE
