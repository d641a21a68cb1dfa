SPECIFICATION Spec
CONSTANTS
    ByteMod = 6
    LongMod = 36
    Window = 3
    Start = 4
    MaxCounter = 16
    MaxKey = 1
    KeepTime = 2
INVARIANTS TypeOK DeliveredOnce WindowSound FreshAccepted
CHECK_DEADLOCK FALSE
