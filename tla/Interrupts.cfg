CONSTANTS
    IdtEntries = 256
    PicBase = 8
    TimerAddr = 1049600
    KeyboardAddr = 1049856
    Scancodes <- MCScancodes
    BufferSize = 3
    NONE = NONE
    RESET = RESET
    FIRMWARE = FIRMWARE
SPECIFICATION Spec
INVARIANT TimerReachesHandler
\* A triple fault shuts the CPU down: nothing runs after it.
CHECK_DEADLOCK FALSE
