SPECIFICATION EverySpec
CONSTANTS
    Tried = {"sdk", "sdkWin", "qemuWin", "gdb", "gdbWin", "xc3", "openocd", "openocdWin", "binutils", "binutilsWin", "trace", "traceWin", "gcc", "gccWin"}
    Chained = {"gdb", "gdbWin", "xc3", "openocd", "openocdWin", "binutils", "binutilsWin", "trace", "traceWin", "gcc", "gccWin"}
    Uncleaned = {"gcc", "gccWin"}
    Jobs = {"package", "cleanup", "flushup"}
    Faults = {"signal", "kill"}
    Large = {"qemuWin"}
    MaxFaults = 3
    LargeMaxFaults = 2
INVARIANTS EveryStampTruthful ChainedComplete UncleanedStands UncleanedRegress
PROPERTIES UncleanedStampsStay
