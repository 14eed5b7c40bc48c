SPECIFICATION Spec
CONSTANTS
    XLen = 64
    Commands <- BaseCommands
    Cpus = {1}
    RamSize = 32768
    Codes = {}
    MaxResets = 0
INVARIANTS AcceptedIsSupported
CHECK_DEADLOCK FALSE
