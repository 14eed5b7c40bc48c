SPECIFICATION Spec
CONSTANTS
    XLen = 64
    Commands <- HartCommands
    Cpus = {2}
    RamSize = 32768
    Codes = {}
    MaxResets = 0
INVARIANTS ContextsAgree
CHECK_DEADLOCK FALSE
