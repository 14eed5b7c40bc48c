SPECIFICATION FairSpec
CONSTANTS
    XLen = 64
    Commands <- AllCommands
    Cpus = {2, 3}
    RamSize = 32768
    Codes = {7, 256}
    MaxResets = 1
INVARIANTS BoardTypeOK HandOff TopologyFits BoardFits TreeMatchesBoard
PROPERTIES AllBoot
CHECK_DEADLOCK FALSE
