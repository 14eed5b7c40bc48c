SPECIFICATION Spec
CONSTANTS
    XLen = 64
    Settings <- MCSettings
    Sews = {0, 1, 3}
    Lmuls <- MCLmuls
    Avls = {0, 3, 256}
    FieldStates = {0, 3}
    MaxBlocks = 1
INVARIANTS BlocksTypeOK FoundBlockFits WholeRegisters
