SPECIFICATION FairSpec
CONSTANTS
    N = 3
    Goals = {"package", "regress", "cleanup", "flushup"}
    MaxCuts = 3
INVARIANTS MergeInv ToolchainHasAll NothingLost
PROPERTIES MergedUnlessOrphaned
