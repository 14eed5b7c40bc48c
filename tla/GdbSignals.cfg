SPECIFICATION Spec
CONSTANTS
    Package = "gdb"
    Tar = "tar.gz"
    Piped = {"tar.gz"}
    Stages <- MCStages
    Arts <- MCArts
    Merged <- MCMerged
    Prereqs <- MCPrereqs
    Below <- MCBelow
    SameDir <- MCSameDir
    Fills <- MCFills
    Needs <- MCNeeds
    Fetched <- MCFetched
    Makes <- MCMakes
    Uses <- MCUses
    Once <- MCOnce
    Quiet <- MCQuiet
    Lax <- MCLax
    Listers <- MCListers
    Tools <- MCTools
    Jobs = {"package", "regress", "cleanup", "flushup"}
    Faults = {"signal"}
    MaxFaults = 6
INVARIANTS TruthInv StampsTruthful SourceLogs TestedInv TestedIsPublished WholeInv ArchivesWhole CompleteInv PublishedComplete RegressInv RegressProves
PROPERTIES ImplementsRelease
