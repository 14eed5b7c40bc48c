SPECIFICATION Spec
CONSTANTS
    Package = "sdk"
    Tar = "tar.gz"
    Piped = {"tar.gz"}
    Stages <- MCStages
    Arts <- MCArts
    Merged <- MCMerged
    Prereqs <- MCPrereqs
    Below <- MCBelow
    SameDir <- MCSameDir
    Fills <- MCFills
    Needs <- MCNeeds
    Fetched <- MCFetched
    Makes <- MCMakes
    Uses <- MCUses
    Once <- MCOnce
    Quiet <- MCQuiet
    Lax <- MCLax
    Listers <- MCListers
    Tools <- MCTools
    Jobs = {"package", "flushup"}
    Faults = {"kill"}
    MaxFaults = 3
INVARIANTS PublishedComplete
