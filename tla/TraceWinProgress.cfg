SPECIFICATION FairSpec
CONSTANTS
    Package = "traceWin"
    Tar = "tar.gz"
    Piped = {"tar.gz"}
    Stages <- MCStages
    Arts <- MCArts
    Merged <- MCMerged
    Prereqs <- MCPrereqs
    Below <- MCBelow
    SameDir <- MCSameDir
    Fills <- MCFills
    Needs <- MCNeeds
    Fetched <- MCFetched
    Makes <- MCMakes
    Uses <- MCUses
    Once <- MCOnce
    Quiet <- MCQuiet
    Lax <- MCLax
    Listers <- MCListers
    Tools <- MCTools
    Jobs = {"package", "cleanup", "flushup", "flush", "clean"}
    Faults = {"error", "kill", "short"}
    MaxFaults = 3
INVARIANTS TypeOK SettledInv SettledAfterSuccess StaleArtifactsFirst
PROPERTIES PublishedUnlessHollow
