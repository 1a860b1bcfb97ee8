CONSTANTS
    Texts <- MCTexts
    Limits <- MCLimits
    Jobs <- MCJobs
    Block = 2
    Overlap = 1
    Guard = 1
    Flush = 2
    Stories <- MCStories
    Rate = 3
    Second = 4
    BlockFrames = 2
    MaxTimeline = 10
    MaxSource = 9
    a1 = a1
    a2 = a2
    a3 = a3
    Attempts = {a1, a2, a3}
    Paired = {a3}
    RequestOf <- MCRequestOf
    Engines <- MCEngines
    Words <- MCWords
    ChunkWords = 2
    MinRetry = 1
    Crossfade = 1
    Modulus = 30000
    MaxFrames = 2
    MaxFiles = 2
    MaxCrashes = 1
    MaxFaults = 1
    c1 = c1
    c2 = c2
    Clients = {c1, c2}
    Room = 1
    MaxRuns = 2
    MaxSteps = 1
    g1 = g1
    g2 = g2
    take1 = take1
    take2 = take2
    Generations = {g1, g2}
    Versions = {take1, take2}
    Original = take1
    NoPin = NoPin
    Tracks <- MCTracks
    Timeline = 6
    ClipCap = 6
    MaxItems = 3
    Gap = 1
    Lengths <- MCLengths
    Starts <- MCStarts
    Cuts <- MCCuts
    MaxEdits = 4
    MaxRaised = 1
    MaxReworks = 2

SPECIFICATION StorySpec

PROPERTIES
    VersionsAreValidated

CHECK_DEADLOCK FALSE
