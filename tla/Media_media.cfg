CONSTANTS
    scene = scene
    line = line
    cat = cat
    tree = tree
    first = first
    second = second
    Phrases <- MCPhrases
    Filmed <- MCFilmed
    Pictures <- MCPictures
    Makers <- MCMakers
    MaxRevision = 2
    MaxVideos = 1
    MaxRequests = 2
    MaxChanges = 1
    MaxFaults = 1
SPECIFICATION FairSpec
INVARIANTS
    RowsHaveFiles
    FilesAreCurrent
PROPERTIES
    LossesHeal
CHECK_DEADLOCK FALSE
