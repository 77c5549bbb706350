CONSTANTS
    Used <- MCUsed
    Values <- MCValues
    FineValues <- MCFineValues
    Pieces = {3}
    TzCount = 3
    TzPerChunk = 2
    PostBuf = 8
    Empty = Empty
    MaxRequests = 2
    MaxCommands = 1
    MaxUpdates = 1
SPECIFICATION UiSpec
INVARIANTS PageIsWhole
PROPERTIES SaveIsTheEdit CommandsAreTaken
