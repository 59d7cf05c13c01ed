SPECIFICATION Spec
CONSTANTS
    NbBitsItem = 2
    WideShift = {0}
    Publications <- MCTwo
    ThrotData = 2
    MAX_BLOCK_NUMBER = 3
    MAX_PACKET_NUMBER = 4
    MAX_PACKET_SIZE = 8
    MaxSessions = 1
    WritesMayFail = TRUE
    RemovesMayFail = TRUE
    SIZE_MAX = 10
    CallocMayFail = FALSE
    MapOutgrowsBuffer = FALSE
    RepublishLive = TRUE
CHECK_DEADLOCK FALSE
INVARIANTS CountMatchesIndex CountedBlocksVerified
