SPECIFICATION FairSpec
CONSTANTS
    Publications <- MCPublications
    ThrotData = 2
    MAX_BLOCK_NUMBER = 2
    MAX_PACKET_NUMBER = 2
    MAX_PACKET_SIZE = 8
    WritesMayFail = TRUE
    RemovesMayFail = TRUE
    Inputs <- MCInputs
    BlockSizes = {1, 2, 3, 7}
    MIN_BLOCK_SIZE = 2
    Uninitialised = {0, 3}
    ReadsMayFail = TRUE
    BLOCK_SEND_REPEAT = 2
INVARIANTS TypeOK PublicationComplete WireCarriesInput ReceiversAccept PassCoversBlock
PROPERTY EveryBlockComesAgain
