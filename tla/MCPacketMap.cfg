SPECIFICATION Spec
CONSTANTS
    NbBitsItem = 3
    WideShift = {0, 1}
    Totals <- MCTotalsNotMultiple
    PacketNumbers <- MCPacketNumbers
INVARIANT TypeOK
PROPERTY ImplementsPacketSet
