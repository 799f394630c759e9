SPECIFICATION FairSpec
CONSTANTS
    Size <- EightCells
    MsgSize <- ThreeCells
    MaxMsgs = 6
    MaxHellos = 2
    Races = {FALSE, TRUE}
INVARIANTS
    NoSharedCell
PROPERTIES
    ImplementsQueue
    WaitingIsHandled
    DrainEnds
