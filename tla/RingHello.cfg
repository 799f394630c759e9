SPECIFICATION FairSpec
CONSTANTS
    Size <- EightCells
    MsgSize <- ThreeCells
    MaxMsgs = 5
    MaxHellos = 2
    Races = {TRUE}
INVARIANT HandledOnceInOrder
