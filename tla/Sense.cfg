SPECIFICATION FairSpec
CONSTANTS
    Setups <- MCSetups
    Mwt = 50
    LoopTimes <- MCLoops
    SetupTimes <- MCSetupTimes
    Rate100 = 480
    PeriodTime = 50
    ExitTimes <- MCExitTimes
INVARIANT
    LiveKept
PROPERTY
    DeadNoticed
CHECK_DEADLOCK FALSE
