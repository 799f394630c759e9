SPECIFICATION Spec
CONSTANTS
    g1 = g1
    g2 = g2
    g3 = g3
    Guis = {g1, g2, g3}
    Nil = Nil
    Setups <- AllSetups
INVARIANTS
    OneAtATime
    OwnEmulator
    RunningIsServed
    RemovedStaysOut
CHECK_DEADLOCK FALSE
